--------------------------- MODULE Control_proofs ---------------------------
(***************************************************************************)
(* Proofs about what the control server does:                             *)
(*   CacheTasks, for any kinds of tasks, any number of them and of requests*)
(*     that switch Boost off: tasks exclude each other, and a boost that  *)
(*     was switched off leaves nothing in the pool;                       *)
(*   CacheMigration, for any files and any number of migrations, failures *)
(*     and deaths of the program: nothing of what was in the target       *)
(*     directory is lost;                                                 *)
(*   ControlConfig, for any settings and any number of transactions,      *)
(*     failing calls and deaths: what follows the configuration is where  *)
(*     the configuration says, unless taking it back failed and said so,  *)
(*     the tray started the proxy on a port that was then taken back, or  *)
(*     main set what it had loaded over a request; and the PAC address of *)
(*     somebody else is given back, unless it was changed while an earlier *)
(*     one was remembered;                                                *)
(*   SelfUpdate, for any number of downloads, failures and stops of the   *)
(*     machine: a whole program is left;                                  *)
(*   AndroidTools, for any uploads, requests, jobs and components: what is *)
(*     reported as done is there, except a module while it is replaced or *)
(*     after that failed; and every upload's directory is accounted for.  *)
(***************************************************************************)
EXTENDS CacheTasks, CacheMigration, ControlConfig, SelfUpdate, AndroidTools,
        FiniteSetTheorems, TLAPS

-----------------------------------------------------------------------------
(***************************************************************************)
(* The cache tasks.                                                        *)
(***************************************************************************)
Live(t) == job[t].at \notin {"none", "done"}

\* activeTaskID names the one task whose goroutine has not finished, if any, and
\* the flag that is set is that of its kind.
Exclusive ==
    /\ \A t \in Tasks : Live(t) <=> t = active
    /\ flags = IF active # 0 /\ job[active].kind \in Flagged THEN {job[active].kind} ELSE {}

\* cacheCancelCh is the channel of the active task, or that has been closed (Stop).
Reachable == active # 0 => channel = active \/ active \in closed

\* Whoever switches Boost off has closed the channel of the boost before the pool.
ClosedFirst ==
    /\ \A d \in Disablers : off[d].at = "cut" => off[d].boost \in closed \union {0}
    /\ cut \subseteq closed /\ 0 \notin cut

TasksIInv == TasksTypeOK /\ Exclusive /\ Reachable /\ ClosedFirst /\ SwitchedOffStaysOff

-----------------------------------------------------------------------------
LEMMA TasksInitIInv == TasksInit => TasksIInv
<1> SUFFICES ASSUME TasksInit PROVE TasksIInv
  OBVIOUS
<1>1. job \in [Tasks -> [kind : AllKinds \union {"none"},
                         at : {"none", "begun", "ready", "opening", "working", "told",
                               "shown", "done"},
                         gen : 0 .. MaxGen, res : Outcomes \union {"none"}]]
  BY TasksAssumption DEF TasksInit, NoJob
<1>2. TasksTypeOK
  <2>1. /\ begun = 0 /\ 0 \in 0 .. MaxTasks /\ 0 \in 0 .. MaxGen /\ 0 \in 0 .. 0
    BY TasksAssumption DEF TasksInit
  <2>2. summary \in [task : 0 .. begun, status : Outcomes \union {"none"}]
    BY <2>1 DEF TasksInit
  <2>3. pool \in [gen : 0 .. MaxGen, on : BOOLEAN, by : 0 .. begun]
    BY <2>1 DEF TasksInit
  <2>4. off \in [Disablers -> [at : {"idle", "cut", "reset", "done"}, boost : 0 .. begun]]
    BY <2>1 DEF TasksInit
  <2> QED  BY <1>1, <2>1, <2>2, <2>3, <2>4 DEF TasksInit, TasksTypeOK
<1>3. \A t \in Tasks : ~Live(t) /\ t # 0
  BY DEF TasksInit, NoJob, Live, Tasks
<1> QED
  BY <1>2, <1>3 DEF TasksInit, TasksIInv, Exclusive, Reachable, ClosedFirst, SwitchedOffStaysOff

\* Channels of tasks only.
LEMMA ClosingOne ==
  ASSUME TasksTypeOK
  PROVE  /\ WithClosed \subseteq 1 .. begun /\ closed \subseteq WithClosed
         /\ channel # 0 => channel \in WithClosed
BY DEF TasksTypeOK, WithClosed

\* tryBeginCacheTask.
LEMMA TasksBeginIInv ==
  ASSUME TasksIInv, NEW kind \in TaskKinds, TryBegin(kind)
  PROVE  TasksIInv'
<1>1. /\ active = 0 /\ flags = {} /\ begun < MaxTasks /\ MaxTasks \in Nat
      /\ begun' = begun + 1 /\ active' = begun + 1 /\ channel' = begun + 1
      /\ flags' = (IF kind \in Flagged THEN flags \union {kind} ELSE flags)
      /\ UNCHANGED <<closed, shown, summary, pool, off, cut, stopped>>
      /\ kind \in AllKinds
  BY TasksAssumption DEF TryBegin, Busy
<1>2. begun \in Nat /\ begun + 1 \in Tasks
  BY <1>1 DEF TasksIInv, TasksTypeOK, Tasks
<1>3. /\ job' = [job EXCEPT ![begun + 1] =
                   [kind |-> kind, at |-> "begun", gen |-> 0, res |-> "none"]]
  BY DEF TryBegin
<1>4. TasksTypeOK'
  <2>1. /\ begun' \in 0 .. MaxTasks /\ active' \in 0 .. begun' /\ channel' \in 0 .. begun'
        /\ flags' \subseteq Flagged /\ closed' \subseteq 1 .. begun' /\ cut' \subseteq 1 .. begun'
    BY <1>1, <1>2 DEF TasksIInv, TasksTypeOK
  <2>2. /\ summary' \in [task : 0 .. begun', status : Outcomes \union {"none"}]
        /\ pool' \in [gen : 0 .. MaxGen, on : BOOLEAN, by : 0 .. begun']
    BY <1>1, <1>2 DEF TasksIInv, TasksTypeOK
  <2>3. off' \in [Disablers -> [at : {"idle", "cut", "reset", "done"}, boost : 0 .. begun']]
    BY <1>1, <1>2 DEF TasksIInv, TasksTypeOK
  <2>4. job' \in [Tasks -> [kind : AllKinds \union {"none"},
                          at : {"none", "begun", "ready", "opening", "working", "told",
                                "shown", "done"},
                          gen : 0 .. MaxGen, res : Outcomes \union {"none"}]]
    BY <1>1, <1>2, <1>3, TasksAssumption DEF TasksIInv, TasksTypeOK
  <2> QED  BY <1>1, <2>1, <2>2, <2>3, <2>4 DEF TasksIInv, TasksTypeOK
<1>5. Exclusive'
  <2>1. job'[begun + 1].at = "begun" /\ job'[begun + 1].kind = kind
    BY <1>2, <1>3 DEF TasksIInv, TasksTypeOK
  <2>2. \A t \in Tasks \ {begun + 1} : job'[t] = job[t]
    BY <1>2, <1>3 DEF TasksIInv, TasksTypeOK
  <2>3. \A t \in Tasks : ~Live(t)
    BY <1>1 DEF TasksIInv, Exclusive, Tasks
  <2> QED  BY <1>1, <1>2, <2>1, <2>2, <2>3 DEF Exclusive, Live
<1> QED  BY <1>1, <1>4, <1>5 DEF TasksIInv, Reachable, ClosedFirst, SwitchedOffStaysOff

JobType == [kind : AllKinds \union {"none"},
            at : {"none", "begun", "ready", "opening", "working", "told", "shown", "done"},
            gen : 0 .. MaxGen, res : Outcomes \union {"none"}]

\* Two fields of a job change, its kind stays.
LEMMA JobOpening ==
  ASSUME NEW j \in JobType, NEW g \in 0 .. MaxGen
  PROVE  /\ [j EXCEPT !.at = "opening", !.gen = g] \in JobType
         /\ [j EXCEPT !.at = "opening", !.gen = g].kind = j.kind
         /\ [j EXCEPT !.at = "opening", !.gen = g].at = "opening"
BY DEF JobType

\* A step of a task's goroutine that does not end it moves that task only.
LEMMA Advance ==
  ASSUME TasksIInv, NEW t \in Tasks, Live(t),
         job' \in [Tasks -> [kind : AllKinds \union {"none"},
                             at : {"begun", "ready", "opening", "working", "told", "shown",
                                   "none", "done"},
                             gen : 0 .. MaxGen, res : Outcomes \union {"none"}]],
         \A u \in Tasks \ {t} : job'[u] = job[u],
         job'[t].kind = job[t].kind, job'[t].at \notin {"none", "done"},
         UNCHANGED <<active, flags>>
  PROVE  Exclusive' /\ t = active /\ t \in 1 .. begun
<1>1. t = active /\ active # 0
  BY DEF TasksIInv, Exclusive, Tasks
<1>2. t \in 1 .. begun
  BY <1>1 DEF TasksIInv, TasksTypeOK
<1> QED  BY <1>1, <1>2 DEF TasksIInv, Exclusive, Live

\* The handler shows the beginning; the worker opens the pool, and fills it
\* unless its channel is closed.
LEMMA WorkerIInv ==
  ASSUME TasksIInv, NEW t \in Tasks,
         ShowStart(t) \/ NewGeneration(t) \/ OpenPool(t) \/ LoadItem(t) \/ TellProgress(t)
  PROVE  TasksIInv'
<1>1. /\ TasksTypeOK /\ Live(t) /\ t = active /\ t \in 1 .. begun
      /\ UNCHANGED <<begun, active, flags, channel, closed, summary, off, cut, stopped>>
  <2>1. Live(t) /\ UNCHANGED <<begun, active, flags, channel, closed, summary, off, cut, stopped>>
    BY DEF ShowStart, NewGeneration, OpenPool, LoadItem, TellProgress, Live
  <2> QED  BY <2>1 DEF TasksIInv, Exclusive, TasksTypeOK, Tasks
<1>2. /\ job' \in [Tasks -> [kind : AllKinds \union {"none"},
                             at : {"none", "begun", "ready", "opening", "working", "told",
                                   "shown", "done"},
                             gen : 0 .. MaxGen, res : Outcomes \union {"none"}]]
      /\ \A u \in Tasks \ {t} : job'[u] = job[u]
      /\ job'[t].kind = job[t].kind /\ job'[t].at \notin {"none", "done"}
  <2>1. CASE ShowStart(t)
    BY <1>1, <2>1 DEF ShowStart, TasksTypeOK
  <2>2. CASE NewGeneration(t)
    <3>1. pool.gen + 1 \in 0 .. MaxGen
      BY <1>1, <2>2, TasksAssumption DEF NewGeneration, TasksTypeOK
    <3>2. job[t] \in JobType
      BY <1>1 DEF TasksTypeOK, JobType
    <3>3. job' = [job EXCEPT ![t] = [job[t] EXCEPT !.at = "opening", !.gen = pool.gen + 1]]
      BY <2>2 DEF NewGeneration
    <3>4. [job[t] EXCEPT !.at = "opening", !.gen = pool.gen + 1] \in JobType
      BY <3>1, <3>2, JobOpening
    <3>5. job \in [Tasks -> JobType]
      BY <1>1 DEF TasksTypeOK, JobType
    <3>6. /\ job' \in [Tasks -> JobType]
          /\ \A u \in Tasks \ {t} : job'[u] = job[u]
          /\ job'[t] = [job[t] EXCEPT !.at = "opening", !.gen = pool.gen + 1]
      BY <3>3, <3>4, <3>5
    <3> QED  BY <3>1, <3>2, <3>6, JobOpening DEF JobType
  <2>3. CASE OpenPool(t)
    BY <1>1, <2>3 DEF OpenPool, TasksTypeOK
  <2>4. CASE LoadItem(t) \/ TellProgress(t)
    BY <1>1, <2>4 DEF LoadItem, TellProgress, TasksTypeOK
  <2> QED  BY <2>1, <2>2, <2>3, <2>4
<1>3. /\ pool' \in [gen : 0 .. MaxGen, on : BOOLEAN, by : 0 .. begun]
      /\ pool'.by \in {pool.by, 0} \/ (pool'.by = t /\ t \notin closed)
  <2>1. CASE ShowStart(t) \/ TellProgress(t)
    BY <1>1, <2>1 DEF ShowStart, TellProgress, TasksTypeOK
  <2>2. CASE NewGeneration(t)
    BY <1>1, <2>2, TasksAssumption DEF NewGeneration, TasksTypeOK
  <2>3. CASE OpenPool(t)
    BY <1>1, <2>3 DEF OpenPool, TasksTypeOK
  <2>4. CASE LoadItem(t)
    BY <1>1, <2>4 DEF LoadItem, TasksTypeOK
  <2> QED  BY <2>1, <2>2, <2>3, <2>4
<1>4. shown' \in Outcomes \union {"none", "loading"}
  BY <1>1 DEF ShowStart, NewGeneration, OpenPool, LoadItem, TellProgress, TasksTypeOK
<1>5. TasksTypeOK'
  BY <1>1, <1>2, <1>3, <1>4 DEF TasksTypeOK
<1>6. Exclusive'
  BY <1>1, <1>2, Advance
<1> QED  BY <1>1, <1>3, <1>5, <1>6 DEF TasksIInv, Reachable, ClosedFirst, SwitchedOffStaysOff

\* A task's work ends in one of its outcomes, and the progress shows it.
LEMMA EndIInv ==
  ASSUME TasksIInv, NEW t \in Tasks,
         PrewarmReturns(t) \/ ShowEnd(t) \/ Work(t) \/ ClearAll(t) \/ ShowCleared(t)
  PROVE  TasksIInv'
<1>1. /\ TasksTypeOK /\ Live(t) /\ t = active /\ t \in 1 .. begun
      /\ UNCHANGED <<begun, active, flags, channel, closed, summary, off, cut, stopped>>
  <2>1. Live(t) /\ UNCHANGED <<begun, active, flags, channel, closed, summary, off, cut, stopped>>
    BY DEF PrewarmReturns, ShowEnd, Work, ClearAll, ShowCleared, Live
  <2> QED  BY <2>1 DEF TasksIInv, Exclusive, TasksTypeOK, Tasks
<1>2. job \in [Tasks -> JobType] /\ job[t] \in JobType
  BY <1>1 DEF TasksTypeOK, JobType
<1>3. \/ \E at \in {"told", "shown"}, res \in Outcomes :
            job' = [job EXCEPT ![t] = [job[t] EXCEPT !.at = at, !.res = res]]
      \/ job' = [job EXCEPT ![t].at = "shown"]
  <2>1. CASE PrewarmReturns(t)
    <3>1. PICK res \in BoostOutcomes(t) :
             job' = [job EXCEPT ![t] = [@ EXCEPT !.at = "told", !.res = res]]
      BY <2>1 DEF PrewarmReturns
    <3>2. res \in Outcomes
      BY DEF BoostOutcomes, Outcomes
    <3> QED  BY <3>1, <3>2
  <2>2. CASE ShowEnd(t) \/ ShowCleared(t)
    BY <2>2 DEF ShowEnd, ShowCleared
  <2>3. CASE Work(t)
    <3>1. PICK res \in AuditEnds(t) \union ScanEnds(t) \union SlimEnds(t) \union CategoryEnds(t) :
             job' = [job EXCEPT ![t] = [@ EXCEPT !.at = "shown", !.res = res]]
      BY <2>3 DEF Work
    <3>2. res \in Outcomes
      BY DEF AuditEnds, ScanEnds, SlimEnds, CategoryEnds, Late, Outcomes
    <3> QED  BY <3>1, <3>2
  <2>4. CASE ClearAll(t)
    BY <2>4 DEF ClearAll, Outcomes
  <2> QED  BY <2>1, <2>2, <2>3, <2>4
<1>4. /\ job' \in [Tasks -> JobType]
      /\ \A u \in Tasks \ {t} : job'[u] = job[u]
      /\ job'[t].kind = job[t].kind /\ job'[t].at \notin {"none", "done"}
  <2>1. CASE job' = [job EXCEPT ![t].at = "shown"]
    BY <1>2, <2>1 DEF JobType
  <2>2. ASSUME NEW at \in {"told", "shown"}, NEW res \in Outcomes,
               job' = [job EXCEPT ![t] = [job[t] EXCEPT !.at = at, !.res = res]]
        PROVE  <1>4!1 /\ <1>4!2 /\ <1>4!3
    <3>1. /\ job'[t] = [job[t] EXCEPT !.at = at, !.res = res]
          /\ \A u \in Tasks \ {t} : job'[u] = job[u]
      BY <1>2, <2>2
    <3>2. job'[t] \in JobType /\ job'[t].kind = job[t].kind /\ job'[t].at = at
      BY <1>2, <3>1 DEF JobType
    <3>3. job' = [u \in Tasks |-> job'[u]]
      BY <1>2, <2>2
    <3>4. \A u \in Tasks : job'[u] \in JobType
      BY <1>2, <3>1, <3>2
    <3> QED  BY <3>1, <3>2, <3>3, <3>4
  <2> QED  BY <1>3, <2>1, <2>2
<1>5. /\ pool' \in [gen : 0 .. MaxGen, on : BOOLEAN, by : 0 .. begun]
      /\ pool'.by \in {pool.by, 0}
  <2>1. CASE pool' = pool
    BY <1>1, <2>1 DEF TasksTypeOK
  <2>2. CASE ClearAll(t) /\ pool.gen < MaxGen /\ pool' = PoolOff
    BY <1>1, <2>2, TasksAssumption DEF TasksTypeOK, PoolOff
  <2> QED  BY <2>1, <2>2 DEF PrewarmReturns, ShowEnd, Work, ClearAll, ShowCleared
<1>6. shown' \in Outcomes \union {"none", "loading"}
  BY <1>1, <1>2 DEF PrewarmReturns, ShowEnd, Work, ClearAll, ShowCleared, TasksTypeOK, ShownAtEnd,
                    JobType, Outcomes
<1>7. TasksTypeOK'
  BY <1>1, <1>4, <1>5, <1>6 DEF TasksTypeOK, JobType
<1>8. Exclusive'
  BY <1>1, <1>4, Advance DEF JobType
<1> QED  BY <1>1, <1>5, <1>7, <1>8 DEF TasksIInv, Reachable, ClosedFirst, SwitchedOffStaysOff

\* finishCacheTask: only the active task is there to finish.
LEMMA FinishIInv ==
  ASSUME TasksIInv, NEW t \in Tasks, Finish(t)
  PROVE  TasksIInv'
<1>1. /\ TasksTypeOK /\ Exclusive /\ Live(t) /\ t = active /\ t \in 1 .. begun
      /\ job[t].at = "shown"
      /\ UNCHANGED <<begun, channel, closed, shown, pool, off, cut, stopped>>
  BY DEF TasksIInv, Exclusive, Finish, Live, TasksTypeOK, Tasks
<1>2. /\ active' = 0 /\ flags' = flags \ {job[t].kind}
      /\ summary' = [task |-> t, status |-> FinalStatus(t)]
      /\ job' = [job EXCEPT ![t].at = "done"]
  BY <1>1 DEF Finish
<1>3. /\ job' \in [Tasks -> JobType] /\ job'[t].at = "done"
      /\ \A u \in Tasks \ {t} : job'[u] = job[u]
  <2>1. job \in [Tasks -> JobType] /\ job[t] \in JobType
    BY <1>1 DEF TasksTypeOK, JobType
  <2>2. [job[t] EXCEPT !.at = "done"] \in JobType /\ [job[t] EXCEPT !.at = "done"].at = "done"
    BY <2>1 DEF JobType
  <2> QED  BY <1>2, <2>1, <2>2
<1>4. FinalStatus(t) \in Outcomes \union {"none"}
  BY <1>1 DEF FinalStatus, TasksTypeOK, Outcomes
<1>5. TasksTypeOK'
  <2>1. active' \in 0 .. begun' /\ flags' \subseteq Flagged
    BY <1>1, <1>2 DEF TasksTypeOK
  <2>2. summary' \in [task : 0 .. begun', status : Outcomes \union {"none"}]
    BY <1>1, <1>2, <1>4
  <2> QED  BY <1>1, <1>3, <2>1, <2>2 DEF TasksTypeOK, JobType
<1>6. Exclusive'
  BY <1>1, <1>2, <1>3 DEF Exclusive, Live, Tasks
<1> QED  BY <1>1, <1>2, <1>5, <1>6 DEF TasksIInv, Reachable, ClosedFirst, SwitchedOffStaysOff

\* Switching Boost off: the channel first, then the pool.
LEMMA DisableIInv ==
  ASSUME TasksIInv, NEW d \in Disablers, DisableStep(d)
  PROVE  TasksIInv'
<1>1. /\ TasksTypeOK /\ UNCHANGED <<begun, active, flags, channel, job, summary, stopped>>
  BY DEF TasksIInv, DisableStep, CutBoost, ResetPool, ShowDisabled
<1>2. CASE CutBoost(d)
  <2>1. "boost" \in flags => active # 0 /\ active \in Severed
    BY <1>1, ClosingOne DEF TasksIInv, Exclusive, Reachable, Severed, WithClosed
  <2>2. closed \subseteq Severed /\ Severed \subseteq 1 .. begun
    BY <1>1, ClosingOne DEF Severed, TasksTypeOK
  <2>3. /\ off' = [off EXCEPT ![d] = [at |-> "cut",
                                      boost |-> IF "boost" \in flags THEN active ELSE 0]]
        /\ closed' = Severed /\ UNCHANGED <<pool, cut, shown>>
    BY <1>2 DEF CutBoost
  <2>4. /\ off' \in [Disablers -> [at : {"idle", "cut", "reset", "done"}, boost : 0 .. begun]]
        /\ off'[d].boost \in closed' \union {0}
        /\ \A e \in Disablers \ {d} : off'[e] = off[e]
    BY <1>1, <2>1, <2>3 DEF TasksTypeOK
  <2>5. TasksTypeOK'
    BY <1>1, <2>2, <2>3, <2>4 DEF TasksTypeOK
  <2> QED  BY <1>1, <2>2, <2>3, <2>4, <2>5
           DEF TasksIInv, Exclusive, Live, Reachable, ClosedFirst, SwitchedOffStaysOff
<1>3. CASE ResetPool(d)
  <2>1. /\ off[d].at = "cut" /\ off[d].boost \in closed \union {0}
        /\ off' = [off EXCEPT ![d].at = "reset"] /\ cut' = cut \union ({off[d].boost} \ {0})
        /\ pool.gen < MaxGen /\ pool' = PoolOff /\ UNCHANGED <<closed, shown>>
    BY <1>3 DEF ResetPool, TasksIInv, ClosedFirst
  <2>2. /\ off' \in [Disablers -> [at : {"idle", "cut", "reset", "done"}, boost : 0 .. begun]]
        /\ off'[d].at = "reset" /\ \A e \in Disablers \ {d} : off'[e] = off[e]
    BY <1>1, <2>1 DEF TasksTypeOK
  <2>3. pool' \in [gen : 0 .. MaxGen, on : BOOLEAN, by : 0 .. begun] /\ pool'.by = 0
    BY <1>1, <2>1, TasksAssumption DEF TasksTypeOK, PoolOff
  <2>4. cut' \subseteq closed /\ 0 \notin cut' /\ closed \subseteq 1 .. begun
    BY <1>1, <2>1 DEF TasksIInv, ClosedFirst, TasksTypeOK
  <2>5. TasksTypeOK'
    BY <1>1, <2>1, <2>2, <2>3, <2>4 DEF TasksTypeOK
  <2> QED  BY <1>1, <2>1, <2>2, <2>3, <2>4, <2>5
           DEF TasksIInv, Exclusive, Live, Reachable, ClosedFirst, SwitchedOffStaysOff
<1>4. CASE ShowDisabled(d)
  <2>1. /\ off' \in [Disablers -> [at : {"idle", "cut", "reset", "done"}, boost : 0 .. begun]]
        /\ off'[d].at = "done" /\ \A e \in Disablers \ {d} : off'[e] = off[e]
        /\ shown' = "disabled" /\ UNCHANGED <<closed, pool, cut>>
    BY <1>1, <1>4 DEF ShowDisabled, TasksTypeOK
  <2>2. TasksTypeOK'
    BY <1>1, <2>1 DEF TasksTypeOK, Outcomes
  <2> QED  BY <1>1, <2>1, <2>2
           DEF TasksIInv, Exclusive, Live, Reachable, ClosedFirst, SwitchedOffStaysOff
<1> QED  BY <1>2, <1>3, <1>4 DEF DisableStep

\* Somebody else closes the pool, cancels, or stops the server.
LEMMA OutsideIInv ==
  ASSUME TasksIInv, PoolOffElsewhere \/ StopServer \/ \E t \in 0 .. begun : CancelTask(t)
  PROVE  TasksIInv'
<1>1. TasksTypeOK /\ UNCHANGED <<begun, active, flags, job, summary, shown, off, cut>>
  BY DEF TasksIInv, PoolOffElsewhere, StopServer, CancelTask
<1>2. CASE PoolOffElsewhere
  <2>1. /\ pool' \in [gen : 0 .. MaxGen, on : BOOLEAN, by : 0 .. begun] /\ pool'.by = 0
        /\ UNCHANGED <<channel, closed, stopped>>
    BY <1>1, <1>2, TasksAssumption DEF PoolOffElsewhere, TasksTypeOK, PoolOff
  <2>2. TasksTypeOK'
    BY <1>1, <2>1 DEF TasksTypeOK
  <2> QED  BY <1>1, <2>1, <2>2
           DEF TasksIInv, Exclusive, Live, Reachable, ClosedFirst, SwitchedOffStaysOff
<1>3. CASE StopServer
  <2>1. closed' = WithClosed /\ channel' = 0 /\ stopped' = TRUE /\ UNCHANGED pool
    BY <1>3 DEF StopServer
  <2>2. TasksTypeOK'
    BY <1>1, <2>1, ClosingOne DEF TasksTypeOK
  <2> QED  BY <1>1, <2>1, <2>2, ClosingOne
           DEF TasksIInv, Exclusive, Live, Reachable, ClosedFirst, SwitchedOffStaysOff
<1>4. ASSUME NEW t \in 0 .. begun, CancelTask(t) PROVE TasksIInv'
  <2>1. closed' = WithClosed /\ UNCHANGED <<channel, pool, stopped>>
    BY <1>4 DEF CancelTask
  <2>2. TasksTypeOK'
    BY <1>1, <2>1, ClosingOne DEF TasksTypeOK
  <2> QED  BY <1>1, <2>1, <2>2, ClosingOne
           DEF TasksIInv, Exclusive, Live, Reachable, ClosedFirst, SwitchedOffStaysOff
<1> QED  BY <1>2, <1>3, <1>4

LEMMA TasksNextIInv == TasksIInv /\ [TasksNext]_taskVars => TasksIInv'
<1> SUFFICES ASSUME TasksIInv, [TasksNext]_taskVars PROVE TasksIInv'
  OBVIOUS
<1>1. ASSUME NEW kind \in TaskKinds, TryBegin(kind) PROVE TasksIInv'
  BY <1>1, TasksBeginIInv
<1>2. ASSUME NEW t \in Tasks, TaskStep(t) PROVE TasksIInv'
  BY <1>2, WorkerIInv, EndIInv, FinishIInv DEF TaskStep
<1>3. ASSUME NEW d \in Disablers, DisableStep(d) PROVE TasksIInv'
  BY <1>3, DisableIInv
<1>4. CASE PoolOffElsewhere \/ StopServer \/ \E t \in 0 .. begun : CancelTask(t)
  BY <1>4, OutsideIInv
<1>5. CASE UNCHANGED taskVars
  BY <1>5 DEF taskVars, TasksIInv, TasksTypeOK, Exclusive, Live, Reachable, ClosedFirst,
              SwitchedOffStaysOff
<1> QED  BY <1>1, <1>2, <1>3, <1>4, <1>5 DEF TasksNext

\* The invariant holds in every reachable state.
THEOREM TasksIInvAlways == TasksSpec => []TasksIInv
<1>1. TasksInit => TasksIInv
  BY TasksInitIInv
<1>2. TasksIInv /\ [TasksNext]_taskVars => TasksIInv'
  BY TasksNextIInv
<1> QED  BY <1>1, <1>2, PTL DEF TasksSpec

\* Between tryBeginCacheTask and finishCacheTask no other cache task begins, for
\* any number of tasks, cancellations and stops, and the flags tell its kind.
THEOREM OneTaskAlways == TasksSpec => []OneTask
<1>1. TasksIInv => OneTask
  <2> SUFFICES ASSUME TasksIInv PROVE OneTask
    OBVIOUS
  <2>1. Running = {active} \ {0}
    <3>1. active = 0 \/ active \in Tasks
      BY TasksAssumption DEF TasksIInv, TasksTypeOK, Tasks
    <3> QED  BY <3>1 DEF TasksIInv, Exclusive, Live, Running, Tasks
  <2>2. Cardinality(Running) <= 1
    <3>1. CASE active = 0
      <4>1. Running = {}
        BY <2>1, <3>1
      <4> QED  BY <4>1, FS_EmptySet
    <3>2. CASE active # 0
      <4>1. Running = {active}
        BY <2>1, <3>2
      <4>2. Cardinality({active}) = 1
        BY FS_Singleton
      <4> QED  BY <4>1, <4>2
    <3> QED  BY <3>1, <3>2
  <2>3. flags = {job[t].kind : t \in Running} \intersect Flagged
    BY <2>1 DEF TasksIInv, Exclusive
  <2> QED  BY <2>1, <2>2, <2>3 DEF OneTask
<1> QED  BY <1>1, TasksIInvAlways, PTL

\* A boost that handleCacheBoostDisable cut off puts nothing into the pool after
\* the pool was closed, however many disable requests and boosts there are.
THEOREM SwitchedOffAlwaysOff == TasksSpec => []SwitchedOffStaysOff
<1>1. TasksIInv => SwitchedOffStaysOff
  BY DEF TasksIInv
<1> QED  BY <1>1, TasksIInvAlways, PTL

-----------------------------------------------------------------------------
(***************************************************************************)
(* The migration of the cache directory.                                   *)
(***************************************************************************)
\* Before the target is set aside, its files are where they were.
Untouched ==
    At({"check", "copy", "review", "lock", "aside", "switch"}) =>
        before \subseteq In(target) /\ aside = Missing

\* From then on they are in the target, to be put back, or aside.
Somewhere ==
    At({"freeze", "restore", "place"}) => before \subseteq In(target) \union In(aside)

\* While a new directory has the target's name, all of them are aside.
AllAside == At({"commit", "undo"}) => before \subseteq In(aside)

\* What stays aside while something takes its place are assets, and nothing else.
OnlyAssetsAside == At({"place", "commit", "undo", "base", "clean"}) => In(aside) \subseteq Cached

\* The configuration names the target from its commit on, and the manager uses it
\* later; then nothing that is no asset is missing from the target.
Committed ==
    /\ At({"base", "clean"}) => saved = "target"
    /\ saved = "target" => At({"none", "base", "clean"})
    /\ used = "target" => saved = "target"
    /\ saved = "target" => before \ Cached \subseteq In(target)

\* Nothing is staged or aside between the migrations.
AtRest ==
    /\ At({"none", "check", "copy", "switch", "commit", "undo", "base", "clean"}) => stage = Missing
    /\ At({"none"}) => aside = Missing
    /\ At({"none"}) /\ saved = "source" => before \subseteq In(target) \union leftover
    /\ At({"none"}) /\ mig.result = "failed" => before \subseteq In(target)
    /\ mig.result = "failed" => At({"none"})

MigrationIInv == /\ MigrationTypeOK /\ Untouched /\ Somewhere /\ AllAside
                 /\ OnlyAssetsAside /\ Committed /\ AtRest
-----------------------------------------------------------------------------
LEMMA InFiles ==
  ASSUME NEW dir \in Dirs
  PROVE  /\ In(dir) \subseteq Files
         /\ dir # Missing => In(dir) = dir
BY DEF Dirs, In

LEMMA InOfSet ==
  ASSUME NEW S \in SUBSET Files
  PROVE  In(S) = S /\ S \in Dirs
BY MissingAssumption DEF In, Dirs, Files

\* What may be replaced holds assets only (validateCacheOverwriteTarget).
LEMMA ReplaceableIsAssets ==
  ASSUME NEW dir, Replaceable(dir)
  PROVE  In(dir) \subseteq Cached
BY DEF Replaceable, OverwriteTarget, EmptyTarget, VerifiedContent

LEMMA MigrationInitIInv == MigrationInit => MigrationIInv
<1> SUFFICES ASSUME MigrationInit PROVE MigrationIInv
  OBVIOUS
<1>1. /\ source \in Dirs /\ target \in Dirs /\ stage \in Dirs /\ aside \in Dirs
      /\ before \subseteq Files
  BY DEF MigrationInit, Dirs, Files, In
<1>2. MigrationTypeOK
  BY <1>1 DEF MigrationInit, MigrationTypeOK, NoMigration, Modes
<1> QED
  BY <1>1, <1>2 DEF MigrationInit, MigrationIInv, Untouched, Somewhere, AllAside, OnlyAssetsAside,
                    Committed, AtRest, At, NoMigration, In

-----------------------------------------------------------------------------
(***************************************************************************)
(* The steps of a migration.                                               *)
(***************************************************************************)

\* Where the migration stands and what it reports, after each kind of step.
LEMMA StagesKeepType ==
  ASSUME MigrationTypeOK
  PROVE  /\ \A at \in {"check", "copy", "review", "lock", "aside", "freeze", "restore",
                       "place", "commit", "undo", "base", "clean", "switch"} :
               Goto(at) => /\ mig' = [at |-> at, mode |-> mig.mode, result |-> mig.result]
                           /\ mig'.at = at /\ mig'.mode = mig.mode /\ mig'.result = mig.result
         /\ \A r \in {"completed", "failed", "rollback_failed"} :
               Ends(r) => /\ mig' = [at |-> "none", mode |-> mig.mode, result |-> r]
                          /\ mig'.at = "none" /\ mig'.result = r
BY DEF MigrationTypeOK, Goto, Ends

LEMMA MigrationBeginIInv ==
  ASSUME MigrationIInv, NEW mode \in Modes, Begin(mode)
  PROVE  MigrationIInv'
<1>1. /\ MigrationTypeOK /\ AtRest
      /\ mig.at = "none" /\ saved = "source" /\ aside = Missing /\ stage = Missing
      /\ UNCHANGED <<Dirless, saved, used>> /\ before' = In(target)
      /\ mig' = [at |-> IF mode = "switch_only" THEN "switch" ELSE "check", mode |-> mode,
                 result |-> "none"]
  BY DEF MigrationIInv, AtRest, Begin, At
<1>2. MigrationTypeOK'
  BY <1>1, InFiles DEF MigrationTypeOK, Dirless
<1>3. used # "target"
  BY <1>1 DEF MigrationIInv, Committed
<1> QED
  BY <1>1, <1>2, <1>3, InFiles DEF MigrationIInv, Untouched, Somewhere, AllAside, OnlyAssetsAside,
                             Committed, AtRest, At, Dirless, In, MigrationTypeOK

\* The steps before anything of the target is touched.
LEMMA PrepareIInv ==
  ASSUME MigrationIInv, CheckSource \/ Copy \/ Review \/ Lock
  PROVE  MigrationIInv'
<1>1. /\ MigrationTypeOK /\ Untouched /\ AtRest /\ Committed
      /\ UNCHANGED <<source, target, aside, leftover, saved, used, before>>
  BY DEF MigrationIInv, CheckSource, Copy, Review, Lock, Dirless
<1>2. /\ mig.at \in {"check", "copy", "review", "lock"}
      /\ before \subseteq In(target) /\ aside = Missing
      /\ saved = "source" /\ used = "source"
  BY <1>1 DEF CheckSource, Copy, Review, Lock, At, Untouched, Committed, MigrationTypeOK
<1>3. In(source) \ Residue \in Dirs /\ Missing \in Dirs
  BY <1>1, InFiles DEF MigrationTypeOK, Dirs
<1>4. stage' \in Dirs
  BY <1>1, <1>3 DEF CheckSource, Copy, Review, Lock, GivesUp, Dirless, MigrationTypeOK
<1>5. \/ /\ mig'.at \in {"copy", "review", "lock", "aside"} /\ mig'.result = mig.result
         /\ mig'.at \in {"copy"} => stage' = Missing
         /\ mig' = [at |-> mig'.at, mode |-> mig.mode, result |-> mig.result]
      \/ /\ mig' = [at |-> "none", mode |-> mig.mode, result |-> "failed"]
         /\ stage' = Missing
      \/ /\ mig' = [at |-> "place", mode |-> mig.mode, result |-> mig.result]
         /\ target = Missing
  <2>1. CASE CheckSource
    BY <2>1, <1>1, <1>2, StagesKeepType DEF CheckSource, Dirless, AtRest, At
  <2>2. CASE Copy
    BY <2>2, <1>1, <1>2, StagesKeepType DEF Copy, AtRest, At
  <2>3. CASE Review
    BY <2>3, <1>1, <1>2, StagesKeepType DEF Review, GivesUp
  <2>4. CASE Lock
    BY <2>4, <1>1, <1>2, StagesKeepType DEF Lock, GivesUp
  <2> QED  BY <2>1, <2>2, <2>3, <2>4
<1>6. MigrationTypeOK'
  <2>1. mig.mode \in Modes /\ mig.result \in {"none", "completed", "failed", "rollback_failed"}
    BY <1>1 DEF MigrationTypeOK
  <2> QED  BY <1>1, <1>4, <1>5, <2>1 DEF MigrationTypeOK
<1>7. mig.result # "failed"
  BY <1>1, <1>2 DEF AtRest, At
<1> QED
  BY <1>1, <1>2, <1>5, <1>6, <1>7
     DEF MigrationIInv, Untouched, Somewhere, AllAside, OnlyAssetsAside, Committed, AtRest,
         At, In

\* The target is set aside, looked at once more, and the copy takes its name.
LEMMA ReplaceIInv ==
  ASSUME MigrationIInv, SetAside \/ Freeze \/ Place
  PROVE  MigrationIInv'
<1>1. /\ MigrationTypeOK /\ Untouched /\ Somewhere /\ OnlyAssetsAside /\ AtRest /\ Committed
      /\ UNCHANGED <<source, leftover, saved, used, before>>
  BY DEF MigrationIInv, SetAside, Freeze, Place, Dirless
<1>2. /\ mig.at \in {"aside", "freeze", "place"} /\ mig.result # "failed"
      /\ saved = "source" /\ used = "source"
  BY <1>1 DEF SetAside, Freeze, Place, At, Committed, AtRest, MigrationTypeOK
<1>3. mig.mode \in Modes /\ mig.result \in {"none", "completed", "failed", "rollback_failed"}
  BY <1>1 DEF MigrationTypeOK
<1>4. CASE SetAside
  <2>1. /\ before \subseteq In(target) /\ aside = Missing
    BY <1>1, <1>4 DEF SetAside, Untouched, At
  <2>2. CASE UNCHANGED <<target, aside>> /\ GivesUp("failed")
    <3>1. stage' = Missing /\ mig' = [at |-> "none", mode |-> mig.mode, result |-> "failed"]
      BY <2>2, <1>1, StagesKeepType DEF GivesUp
    <3> QED  BY <1>1, <1>2, <1>3, <2>1, <2>2, <3>1
             DEF MigrationIInv, MigrationTypeOK, Untouched, Somewhere, AllAside, OnlyAssetsAside,
                 Committed, AtRest, At, Dirs, In
  <2>3. CASE /\ target # Missing /\ aside' = target /\ target' = Missing /\ Goto("freeze")
             /\ UNCHANGED stage
    <3>1. mig' = [at |-> "freeze", mode |-> mig.mode, result |-> mig.result]
      BY <2>3, <1>1, StagesKeepType
    <3> QED  BY <1>1, <1>2, <1>3, <2>1, <2>3, <3>1
             DEF MigrationIInv, MigrationTypeOK, Untouched, Somewhere, AllAside, OnlyAssetsAside,
                 Committed, AtRest, At, Dirs, In
  <2> QED  BY <1>4, <2>2, <2>3 DEF SetAside
<1>5. CASE Freeze
  <2>1. /\ before \subseteq In(target) \union In(aside)
        /\ UNCHANGED <<target, stage, aside>>
    BY <1>1, <1>5 DEF Freeze, Somewhere, At, Dirless
  <2>2. CASE Frozen(aside) /\ Goto("place")
    <3>1. mig' = [at |-> "place", mode |-> mig.mode, result |-> mig.result]
      BY <2>2, <1>1, StagesKeepType
    <3>2. In(aside) \subseteq Cached
      BY <2>2, ReplaceableIsAssets DEF Frozen
    <3> QED  BY <1>1, <1>2, <1>3, <2>1, <3>1, <3>2
             DEF MigrationIInv, MigrationTypeOK, Untouched, Somewhere, AllAside, OnlyAssetsAside,
                 Committed, AtRest, At, In
  <2>3. CASE Goto("restore")
    <3>1. mig' = [at |-> "restore", mode |-> mig.mode, result |-> mig.result]
      BY <2>3, <1>1, StagesKeepType
    <3> QED  BY <1>1, <1>2, <1>3, <2>1, <3>1
             DEF MigrationIInv, MigrationTypeOK, Untouched, Somewhere, AllAside, OnlyAssetsAside,
                 Committed, AtRest, At, In
  <2> QED  BY <1>5, <2>2, <2>3 DEF Freeze
<1>6. CASE Place
  <2>1. /\ before \subseteq In(target) \union In(aside) /\ In(aside) \subseteq Cached
        /\ UNCHANGED aside
    BY <1>1, <1>6 DEF Place, Somewhere, OnlyAssetsAside, At
  <2>2. CASE Free(target) /\ target' = stage /\ stage' = Missing /\ Goto("commit")
    <3>1. mig' = [at |-> "commit", mode |-> mig.mode, result |-> mig.result]
      BY <2>2, <1>1, StagesKeepType
    <3>2. before \subseteq In(aside)
      BY <2>1, <2>2 DEF Free
    <3> QED  BY <1>1, <1>2, <1>3, <2>1, <2>2, <3>1, <3>2
             DEF MigrationIInv, MigrationTypeOK, Untouched, Somewhere, AllAside, OnlyAssetsAside,
                 Committed, AtRest, At, Dirs, In
  <2>3. CASE UNCHANGED <<target, stage>> /\ Goto("restore")
    <3>1. mig' = [at |-> "restore", mode |-> mig.mode, result |-> mig.result]
      BY <2>3, <1>1, StagesKeepType
    <3> QED  BY <1>1, <1>2, <1>3, <2>1, <2>3, <3>1
             DEF MigrationIInv, MigrationTypeOK, Untouched, Somewhere, AllAside, OnlyAssetsAside,
                 Committed, AtRest, At, In
  <2> QED  BY <1>6, <2>2, <2>3 DEF Place
<1> QED  BY <1>4, <1>5, <1>6

\* What went wrong is taken back; a target that cannot be put back stays aside.
LEMMA RestoreIInv ==
  ASSUME MigrationIInv, Restore
  PROVE  MigrationIInv'
<1>1. /\ MigrationTypeOK /\ Somewhere /\ AtRest /\ Committed
      /\ UNCHANGED <<source, saved, used, before>>
  BY DEF MigrationIInv, Restore
<1>2. /\ mig.at = "restore" /\ before \subseteq In(target) \union In(aside)
      /\ saved = "source" /\ used = "source"
  BY <1>1 DEF Restore, At, Committed, Somewhere, MigrationTypeOK
<1>3. mig.mode \in Modes
  BY <1>1 DEF MigrationTypeOK
<1>4. \A r \in {"failed", "rollback_failed"} : GivesUp(r) =>
        stage' = Missing /\ mig' = [at |-> "none", mode |-> mig.mode, result |-> r]
  BY <1>1, StagesKeepType DEF GivesUp
<1>5. CASE /\ Free(target) /\ aside # Missing /\ target' = PutBackDir /\ aside' = Missing
           /\ GivesUp("failed") /\ UNCHANGED leftover
  <2>1. before \subseteq In(target')
    BY <1>2, <1>5 DEF Free, PutBackDir
  <2> QED  BY <1>1, <1>2, <1>3, <1>4, <1>5, <2>1
           DEF MigrationIInv, MigrationTypeOK, Untouched, Somewhere, AllAside, OnlyAssetsAside,
               Committed, AtRest, At, Dirs, In, PutBackDir
<1>6. CASE aside = Missing /\ GivesUp("failed") /\ UNCHANGED <<target, aside, leftover>>
  <2>1. before \subseteq In(target)
    BY <1>2, <1>6 DEF In
  <2> QED  BY <1>1, <1>2, <1>3, <1>4, <1>6, <2>1
           DEF MigrationIInv, MigrationTypeOK, Untouched, Somewhere, AllAside, OnlyAssetsAside,
               Committed, AtRest, At, Dirs, In
<1>7. CASE /\ aside # Missing /\ leftover' = leftover \union aside /\ aside' = Missing
           /\ GivesUp("rollback_failed") /\ UNCHANGED target
  <2>1. In(aside) = aside /\ aside \subseteq Files
    BY <1>1, <1>7, InFiles DEF MigrationTypeOK
  <2>2. before \subseteq In(target) \union leftover'
    BY <1>2, <1>7, <2>1
  <2> QED  BY <1>1, <1>2, <1>3, <1>4, <1>7, <2>1, <2>2
           DEF MigrationIInv, MigrationTypeOK, Untouched, Somewhere, AllAside, OnlyAssetsAside,
               Committed, AtRest, At, Dirs, In
<1> QED  BY <1>5, <1>6, <1>7 DEF Restore

\* The configuration names the target, or the new directory goes again.
LEMMA CommitIInv ==
  ASSUME MigrationIInv, CommitTarget \/ Undo
  PROVE  MigrationIInv'
<1>1. /\ MigrationTypeOK /\ AllAside /\ OnlyAssetsAside /\ AtRest /\ Committed
      /\ UNCHANGED <<source, stage, aside, leftover, used, before>>
  BY DEF MigrationIInv, CommitTarget, Undo, Dirless
<1>2. /\ mig.at \in {"commit", "undo"} /\ mig.result # "failed"
      /\ saved = "source" /\ used = "source" /\ stage = Missing
      /\ before \subseteq In(aside) /\ In(aside) \subseteq Cached
  BY <1>1 DEF CommitTarget, Undo, At, Committed, AtRest, AllAside, OnlyAssetsAside, MigrationTypeOK
<1>3. mig.mode \in Modes /\ mig.result \in {"none", "completed", "failed", "rollback_failed"}
  BY <1>1 DEF MigrationTypeOK
<1>4. \A at \in {"base", "undo", "restore"} : Goto(at) =>
        mig' = [at |-> at, mode |-> mig.mode, result |-> mig.result]
  BY <1>1, StagesKeepType
<1>5. CASE CommitTarget
  BY <1>1, <1>2, <1>3, <1>4, <1>5
     DEF CommitTarget, Dirless, MigrationIInv, MigrationTypeOK, Untouched, Somewhere, AllAside,
         OnlyAssetsAside, Committed, AtRest, At, In
<1>6. CASE Undo
  <2>1. target' \in Dirs
    <3>1. In(target) \subseteq Files
      BY <1>1, InFiles DEF MigrationTypeOK
    <3> QED  BY <1>6, <3>1 DEF Undo, Dirs
  <2> QED
    BY <1>1, <1>2, <1>3, <1>4, <1>6, <2>1
       DEF Undo, MigrationIInv, MigrationTypeOK, Untouched, Somewhere, AllAside,
           OnlyAssetsAside, Committed, AtRest, At, In
<1> QED  BY <1>5, <1>6

\* The manager uses the target, and what is aside is removed, perhaps in part.
LEMMA CompleteIInv ==
  ASSUME MigrationIInv, SetBase \/ Clean
  PROVE  MigrationIInv'
<1>1. /\ MigrationTypeOK /\ OnlyAssetsAside /\ AtRest /\ Committed
      /\ UNCHANGED <<source, target, stage, saved, before>>
  BY DEF MigrationIInv, SetBase, Clean, Dirless
<1>2. /\ mig.at \in {"base", "clean"} /\ mig.result # "failed"
      /\ saved = "target" /\ stage = Missing /\ In(aside) \subseteq Cached
      /\ before \ Cached \subseteq In(target)
  BY <1>1 DEF SetBase, Clean, At, Committed, AtRest, OnlyAssetsAside
<1>3. mig.mode \in Modes /\ mig.result \in {"none", "completed", "failed", "rollback_failed"}
  BY <1>1 DEF MigrationTypeOK
<1>4. CASE SetBase
  <2>1. mig' = [at |-> "clean", mode |-> mig.mode, result |-> mig.result]
    BY <1>1, <1>4, StagesKeepType DEF SetBase
  <2> QED
    BY <1>1, <1>2, <1>3, <1>4, <2>1
       DEF SetBase, Dirless, MigrationIInv, MigrationTypeOK, Untouched, Somewhere, AllAside,
           OnlyAssetsAside, Committed, AtRest, At, In
<1>5. CASE Clean
  <2>1. mig' = [at |-> "none", mode |-> mig.mode, result |-> "completed"]
    BY <1>1, <1>5, StagesKeepType DEF Clean
  <2>2. leftover' \subseteq Files /\ UNCHANGED used /\ aside' = Missing
    <3>1. aside # Missing => aside \subseteq Files
      BY <1>1, InFiles DEF MigrationTypeOK
    <3> QED  BY <1>1, <1>5, <3>1 DEF Clean, MigrationTypeOK
  <2> QED
    BY <1>1, <1>2, <1>3, <2>1, <2>2
       DEF MigrationIInv, MigrationTypeOK, Untouched, Somewhere, AllAside,
           OnlyAssetsAside, Committed, AtRest, At, Dirs, In
<1> QED  BY <1>4, <1>5

LEMMA SwitchIInv ==
  ASSUME MigrationIInv, SwitchOnly
  PROVE  MigrationIInv'
<1>1. /\ MigrationTypeOK /\ Untouched /\ AtRest /\ Committed
      /\ UNCHANGED <<source, stage, aside, leftover, before>>
  BY DEF MigrationIInv, SwitchOnly
<1>2. /\ mig.at = "switch" /\ saved = "source" /\ used = "source"
      /\ before \subseteq In(target) /\ aside = Missing /\ stage = Missing
  BY <1>1 DEF SwitchOnly, At, Untouched, Committed, AtRest, MigrationTypeOK
<1>3. mig.mode \in Modes
  BY <1>1 DEF MigrationTypeOK
<1>4. \A r \in {"completed", "failed"} : Ends(r) =>
        mig' = [at |-> "none", mode |-> mig.mode, result |-> r]
  BY <1>1, StagesKeepType
<1>5. In(target) \subseteq Files /\ In(In(target)) = In(target) /\ In(target) \in Dirs
  BY <1>1, InFiles, InOfSet DEF MigrationTypeOK
<1>6. CASE target' = In(target) /\ saved' = "target" /\ used' = "target" /\ Ends("completed")
  BY <1>1, <1>2, <1>3, <1>4, <1>5, <1>6
     DEF MigrationIInv, MigrationTypeOK, Untouched, Somewhere, AllAside, OnlyAssetsAside, Committed,
         AtRest, At, In
<1>7. CASE UNCHANGED <<target, saved, used>> /\ Ends("failed")
  BY <1>1, <1>2, <1>3, <1>4, <1>7
     DEF MigrationIInv, MigrationTypeOK, Untouched, Somewhere, AllAside, OnlyAssetsAside, Committed,
         AtRest, At, In
<1> QED  BY <1>6, <1>7 DEF SwitchOnly

-----------------------------------------------------------------------------
(***************************************************************************)
(* What goes on beside a migration.                                        *)
(***************************************************************************)

LEMMA DownloadIInv ==
  ASSUME MigrationIInv, NEW f \in Files, Download(f)
  PROVE  MigrationIInv'
<1>1. /\ MigrationTypeOK /\ UNCHANGED <<stage, aside, leftover, saved, used, mig, before>>
  BY DEF MigrationIInv, Download
<1>2. /\ In(source) \union {f} \in Dirs /\ In(In(source) \union {f}) = In(source) \union {f}
      /\ In(target) \union {f} \in Dirs /\ In(In(target) \union {f}) = In(target) \union {f}
  <2>1. In(source) \subseteq Files /\ In(target) \subseteq Files
    BY <1>1, InFiles DEF MigrationTypeOK
  <2> QED  BY <2>1, InOfSet
<1>3. /\ source' \in Dirs /\ target' \in Dirs /\ In(target) \subseteq In(target')
  BY <1>1, <1>2 DEF Download, MigrationTypeOK
<1>4. MigrationTypeOK'
  BY <1>1, <1>3 DEF MigrationTypeOK
<1>5. In(target) \subseteq In(target)' /\ In(aside)' = In(aside)
  BY <1>1, <1>3 DEF In
<1> QED
  BY <1>1, <1>4, <1>5
     DEF MigrationIInv, Untouched, Somewhere, AllAside, OnlyAssetsAside, Committed, AtRest,
         At

LEMMA PutOwnIInv ==
  ASSUME MigrationIInv, NEW f \in Files, PutOwn(f)
  PROVE  MigrationIInv'
<1>1. /\ MigrationTypeOK /\ saved = "source" /\ target' = In(target) \union {f}
      /\ before' = (IF At({"commit", "undo"}) THEN before ELSE before \union {f})
      /\ UNCHANGED <<source, stage, aside, leftover, saved, used, mig>>
  BY DEF MigrationIInv, PutOwn
<1>2. /\ target' \in Dirs /\ In(target)' = In(target) \union {f}
  <2>1. In(target) \subseteq Files
    BY <1>1, InFiles DEF MigrationTypeOK
  <2>2. In(In(target) \union {f}) = In(target) \union {f} /\ In(target) \union {f} \in Dirs
    BY <2>1, InOfSet
  <2> QED  BY <1>1, <2>2 DEF In
<1>3. MigrationTypeOK' /\ In(aside)' = In(aside)
  BY <1>1, <1>2 DEF MigrationTypeOK, In
<1>4. ~At({"base", "clean"})
  BY <1>1 DEF MigrationIInv, Committed
<1> QED
  BY <1>1, <1>2, <1>3, <1>4
     DEF MigrationIInv, Untouched, Somewhere, AllAside, OnlyAssetsAside, Committed, AtRest,
         At

\* What was aside stays there for good; nobody looks for it after a restart.
LEMMA DieIInv ==
  ASSUME MigrationIInv, DieAndRestart
  PROVE  MigrationIInv'
<1>1. /\ MigrationTypeOK /\ Untouched /\ Somewhere /\ AllAside /\ Committed
      /\ mig.at # "none" /\ mig' = NoMigration /\ used' = saved
      /\ stage' = Missing /\ aside' = Missing /\ leftover' = leftover \union In(aside)
      /\ UNCHANGED <<source, target, saved, before>>
  BY DEF MigrationIInv, DieAndRestart, At
<1>2. In(aside) \subseteq Files
  BY <1>1, InFiles DEF MigrationTypeOK
<1>3. MigrationTypeOK'
  BY <1>1, <1>2 DEF MigrationTypeOK, NoMigration, Modes, Dirs
<1>4. saved = "source" => before \subseteq In(target) \union In(aside)
  BY <1>1 DEF MigrationTypeOK, Untouched, Somewhere, AllAside, Committed, At
<1> QED
  BY <1>1, <1>3, <1>4 DEF MigrationIInv, Untouched, Somewhere, AllAside, OnlyAssetsAside, Committed,
                          AtRest, At, NoMigration, In

LEMMA MigrationNextIInv == MigrationIInv /\ [MigrationNext]_migrationVars => MigrationIInv'
<1> SUFFICES ASSUME MigrationIInv, [MigrationNext]_migrationVars PROVE MigrationIInv'
  OBVIOUS
<1>1. ASSUME NEW mode \in Modes, Begin(mode) PROVE MigrationIInv'
  BY <1>1, MigrationBeginIInv
<1>2. CASE Progress
  BY <1>2, PrepareIInv, ReplaceIInv, RestoreIInv, CommitIInv, CompleteIInv, SwitchIInv
     DEF Progress
<1>3. ASSUME NEW f \in Cached \union Residue, Download(f) PROVE MigrationIInv'
  BY <1>3, DownloadIInv DEF Files
<1>4. ASSUME NEW f \in Own \union Named, PutOwn(f) PROVE MigrationIInv'
  BY <1>4, PutOwnIInv DEF Files
<1>5. CASE DieAndRestart
  BY <1>5, DieIInv
<1>6. CASE UNCHANGED migrationVars
  BY <1>6 DEF migrationVars, MigrationIInv, MigrationTypeOK, Untouched, Somewhere, AllAside,
              OnlyAssetsAside, Committed, AtRest, At, In
<1> QED  BY <1>1, <1>2, <1>3, <1>4, <1>5, <1>6 DEF MigrationNext

LEMMA IInvKeeps == MigrationIInv => NothingLost
<1> SUFFICES ASSUME MigrationIInv PROVE NothingLost
  OBVIOUS
<1>1. saved = "source" => before \subseteq In(target) \union In(aside) \union leftover
  BY DEF MigrationIInv, MigrationTypeOK, Untouched, Somewhere, AllAside, Committed, AtRest, At
<1>2. saved = "target" => before \ Cached \subseteq In(target)
  BY DEF MigrationIInv, Committed
<1>3. FailureRestores
  BY DEF MigrationIInv, AtRest, FailureRestores, At
<1> QED  BY <1>1, <1>2, <1>3 DEF NothingLost, MigrationIInv, MigrationTypeOK

\* The invariant holds in every reachable state of the migration.
THEOREM MigrationIInvAlways == MigrationSpec => []MigrationIInv
<1>1. MigrationInit => MigrationIInv
  BY MigrationInitIInv
<1>2. MigrationIInv /\ [MigrationNext]_migrationVars => MigrationIInv'
  BY MigrationNextIInv
<1> QED  BY <1>1, <1>2, PTL DEF MigrationSpec

\* Directories, stages and results keep their types.
THEOREM MigrationTyped == MigrationSpec => []MigrationTypeOK
<1>1. MigrationIInv => MigrationTypeOK
  BY DEF MigrationIInv
<1> QED  BY <1>1, MigrationIInvAlways, PTL

\* However many files there are, whatever fails and whenever the program dies
\* (handleCacheMigrateStandard): nothing that was in the target is lost before the
\* configuration names it, what is no asset never is, and a migration that reports
\* a plain failure has put the target back.
THEOREM NothingEverLost == MigrationSpec => []NothingLost
<1>1. MigrationIInv => NothingLost
  BY IInvKeeps
<1> QED  BY <1>1, MigrationIInvAlways, PTL

-----------------------------------------------------------------------------
(* The configuration.  A transaction that is under way explains every        *)
(* difference between the configuration and what follows it: for each part   *)
(* there is a setting, the old one or the new one, that it is at.            *)

\* The transaction is at one of these stages.
TxIn(stages) == tx # NoTx /\ tx.at \in stages

Committing == {"commit", "save", "proxy", "control"}
TakingItBack == {"unproxy", "undo", "unsave"}
Following == {"runtime", "pac", "startup", "recommit", "resave"}
Switched == {"update", "updateSave", "putBack"}

\* A switch changes itself only.
SamePlace(s, t) == s.port = t.port /\ s.cport = t.cport /\ s.dir = t.dir

KindOfStage ==
    /\ ~alive => tx = NoTx
    /\ tx # NoTx /\ tx.kind = "apply" => tx.at \in Committing \union TakingItBack \union Following
    /\ tx # NoTx /\ tx.kind # "apply" => tx.at \in Switched /\ SamePlace(tx.old, tx.new)
    /\ tx # NoTx /\ tx.kind = "startup" => tx.old.pac = tx.new.pac
    /\ tx # NoTx /\ tx.kind = "pac" => tx.old.start = tx.new.start

\* While main sets what it has loaded nothing else has happened, unless a request
\* has come.
BootAt ==
    /\ ~alive => boot = "over"
    /\ boot # "over" /\ ~overtaken => tx = NoTx /\ cfg = loaded

\* Memory and file.
MemoryAndFile ==
    /\ alive /\ tx = NoTx => disk = cfg
    /\ TxIn({"commit", "update", "putBack"}) => cfg = tx.old /\ disk = tx.old
    /\ TxIn({"save", "updateSave"}) => cfg = tx.new /\ disk = tx.old
    /\ TxIn({"proxy", "control", "unproxy", "undo"}) => cfg = tx.new /\ disk = tx.new
    /\ TxIn({"unsave"}) => cfg = tx.old /\ disk = tx.new
    /\ TxIn({"runtime", "pac"}) => cfg = tx.new /\ disk = cfg
    /\ TxIn(Committing \union {"runtime", "pac"}) => ~tx.again
    /\ TxIn({"startup", "recommit"}) =>
          disk = cfg /\ SamePlace(cfg, tx.new) /\ (~tx.again => cfg = tx.new)
    /\ TxIn({"resave"}) => cfg = tx.new

\* The listener of the proxy, unless it was started on a port that may be taken back.
ProxyAt ==
    ~early =>
      /\ alive /\ tx = NoTx => lport \in {0, cfg.port}
      /\ TxIn({"commit", "save", "undo", "unsave"} \union Switched) => lport \in {0, tx.old.port}
      /\ TxIn({"proxy"}) => lport \in {0, tx.old.port, tx.new.port}
      /\ TxIn({"control", "unproxy"} \union Following) => lport \in {0, tx.new.port}

\* The control server, and the directory of the cache.
ControlAt ==
    /\ alive /\ tx = NoTx => cport = cfg.cport /\ base = cfg.dir
    /\ TxIn(Committing \union TakingItBack \union Switched) =>
          cport = tx.old.cport /\ base = tx.old.dir
    /\ TxIn(Following) => cport = tx.new.cport
    /\ TxIn({"runtime"}) => base = tx.old.dir
    /\ TxIn(Following \ {"runtime"}) => base = tx.new.dir

\* The entry of the system follows s, or will when main has set it; one that a
\* crash left behind is removed by the next transaction only.
EntryOf(s) == /\ s.start => autostart \/ (boot # "over" /\ loaded.start)
              /\ ~crashed /\ ~overtaken => autostart = s.start

EntryAt ==
    /\ ~alive /\ ~crashed /\ ~overtaken => autostart = disk.start
    /\ alive /\ tx = NoTx => EntryOf(cfg)
    /\ TxIn(Committing \union TakingItBack \union {"runtime", "pac", "startup"}) =>
          EntryOf(tx.old)
    /\ TxIn({"recommit", "resave"} \union Switched) => EntryOf(tx.new)

\* An address of ours in the system is one that this process knows.
OursKnown(s) == s.sys \in Ports => s.managing /\ s.managed = s.sys

\* What is remembered as somebody else's is not ours.
OthersKept(s) == s.original \notin Ports /\ s.file.original \notin Ports

AddressOf(s) == pac.sys \in Ports => s.pac /\ pac.sys = s.port

AddressAt ==
    /\ OthersKept(pac)
    /\ alive /\ boot # "pac" => OursKnown(pac)
    /\ ~alive => AddressOf(disk)
    /\ alive /\ tx = NoTx => AddressOf(cfg)
    /\ TxIn(Committing \union TakingItBack \union {"runtime", "pac"}) => AddressOf(tx.old)
    /\ TxIn({"startup", "recommit", "resave"} \union Switched) => AddressOf(tx.new)

\* The address of the system is u and the file knows of none: an enabling that
\* failed may have left u in the memory, ...
Untaken(s, u) ==
    /\ s.sys = u /\ ~s.managing /\ s.managed = NoPAC /\ s.file = NoFile
    /\ s.original \in {NoPAC, u}

\* ... or it is ours, and u is remembered, in memory and in the file.
Taken(s, u) ==
    /\ s.sys \in Ports /\ s.managing /\ s.managed = s.sys /\ s.original = u
    /\ s.file = [original |-> u, managed |-> s.sys]

Accounted(s, u) == Untaken(s, u) \/ Taken(s, u)

TheirsKept ==
    /\ theirs \in Foreign \union {NoPAC}
    /\ ~spoiled /\ ~stale => Accounted(pac, theirs)
    /\ ~spoiled /\ ~stale /\ ~alive => Untaken(pac, theirs)

\* The claim on the cache tasks.
ClaimHeld == Switching => ~maintenance

ConfigIInv == /\ ConfigTypeOK /\ KindOfStage /\ BootAt /\ MemoryAndFile /\ ClaimHeld
              /\ TheirsKept
              /\ ~told => ProxyAt /\ ControlAt /\ EntryAt
              /\ ~told /\ ~crashed /\ ~overtaken => AddressAt

LEMMA SettingFields ==
  ASSUME NEW s \in Settings
  PROVE  /\ s.port \in Ports /\ s.pac \in BOOLEAN /\ s.start \in BOOLEAN
         /\ \A b \in BOOLEAN :
              /\ [s EXCEPT !.pac = b] \in Settings /\ [s EXCEPT !.start = b] \in Settings
              /\ SamePlace([s EXCEPT !.pac = b], s) /\ SamePlace([s EXCEPT !.start = b], s)
              /\ [s EXCEPT !.pac = b].start = s.start /\ [s EXCEPT !.start = b].pac = s.pac
              /\ [s EXCEPT !.pac = b].pac = b /\ [s EXCEPT !.start = b].start = b
              /\ (b = s.pac => [s EXCEPT !.pac = b] = s)
              /\ (b = s.start => [s EXCEPT !.start = b] = s)
<1>1. s \in [port : Ports, cport : {t.cport : t \in Settings}, dir : {t.dir : t \in Settings},
             pac : BOOLEAN, start : BOOLEAN]
  BY SettingsAssumption
<1>2. s.port \in Ports /\ s.pac \in BOOLEAN /\ s.start \in BOOLEAN
  BY <1>1
<1> QED  BY <1>1, <1>2, SettingsAssumption DEF SamePlace

-----------------------------------------------------------------------------
(* What SystemProxy's operators do to the invariants about the address.      *)

\* What is there can be enabled over: ours is known, or is what is set now.
EnabledOver(s, p) == OthersKept(s) /\ (OursKnown(s) \/ (s.sys \in Ports => s.sys = p))

LEMMA Remembering ==
  ASSUME NEW s \in PACState, NEW p \in Ports, NEW r, r = Remembered(LoadOriginal(s), p)
  PROVE  /\ r \in PACState /\ r.sys = s.sys /\ r.managing = s.managing /\ r.managed = s.managed
         /\ r.file = s.file
         /\ EnabledOver(s, p) => r.original \notin Ports
         /\ \A u \in Foreign \union {NoPAC} :
              /\ Untaken(s, u) => r.original = u
              /\ Taken(s, u) => r.original = u
<1> DEFINE l == LoadOriginal(s)
<1>0. s.file.original \in PACs /\ s.original \in PACs /\ s.sys \in PACs
  BY DEF PACState
<1>1. /\ l \in PACState /\ l.sys = s.sys /\ l.managing = s.managing /\ l.managed = s.managed
      /\ l.file = s.file
      /\ l.original = IF s.original = NoPAC THEN s.file.original ELSE s.original
  BY <1>0 DEF LoadOriginal, PACState
<1>2. /\ r \in PACState /\ r.sys = s.sys /\ r.managing = s.managing /\ r.managed = s.managed
      /\ r.file = s.file
      /\ r.original = IF s.sys # NoPAC /\ ~IsOur(l, p) /\ l.original = NoPAC
                      THEN s.sys ELSE l.original
  BY <1>0, <1>1 DEF Remembered, PACState
<1> HIDE DEF l
<1>3. ASSUME EnabledOver(s, p) PROVE r.original \notin Ports
  BY <1>1, <1>2, <1>3, AddressAssumption DEF EnabledOver, OthersKept, OursKnown, IsOur
<1>4. ASSUME NEW u \in Foreign \union {NoPAC}, Untaken(s, u) PROVE r.original = u
  <2>1. /\ s.sys = u /\ s.original \in {NoPAC, u} /\ s.managed = NoPAC
        /\ s.file.original = NoPAC
    BY <1>4 DEF Untaken, NoFile
  <2>2. u # p
    BY AddressAssumption
  <2> QED  BY <1>1, <1>2, <2>1, <2>2 DEF IsOur
<1>5. ASSUME NEW u \in Foreign \union {NoPAC}, Taken(s, u) PROVE r.original = u
  <2>1. l.original = u /\ s.managed = s.sys /\ s.sys # NoPAC
    BY <1>1, <1>5, AddressAssumption DEF Taken
  <2> QED  BY <1>1, <1>2, <2>1 DEF IsOur
<1> QED  BY <1>2, <1>3, <1>4, <1>5

LEMMA Enabling ==
  ASSUME NEW s \in PACState, NEW p \in Ports
  PROVE  /\ EnablePACProxy(s, p) \in PACState /\ EnablePACProxy(s, p).sys = p
         /\ OursKnown(EnablePACProxy(s, p))
         /\ EnabledOver(s, p) => OthersKept(EnablePACProxy(s, p))
         /\ \A u \in Foreign \union {NoPAC} :
              Accounted(s, u) => Taken(EnablePACProxy(s, p), u)
<1> DEFINE r == Remembered(LoadOriginal(s), p)
           e == EnablePACProxy(s, p)
<1>1. /\ r \in PACState
      /\ EnabledOver(s, p) => r.original \notin Ports
      /\ \A u \in Foreign \union {NoPAC} : Accounted(s, u) => r.original = u
  BY Remembering DEF Accounted
<1>2. p \in PACs /\ r.original \in PACs
  BY <1>1 DEF PACs, PACState
<1>3. /\ e \in PACState /\ e.sys = p /\ e.managing = TRUE /\ e.managed = p
      /\ e.original = r.original /\ e.file = [original |-> r.original, managed |-> p]
  BY <1>1, <1>2 DEF EnablePACProxy, PACState
<1> HIDE DEF e, r
<1>4. OursKnown(e) /\ (EnabledOver(s, p) => OthersKept(e))
  BY <1>1, <1>3 DEF OursKnown, OthersKept
<1>5. ASSUME NEW u \in Foreign \union {NoPAC}, Accounted(s, u) PROVE Taken(e, u)
  BY <1>1, <1>3, <1>5 DEF Taken
<1> QED  BY <1>3, <1>4, <1>5 DEF e

LEMMA EnablingFails ==
  ASSUME NEW s \in PACState, NEW p \in Ports
  PROVE  /\ EnableFails(s, p) \in PACState /\ EnableFails(s, p).sys = s.sys
         /\ OursKnown(s) /\ OthersKept(s) =>
              OursKnown(EnableFails(s, p)) /\ OthersKept(EnableFails(s, p))
         /\ \A u \in Foreign \union {NoPAC} : Accounted(s, u) => Accounted(EnableFails(s, p), u)
<1> DEFINE r == EnableFails(s, p)
<1>1. /\ r \in PACState /\ r.sys = s.sys /\ r.managing = s.managing /\ r.managed = s.managed
      /\ r.file = s.file
      /\ EnabledOver(s, p) => r.original \notin Ports
      /\ \A u \in Foreign \union {NoPAC} :
              /\ Untaken(s, u) => r.original = u
              /\ Taken(s, u) => r.original = u
  BY Remembering DEF EnableFails
<1> HIDE DEF r
<1>2. OursKnown(s) /\ OthersKept(s) => OursKnown(r) /\ OthersKept(r)
  BY <1>1 DEF OursKnown, OthersKept, EnabledOver
<1>3. ASSUME NEW u \in Foreign \union {NoPAC}, Untaken(s, u) PROVE Untaken(r, u)
  BY <1>1, <1>3 DEF Untaken
<1>4. ASSUME NEW u \in Foreign \union {NoPAC}, Taken(s, u) PROVE Taken(r, u)
  BY <1>1, <1>4 DEF Taken
<1> QED  BY <1>1, <1>2, <1>3, <1>4 DEF r, Accounted

\* What DisablePACProxy works on.
LEMMA Loading ==
  ASSUME NEW s \in PACState
  PROVE  /\ LoadManaged(s) \in PACState /\ LoadManaged(s).sys = s.sys
         /\ LoadManaged(s).file = s.file
         /\ s.managing \/ s.file.managed = NoPAC => LoadManaged(s) = s
         /\ LoadManaged(s).original \in {s.original, s.file.original}
<1> DEFINE m == [s EXCEPT !.managing = TRUE, !.managed = s.file.managed,
                          !.original = IF @ = NoPAC THEN s.file.original ELSE @]
<1>1. s.file.managed \in PACs /\ s.file.original \in PACs /\ s.original \in PACs
  BY DEF PACState
<1>2. /\ m \in PACState /\ m.sys = s.sys /\ m.file = s.file
      /\ m.original \in {s.original, s.file.original}
  BY <1>1 DEF PACState
<1> HIDE DEF m
<1>3. LoadManaged(s) = IF ~s.managing /\ s.file.managed # NoPAC THEN m ELSE s
  BY DEF LoadManaged, m
<1> QED  BY <1>2, <1>3

LEMMA FreshFields ==
  ASSUME NEW u \in PACs
  PROVE  /\ FreshPAC(u, NoFile) \in PACState /\ FreshPAC(u, NoFile).sys = u
         /\ FreshPAC(u, NoFile).original = NoPAC /\ FreshPAC(u, NoFile).file.original = NoPAC
         /\ FreshPAC(u, NoFile).managing = FALSE /\ Untaken(FreshPAC(u, NoFile), u)
BY DEF FreshPAC, NoFile, PACState, PACs, Untaken

LEMMA Disabling ==
  ASSUME NEW s \in PACState
  PROVE  /\ DisablePACProxy(s) \in PACState
         /\ OursKnown(s) /\ OthersKept(s) =>
              OthersKept(DisablePACProxy(s)) /\ DisablePACProxy(s).sys \notin Ports
         /\ \A u \in Foreign \union {NoPAC} :
              Accounted(s, u) => Untaken(DisablePACProxy(s), u)
<1> DEFINE r == LoadManaged(s)
           d == DisablePACProxy(s)
           c == [r EXCEPT !.file = NoFile]
<1>1. /\ r \in PACState /\ r.sys = s.sys /\ r.file = s.file
      /\ s.managing \/ s.file.managed = NoPAC => r = s
      /\ r.original \in {s.original, s.file.original}
  BY Loading
<1>2. /\ r.sys \in PACs /\ r.original \in PACs /\ NoPAC \in PACs /\ r.managing \in BOOLEAN
      /\ GivenBack(r) \in PACs
  BY <1>1 DEF PACState, GivenBack, PACs
<1>3. /\ c \in PACState /\ c.sys = r.sys /\ c.managing = r.managing /\ c.original = r.original
      /\ c.file = NoFile /\ NoFile.original = NoPAC
  BY <1>1, <1>2 DEF PACState, NoFile
<1> HIDE DEF r, c
<1>4. \/ Surrendered(r) /\ r.managing /\ d = FreshPAC(r.sys, NoFile)
      \/ Surrendered(r) /\ ~r.managing /\ d = c
      \/ ~Surrendered(r) /\ d = FreshPAC(GivenBack(r), NoFile)
  BY <1>2 DEF DisablePACProxy, r, c
<1> HIDE DEF d
<1>5. d \in PACState
  BY <1>2, <1>3, <1>4, FreshFields
<1>6. ASSUME OursKnown(s), OthersKept(s) PROVE OthersKept(d) /\ d.sys \notin Ports
  <2>1. r.original \notin Ports /\ NoPAC \notin Ports
    BY <1>1, <1>6, AddressAssumption DEF OthersKept
  <2>2. Surrendered(r) => r.sys \notin Ports
    BY <1>1, <1>6, AddressAssumption DEF OursKnown, Surrendered
  <2>3. GivenBack(r) \notin Ports
    BY <2>1 DEF GivenBack
  <2>4. CASE Surrendered(r) /\ r.managing /\ d = FreshPAC(r.sys, NoFile)
    BY <1>2, <2>1, <2>2, <2>4, FreshFields DEF OthersKept
  <2>5. CASE Surrendered(r) /\ ~r.managing /\ d = c
    BY <1>3, <2>1, <2>2, <2>5 DEF OthersKept
  <2>6. CASE ~Surrendered(r) /\ d = FreshPAC(GivenBack(r), NoFile)
    BY <1>2, <2>1, <2>3, <2>6, FreshFields DEF OthersKept
  <2> QED  BY <1>4, <2>4, <2>5, <2>6
<1>7. ASSUME NEW u \in Foreign \union {NoPAC}, Accounted(s, u)
      PROVE  Untaken(d, u)
  <2>1. CASE Untaken(s, u)
    <3>1. s.managing = FALSE /\ s.file = NoFile /\ NoFile.managed = NoPAC
      BY <2>1 DEF Untaken, NoFile, PACState
    <3>2. r = s
      BY <1>1, <3>1
    <3>3. d = c
      BY <1>4, <3>1, <3>2 DEF Surrendered
    <3>4. c = s
      <4>1. s.file = NoFile /\ c = [s EXCEPT !.file = NoFile]
        BY <3>1, <3>2 DEF c
      <4> QED  BY <4>1 DEF PACState
    <3> QED  BY <2>1, <3>3, <3>4
  <2>2. CASE Taken(s, u)
    <3>1. r = s /\ s.sys # NoPAC /\ u # s.managed
      BY <1>1, <2>2, AddressAssumption DEF Taken
    <3>2. ~Surrendered(r) /\ GivenBack(r) = u
      BY <2>2, <3>1 DEF Taken, Surrendered, GivenBack
    <3>3. u \in PACs
      BY DEF PACs
    <3> QED  BY <1>4, <3>2, <3>3, FreshFields
  <2> QED  BY <1>7, <2>1, <2>2 DEF Accounted
<1> QED  BY <1>5, <1>6, <1>7 DEF d

LEMMA DisablingFails ==
  ASSUME NEW s \in PACState
  PROVE  /\ DisableFails(s) \in PACState /\ DisableFails(s).sys = s.sys
         /\ OursKnown(s) /\ OthersKept(s) =>
              OursKnown(DisableFails(s)) /\ OthersKept(DisableFails(s))
         /\ \A u \in Foreign \union {NoPAC} : Accounted(s, u) => Accounted(DisableFails(s), u)
<1> DEFINE r == LoadManaged(s)
           c == [r EXCEPT !.original = NoPAC]
           f == DisableFails(s)
<1>1. /\ r \in PACState /\ r.sys = s.sys /\ r.file = s.file
      /\ s.managing \/ s.file.managed = NoPAC => r = s
      /\ r.original \in {s.original, s.file.original}
  BY Loading
<1>2. /\ c \in PACState /\ c.sys = r.sys /\ c.file = r.file /\ c.managing = r.managing
      /\ c.managed = r.managed /\ c.original = NoPAC
  BY <1>1 DEF PACState, PACs
<1>3. f = IF r.original = r.managed THEN c ELSE r
  BY DEF DisableFails
<1> HIDE DEF r, c, f
<1>4. f \in PACState /\ f.sys = s.sys
  BY <1>1, <1>2, <1>3
<1>5. ASSUME OursKnown(s), OthersKept(s) PROVE OursKnown(f) /\ OthersKept(f)
  <2>1. OursKnown(f)
    BY <1>1, <1>2, <1>3, <1>5 DEF OursKnown
  <2>2. OthersKept(f)
    BY <1>1, <1>2, <1>3, <1>5, AddressAssumption DEF OthersKept
  <2> QED  BY <2>1, <2>2
<1>6. ASSUME NEW u \in Foreign \union {NoPAC}, Accounted(s, u) PROVE Accounted(f, u)
  <2>1. CASE Untaken(s, u)
    <3>1. r = s
      BY <1>1, <2>1 DEF Untaken, NoFile
    <3> QED  BY <1>2, <1>3, <2>1, <3>1 DEF Untaken, Accounted
  <2>2. CASE Taken(s, u)
    <3>1. r = s /\ s.original # s.managed
      BY <1>1, <2>2, AddressAssumption DEF Taken
    <3> QED  BY <1>3, <2>2, <3>1 DEF Accounted
  <2> QED  BY <1>6, <2>1, <2>2 DEF Accounted
<1> QED  BY <1>4, <1>5, <1>6 DEF f

LEMMA Cleaning ==
  ASSUME NEW s \in PACState
  PROVE  /\ CleanupOnExit(s) \in PACState
         /\ OursKnown(s) /\ OthersKept(s) =>
              OthersKept(CleanupOnExit(s)) /\ CleanupOnExit(s).sys \notin Ports
         /\ \A u \in Foreign \union {NoPAC} : Accounted(s, u) => Untaken(CleanupOnExit(s), u)
<1>1. CASE HasToCleanUp(s)
  BY <1>1, Disabling DEF CleanupOnExit
<1>2. CASE ~HasToCleanUp(s)
  <2>1. CleanupOnExit(s) = s /\ ~s.managing /\ s.file.managed = NoPAC
    BY <1>2 DEF CleanupOnExit, HasToCleanUp
  <2> QED  BY <2>1 DEF OursKnown, Taken, Accounted
<1> QED  BY <1>1, <1>2

\* A program that has ended has forgotten what it did not save.
LEMMA FreshStart ==
  ASSUME NEW s \in PACState
  PROVE  /\ FreshPAC(s.sys, s.file) \in PACState
         /\ FreshPAC(s.sys, s.file).sys = s.sys
         /\ OthersKept(s) => OthersKept(FreshPAC(s.sys, s.file))
         /\ \A u : Untaken(s, u) => Untaken(FreshPAC(s.sys, s.file), u)
<1>1. s.sys \in PACs /\ s.file \in [original : PACs, managed : PACs]
  BY DEF PACState
<1>2. FreshPAC(s.sys, s.file) \in PACState /\ FreshPAC(s.sys, s.file).sys = s.sys
  BY <1>1 DEF FreshPAC, PACState, PACs
<1>3. OthersKept(s) => OthersKept(FreshPAC(s.sys, s.file))
  BY AddressAssumption DEF FreshPAC, OthersKept
<1>4. \A u : Untaken(s, u) => Untaken(FreshPAC(s.sys, s.file), u)
  BY DEF FreshPAC, Untaken
<1> QED  BY <1>2, <1>3, <1>4

\* The two outcomes of a call.
LEMMA SwitchingPAC ==
  ASSUME ConfigIInv, NEW on \in BOOLEAN, NEW port \in Ports, SwitchPAC(on, port)
  PROVE  /\ pac' \in PACState
         /\ ~spoiled /\ ~stale => Accounted(pac', theirs)
         /\ OthersKept(pac) /\ (OursKnown(pac) \/ (on /\ (pac.sys \in Ports => pac.sys = port))) =>
              /\ OursKnown(pac') /\ OthersKept(pac')
              /\ pac'.sys \in Ports => on /\ pac'.sys = port
<1>1. /\ pac \in PACState /\ theirs \in Foreign \union {NoPAC}
      /\ ~spoiled /\ ~stale => Accounted(pac, theirs)
  BY DEF ConfigIInv, ConfigTypeOK, TheirsKept
<1>2. CASE on
  <2>1. pac' = EnablePACProxy(pac, port)
    BY <1>2 DEF SwitchPAC
  <2> QED  BY <1>1, <1>2, <2>1, Enabling DEF EnabledOver, Accounted
<1>3. CASE ~on
  <2>1. pac' = DisablePACProxy(pac)
    BY <1>3 DEF SwitchPAC
  <2> QED  BY <1>1, <1>3, <2>1, Disabling DEF OursKnown, Accounted
<1> QED  BY <1>2, <1>3

LEMMA PACFailing ==
  ASSUME ConfigIInv, NEW on \in BOOLEAN, NEW port \in Ports, PACFails(on, port)
  PROVE  /\ pac' \in PACState /\ pac'.sys = pac.sys
         /\ ~spoiled /\ ~stale => Accounted(pac', theirs)
         /\ OursKnown(pac) /\ OthersKept(pac) => OursKnown(pac') /\ OthersKept(pac')
<1>1. /\ pac \in PACState /\ theirs \in Foreign \union {NoPAC}
      /\ ~spoiled /\ ~stale => Accounted(pac, theirs)
  BY DEF ConfigIInv, ConfigTypeOK, TheirsKept
<1>2. CASE on
  <2>1. pac' = EnableFails(pac, port)
    BY <1>2 DEF PACFails
  <2> QED  BY <1>1, <2>1, EnablingFails
<1>3. CASE ~on
  <2>1. pac' = DisableFails(pac)
    BY <1>3 DEF PACFails
  <2> QED  BY <1>1, <2>1, DisablingFails
<1> QED  BY <1>2, <1>3

-----------------------------------------------------------------------------
(* The steps of the configuration.                                           *)

\* A transaction is at the stage.
Held(at) == /\ tx # NoTx /\ tx.at = at
            /\ tx.kind \in Kinds /\ tx.old \in Settings /\ tx.new \in Settings
            /\ tx.again \in BOOLEAN
            /\ tx.old.port \in Ports /\ tx.new.port \in Ports
            /\ tx.old.start \in BOOLEAN /\ tx.new.start \in BOOLEAN

\* A transaction that goes on keeps everything but its stage.
Advanced(at) == /\ tx' \in Transactions /\ tx' # NoTx /\ tx'.at = at /\ tx'.kind = tx.kind
                /\ tx'.old = tx.old /\ tx'.new = tx.new /\ tx'.again = tx.again

\* A new one has read the configuration.
Begun(kind, new, at) ==
    /\ tx' \in Transactions /\ tx' # NoTx /\ tx'.at = at /\ tx'.kind = kind
    /\ tx'.old = cfg /\ tx'.new = new /\ tx'.again = FALSE

LEMMA Holding ==
  ASSUME ConfigIInv, NEW at, TxAt(at)
  PROVE  Held(at) /\ tx \in Transactions
<1>1. tx \in Transactions /\ tx # NoTx /\ tx.at = at
  BY DEF ConfigIInv, ConfigTypeOK, TxAt
<1>2. /\ tx.kind \in Kinds /\ tx.old \in Settings /\ tx.new \in Settings /\ tx.again \in BOOLEAN
  BY <1>1 DEF Transactions
<1> QED  BY <1>1, <1>2, SettingFields DEF Held

LEMMA Advancing ==
  ASSUME ConfigIInv, NEW from, TxAt(from), NEW at \in Stages, GoOn(at)
  PROVE  Advanced(at)
<1>1. tx \in Transactions
  BY Holding
<1>2. [tx EXCEPT !.at = at] \in Transactions
  BY <1>1 DEF Transactions
<1>3. tx' \in Transactions /\ tx' # NoTx
  BY <1>2, NoTxAssumption DEF GoOn
<1> QED  BY <1>1, <1>3 DEF GoOn, Advanced, Transactions

LEMMA Beginning ==
  ASSUME ConfigIInv, NEW kind \in Kinds, NEW new \in Settings, NEW at \in Stages,
         tx' = NewTx(kind, new, at)
  PROVE  Begun(kind, new, at)
<1>1. cfg \in Settings
  BY DEF ConfigIInv, ConfigTypeOK
<1>2. NewTx(kind, new, at) \in Transactions
  BY <1>1 DEF NewTx, Transactions
<1>3. tx' \in Transactions /\ tx' # NoTx
  BY <1>2, NoTxAssumption
<1> QED  BY <1>3 DEF NewTx, Begun

\* handleApplyConfig begins, with the claim on the cache tasks when it changes the
\* directory.
LEMMA BeginApplyIInv ==
  ASSUME ConfigIInv, NEW new \in Settings, BeginApply(new)
  PROVE  ConfigIInv'
<1>1. /\ alive /\ tx = NoTx /\ (new.dir # cfg.dir => ~maintenance)
      /\ Begun("apply", new, "commit")
      /\ overtaken' = (overtaken \/ boot # "over")
      /\ UNCHANGED <<cfg, disk, alive, lport, cport, base, autostart, pac, maintenance,
                     theirs, told, spoiled, crashed, loaded, boot, stale, early>>
  BY Beginning
     DEF BeginApply, Begins, Overtakes, Admitted, runtimeVars, bootVars, pacHistory, Kinds,
         Stages
<1> USE DEF TxIn, Committing, TakingItBack, Following, Switched, Advanced, Begun, Held
<1>2. ConfigTypeOK'
  BY <1>1
     DEF ConfigIInv, ConfigTypeOK, PACState
<1>3. KindOfStage' /\ BootAt' /\ MemoryAndFile'
  BY <1>1
     DEF ConfigIInv, KindOfStage, BootAt, MemoryAndFile, SamePlace
<1>4. ClaimHeld' /\ TheirsKept'
  BY <1>1
     DEF ConfigIInv, ClaimHeld, Switching, TheirsKept, Accounted, Untaken, Taken
<1>5. ~told' => ProxyAt' /\ ControlAt' /\ EntryAt'
  BY <1>1
     DEF ConfigIInv, KindOfStage, MemoryAndFile, ProxyAt, ControlAt, EntryAt, EntryOf,
         SamePlace
<1>6. ~told' /\ ~crashed' /\ ~overtaken' => AddressAt'
  BY <1>1
     DEF ConfigIInv, KindOfStage, MemoryAndFile, AddressAt, AddressOf, OthersKept, OursKnown,
         SamePlace
<1> QED  BY <1>2, <1>3, <1>4, <1>5, <1>6 DEF ConfigIInv

\* Manager.Commit: the memory, ...
LEMMA ConfigCommitIInv ==
  ASSUME ConfigIInv, Commit
  PROVE  ConfigIInv'
<1>0. TxAt("commit")
  BY DEF Commit, Memory
<1>1. /\ Held("commit")
      /\ UNCHANGED <<disk, alive, lport, cport, base, autostart, pac, maintenance, theirs,
                     told, spoiled, crashed, loaded, boot, overtaken, stale, early>>
      /\ Advanced("save") /\ cfg' = tx.new
  BY <1>0, Holding, Advancing
     DEF Commit, Memory, runtimeVars, bootVars, pacHistory, Stages, End, Works, Fails
<1> USE DEF TxIn, Committing, TakingItBack, Following, Switched, Advanced, Begun, Held
<1>2. ConfigTypeOK'
  BY <1>1
     DEF ConfigIInv, ConfigTypeOK, PACState
<1>3. KindOfStage' /\ BootAt' /\ MemoryAndFile'
  BY <1>1
     DEF ConfigIInv, KindOfStage, BootAt, MemoryAndFile, SamePlace
<1>4. ClaimHeld' /\ TheirsKept'
  BY <1>1
     DEF ConfigIInv, ClaimHeld, Switching, TheirsKept, Accounted, Untaken, Taken
<1>5. ~told' => ProxyAt' /\ ControlAt' /\ EntryAt'
  BY <1>1
     DEF ConfigIInv, KindOfStage, MemoryAndFile, ProxyAt, ControlAt, EntryAt, EntryOf,
         SamePlace
<1>6. ~told' /\ ~crashed' /\ ~overtaken' => AddressAt'
  BY <1>1
     DEF ConfigIInv, KindOfStage, MemoryAndFile, AddressAt, AddressOf, OthersKept, OursKnown,
         SamePlace
<1> QED  BY <1>2, <1>3, <1>4, <1>5, <1>6 DEF ConfigIInv

\* ... and the file.
LEMMA SaveIInv ==
  ASSUME ConfigIInv, Save
  PROVE  ConfigIInv'
<1>0. TxAt("save")
  BY DEF Save
<1>1. /\ Held("save") /\ early' \in BOOLEAN
      /\ UNCHANGED <<alive, lport, cport, base, autostart, pac, maintenance, theirs, told,
                     spoiled, crashed, loaded, boot, overtaken, stale>>
      /\ \/ /\ Advanced("proxy") /\ disk' = cfg /\ cfg' = cfg
            /\ ~early' => ~early \/ lport = cfg.port
         \/ tx' = NoTx /\ cfg' = tx.old /\ disk' = disk /\ early' = early
  BY <1>0, Holding, Advancing
     DEF Save, runtimeVars, bootVars, pacHistory, Stages, End, Works, Fails, ConfigIInv,
         ConfigTypeOK
<1> USE DEF TxIn, Committing, TakingItBack, Following, Switched, Advanced, Begun, Held
<1>2. ConfigTypeOK'
  BY <1>1
     DEF ConfigIInv, ConfigTypeOK, PACState
<1>3. KindOfStage' /\ BootAt' /\ MemoryAndFile'
  BY <1>1
     DEF ConfigIInv, KindOfStage, BootAt, MemoryAndFile, SamePlace
<1>4. ClaimHeld' /\ TheirsKept'
  BY <1>1
     DEF ConfigIInv, ClaimHeld, Switching, TheirsKept, Accounted, Untaken, Taken
<1>5. ~told' => ProxyAt' /\ ControlAt' /\ EntryAt'
  BY <1>1
     DEF ConfigIInv, KindOfStage, MemoryAndFile, ProxyAt, ControlAt, EntryAt, EntryOf,
         SamePlace
<1>6. ~told' /\ ~crashed' /\ ~overtaken' => AddressAt'
  BY <1>1
     DEF ConfigIInv, KindOfStage, MemoryAndFile, AddressAt, AddressOf, OthersKept, OursKnown,
         SamePlace
<1> QED  BY <1>2, <1>3, <1>4, <1>5, <1>6 DEF ConfigIInv

\* The listener of the proxy.
LEMMA ReloadProxyIInv ==
  ASSUME ConfigIInv, ReloadProxy
  PROVE  ConfigIInv'
<1>0. TxAt("proxy")
  BY DEF ReloadProxy
<1>1. /\ Held("proxy") /\ early' \in BOOLEAN
      /\ UNCHANGED <<cfg, disk, alive, cport, base, autostart, pac, maintenance, theirs,
                     told, spoiled, crashed, loaded, boot, overtaken, stale>>
      /\ \/ /\ Advanced("control")
            /\ lport' = IF tx.new.port # tx.old.port THEN Moved(tx.new.port) ELSE lport
            /\ ~early' => ~early \/ lport' = cfg.port
         \/ /\ Advanced("undo") /\ lport' = lport /\ lport \notin {0, tx.new.port}
            /\ early' = early
  BY <1>0, Holding, Advancing
     DEF ReloadProxy, runtimeVars, bootVars, pacHistory, Stages, End, Works, Fails,
         ConfigIInv, ConfigTypeOK
<1> USE DEF TxIn, Committing, TakingItBack, Following, Switched, Advanced, Begun, Held, Moved
<1>2. ConfigTypeOK'
  BY <1>1
     DEF ConfigIInv, ConfigTypeOK, PACState
<1>3. KindOfStage' /\ BootAt' /\ MemoryAndFile'
  BY <1>1
     DEF ConfigIInv, KindOfStage, BootAt, MemoryAndFile, SamePlace
<1>4. ClaimHeld' /\ TheirsKept'
  BY <1>1
     DEF ConfigIInv, ClaimHeld, Switching, TheirsKept, Accounted, Untaken, Taken
<1>5. ~told' => ProxyAt' /\ ControlAt' /\ EntryAt'
  BY <1>1
     DEF ConfigIInv, KindOfStage, MemoryAndFile, ProxyAt, ControlAt, EntryAt, EntryOf,
         SamePlace
<1>6. ~told' /\ ~crashed' /\ ~overtaken' => AddressAt'
  BY <1>1
     DEF ConfigIInv, KindOfStage, MemoryAndFile, AddressAt, AddressOf, OthersKept, OursKnown,
         SamePlace
<1> QED  BY <1>2, <1>3, <1>4, <1>5, <1>6 DEF ConfigIInv

\* That of the control server.
LEMMA ReloadControlIInv ==
  ASSUME ConfigIInv, ReloadControl
  PROVE  ConfigIInv'
<1>0. TxAt("control")
  BY DEF ReloadControl
<1>a. GoOn(AfterControlFailed) =>
           \/ tx.new.port # tx.old.port /\ Advanced("unproxy")
           \/ tx.new.port = tx.old.port /\ Advanced("undo")
  BY <1>0, Advancing DEF AfterControlFailed, Stages
<1>1. /\ Held("control")
      /\ UNCHANGED <<cfg, disk, alive, lport, base, autostart, pac, maintenance, theirs,
                     told, spoiled, crashed, loaded, boot, overtaken, stale, early>>
      /\ \/ /\ Advanced("runtime")
            /\ cport' = IF tx.new.cport # tx.old.cport THEN tx.new.cport ELSE cport
         \/ tx.new.port # tx.old.port /\ Advanced("unproxy") /\ cport' = cport
         \/ tx.new.port = tx.old.port /\ Advanced("undo") /\ cport' = cport
  BY <1>0, Holding, Advancing, <1>a
     DEF ReloadControl, runtimeVars, bootVars, pacHistory, Stages, End, Works, Fails
<1> USE DEF TxIn, Committing, TakingItBack, Following, Switched, Advanced, Begun, Held
<1>2. ConfigTypeOK'
  BY <1>1
     DEF ConfigIInv, ConfigTypeOK, PACState
<1>3. KindOfStage' /\ BootAt' /\ MemoryAndFile'
  BY <1>1
     DEF ConfigIInv, KindOfStage, BootAt, MemoryAndFile, SamePlace
<1>4. ClaimHeld' /\ TheirsKept'
  BY <1>1
     DEF ConfigIInv, ClaimHeld, Switching, TheirsKept, Accounted, Untaken, Taken
<1>5. ~told' => ProxyAt' /\ ControlAt' /\ EntryAt'
  BY <1>1
     DEF ConfigIInv, KindOfStage, MemoryAndFile, ProxyAt, ControlAt, EntryAt, EntryOf,
         SamePlace
<1>6. ~told' /\ ~crashed' /\ ~overtaken' => AddressAt'
  BY <1>1
     DEF ConfigIInv, KindOfStage, MemoryAndFile, AddressAt, AddressOf, OthersKept, OursKnown,
         SamePlace
<1> QED  BY <1>2, <1>3, <1>4, <1>5, <1>6 DEF ConfigIInv

\* The proxy goes back to the old port, ...
LEMMA ReloadProxyBackIInv ==
  ASSUME ConfigIInv, ReloadProxyBack
  PROVE  ConfigIInv'
<1>0. TxAt("unproxy")
  BY DEF ReloadProxyBack
<1>1. /\ Held("unproxy")
      /\ UNCHANGED <<cfg, disk, alive, cport, base, autostart, pac, maintenance, theirs,
                     spoiled, crashed, loaded, boot, overtaken, stale, early>>
      /\ Advanced("undo")
      /\ \/ lport' = Moved(tx.old.port) /\ told' = told
         \/ told' = TRUE /\ lport' = lport
  BY <1>0, Holding, Advancing
     DEF ReloadProxyBack, runtimeVars, bootVars, pacHistory, Stages, End, Works, Fails
<1> USE DEF TxIn, Committing, TakingItBack, Following, Switched, Advanced, Begun, Held, Moved
<1>2. ConfigTypeOK'
  BY <1>1
     DEF ConfigIInv, ConfigTypeOK, PACState
<1>3. KindOfStage' /\ BootAt' /\ MemoryAndFile'
  BY <1>1
     DEF ConfigIInv, KindOfStage, BootAt, MemoryAndFile, SamePlace
<1>4. ClaimHeld' /\ TheirsKept'
  BY <1>1
     DEF ConfigIInv, ClaimHeld, Switching, TheirsKept, Accounted, Untaken, Taken
<1>5. ~told' => ProxyAt' /\ ControlAt' /\ EntryAt'
  BY <1>1
     DEF ConfigIInv, KindOfStage, MemoryAndFile, ProxyAt, ControlAt, EntryAt, EntryOf,
         SamePlace
<1>6. ~told' /\ ~crashed' /\ ~overtaken' => AddressAt'
  BY <1>1
     DEF ConfigIInv, KindOfStage, MemoryAndFile, AddressAt, AddressOf, OthersKept, OursKnown,
         SamePlace
<1> QED  BY <1>2, <1>3, <1>4, <1>5, <1>6 DEF ConfigIInv

\* ... the memory as well, ...
LEMMA CommitBackIInv ==
  ASSUME ConfigIInv, CommitBack
  PROVE  ConfigIInv'
<1>0. TxAt("undo")
  BY DEF CommitBack, Memory
<1>1. /\ Held("undo")
      /\ UNCHANGED <<disk, alive, lport, cport, base, autostart, pac, maintenance, theirs,
                     told, spoiled, crashed, loaded, boot, overtaken, stale, early>>
      /\ Advanced("unsave") /\ cfg' = tx.old
  BY <1>0, Holding, Advancing
     DEF CommitBack, Memory, runtimeVars, bootVars, pacHistory, Stages, End, Works, Fails
<1> USE DEF TxIn, Committing, TakingItBack, Following, Switched, Advanced, Begun, Held
<1>2. ConfigTypeOK'
  BY <1>1
     DEF ConfigIInv, ConfigTypeOK, PACState
<1>3. KindOfStage' /\ BootAt' /\ MemoryAndFile'
  BY <1>1
     DEF ConfigIInv, KindOfStage, BootAt, MemoryAndFile, SamePlace
<1>4. ClaimHeld' /\ TheirsKept'
  BY <1>1
     DEF ConfigIInv, ClaimHeld, Switching, TheirsKept, Accounted, Untaken, Taken
<1>5. ~told' => ProxyAt' /\ ControlAt' /\ EntryAt'
  BY <1>1
     DEF ConfigIInv, KindOfStage, MemoryAndFile, ProxyAt, ControlAt, EntryAt, EntryOf,
         SamePlace
<1>6. ~told' /\ ~crashed' /\ ~overtaken' => AddressAt'
  BY <1>1
     DEF ConfigIInv, KindOfStage, MemoryAndFile, AddressAt, AddressOf, OthersKept, OursKnown,
         SamePlace
<1> QED  BY <1>2, <1>3, <1>4, <1>5, <1>6 DEF ConfigIInv

\* ... and the file.
LEMMA SaveBackIInv ==
  ASSUME ConfigIInv, SaveBack
  PROVE  ConfigIInv'
<1>0. TxAt("unsave")
  BY DEF SaveBack
<1>1. /\ Held("unsave")
      /\ UNCHANGED <<alive, lport, cport, base, autostart, pac, maintenance, theirs,
                     spoiled, crashed, loaded, boot, overtaken, stale, early>>
      /\ tx' = NoTx
      /\ \/ disk' = cfg /\ cfg' = cfg /\ told' = told
         \/ cfg' = tx.new /\ told' = TRUE /\ disk' = disk
  BY <1>0, Holding, Advancing
     DEF SaveBack, runtimeVars, bootVars, pacHistory, Stages, End, Works, Fails
<1> USE DEF TxIn, Committing, TakingItBack, Following, Switched, Advanced, Begun, Held
<1>2. ConfigTypeOK'
  BY <1>1
     DEF ConfigIInv, ConfigTypeOK, PACState
<1>3. KindOfStage' /\ BootAt' /\ MemoryAndFile'
  BY <1>1
     DEF ConfigIInv, KindOfStage, BootAt, MemoryAndFile, SamePlace
<1>4. ClaimHeld' /\ TheirsKept'
  BY <1>1
     DEF ConfigIInv, ClaimHeld, Switching, TheirsKept, Accounted, Untaken, Taken
<1>5. ~told' => ProxyAt' /\ ControlAt' /\ EntryAt'
  BY <1>1
     DEF ConfigIInv, KindOfStage, MemoryAndFile, ProxyAt, ControlAt, EntryAt, EntryOf,
         SamePlace
<1>6. ~told' /\ ~crashed' /\ ~overtaken' => AddressAt'
  BY <1>1
     DEF ConfigIInv, KindOfStage, MemoryAndFile, AddressAt, AddressOf, OthersKept, OursKnown,
         SamePlace
<1> QED  BY <1>2, <1>3, <1>4, <1>5, <1>6 DEF ConfigIInv

\* The directory of the cache.
LEMMA SetBaseIInv ==
  ASSUME ConfigIInv, SetCacheBase
  PROVE  ConfigIInv'
<1>0. TxAt("runtime")
  BY DEF SetCacheBase
<1>1. /\ Held("runtime")
      /\ UNCHANGED <<cfg, disk, alive, lport, cport, autostart, pac, maintenance, theirs,
                     told, spoiled, crashed, loaded, boot, overtaken, stale, early>>
      /\ Advanced("pac")
      /\ base' = IF tx.new.dir # tx.old.dir THEN tx.new.dir ELSE base
  BY <1>0, Holding, Advancing
     DEF SetCacheBase, runtimeVars, bootVars, pacHistory, Stages, End, Works, Fails
<1> USE DEF TxIn, Committing, TakingItBack, Following, Switched, Advanced, Begun, Held
<1>2. ConfigTypeOK'
  BY <1>1
     DEF ConfigIInv, ConfigTypeOK, PACState
<1>3. KindOfStage' /\ BootAt' /\ MemoryAndFile'
  BY <1>1
     DEF ConfigIInv, KindOfStage, BootAt, MemoryAndFile, SamePlace
<1>4. ClaimHeld' /\ TheirsKept'
  BY <1>1
     DEF ConfigIInv, ClaimHeld, Switching, TheirsKept, Accounted, Untaken, Taken
<1>5. ~told' => ProxyAt' /\ ControlAt' /\ EntryAt'
  BY <1>1
     DEF ConfigIInv, KindOfStage, MemoryAndFile, ProxyAt, ControlAt, EntryAt, EntryOf,
         SamePlace
<1>6. ~told' /\ ~crashed' /\ ~overtaken' => AddressAt'
  BY <1>1
     DEF ConfigIInv, KindOfStage, MemoryAndFile, AddressAt, AddressOf, OthersKept, OursKnown,
         SamePlace
<1> QED  BY <1>2, <1>3, <1>4, <1>5, <1>6 DEF ConfigIInv

\* What went back is committed, ...
LEMMA RecommitIInv ==
  ASSUME ConfigIInv, Recommit
  PROVE  ConfigIInv'
<1>0. TxAt("recommit")
  BY DEF Recommit, Memory
<1>1. /\ Held("recommit")
      /\ UNCHANGED <<disk, alive, lport, cport, base, autostart, pac, maintenance, theirs,
                     told, spoiled, crashed, loaded, boot, overtaken, stale, early>>
      /\ Advanced("resave") /\ cfg' = tx.new
  BY <1>0, Holding, Advancing
     DEF Recommit, Memory, runtimeVars, bootVars, pacHistory, Stages, End, Works, Fails
<1> USE DEF TxIn, Committing, TakingItBack, Following, Switched, Advanced, Begun, Held
<1>2. ConfigTypeOK'
  BY <1>1
     DEF ConfigIInv, ConfigTypeOK, PACState
<1>3. KindOfStage' /\ BootAt' /\ MemoryAndFile'
  BY <1>1
     DEF ConfigIInv, KindOfStage, BootAt, MemoryAndFile, SamePlace
<1>4. ClaimHeld' /\ TheirsKept'
  BY <1>1
     DEF ConfigIInv, ClaimHeld, Switching, TheirsKept, Accounted, Untaken, Taken
<1>5. ~told' => ProxyAt' /\ ControlAt' /\ EntryAt'
  BY <1>1
     DEF ConfigIInv, KindOfStage, MemoryAndFile, ProxyAt, ControlAt, EntryAt, EntryOf,
         SamePlace
<1>6. ~told' /\ ~crashed' /\ ~overtaken' => AddressAt'
  BY <1>1
     DEF ConfigIInv, KindOfStage, MemoryAndFile, AddressAt, AddressOf, OthersKept, OursKnown,
         SamePlace
<1> QED  BY <1>2, <1>3, <1>4, <1>5, <1>6 DEF ConfigIInv

\* ... unless nothing did.
LEMMA NoRecommitIInv ==
  ASSUME ConfigIInv, NoRecommit
  PROVE  ConfigIInv'
<1>0. TxAt("recommit")
  BY DEF NoRecommit
<1>1. /\ Held("recommit")
      /\ UNCHANGED <<cfg, disk, alive, lport, cport, base, autostart, pac, maintenance,
                     theirs, told, spoiled, crashed, loaded, boot, overtaken, stale, early>>
      /\ ~tx.again /\ tx' = NoTx
  BY <1>0, Holding, Advancing
     DEF NoRecommit, runtimeVars, bootVars, pacHistory, Stages, End, Works, Fails
<1> USE DEF TxIn, Committing, TakingItBack, Following, Switched, Advanced, Begun, Held
<1>2. ConfigTypeOK'
  BY <1>1
     DEF ConfigIInv, ConfigTypeOK, PACState
<1>3. KindOfStage' /\ BootAt' /\ MemoryAndFile'
  BY <1>1
     DEF ConfigIInv, KindOfStage, BootAt, MemoryAndFile, SamePlace
<1>4. ClaimHeld' /\ TheirsKept'
  BY <1>1
     DEF ConfigIInv, ClaimHeld, Switching, TheirsKept, Accounted, Untaken, Taken
<1>5. ~told' => ProxyAt' /\ ControlAt' /\ EntryAt'
  BY <1>1
     DEF ConfigIInv, KindOfStage, MemoryAndFile, ProxyAt, ControlAt, EntryAt, EntryOf,
         SamePlace
<1>6. ~told' /\ ~crashed' /\ ~overtaken' => AddressAt'
  BY <1>1
     DEF ConfigIInv, KindOfStage, MemoryAndFile, AddressAt, AddressOf, OthersKept, OursKnown,
         SamePlace
<1> QED  BY <1>2, <1>3, <1>4, <1>5, <1>6 DEF ConfigIInv

\* ... and saved.
LEMMA SaveAgainIInv ==
  ASSUME ConfigIInv, SaveAgain
  PROVE  ConfigIInv'
<1>0. TxAt("resave")
  BY DEF SaveAgain
<1>1. /\ Held("resave")
      /\ UNCHANGED <<alive, lport, cport, base, autostart, pac, maintenance, theirs,
                     spoiled, crashed, loaded, boot, overtaken, stale, early>>
      /\ tx' = NoTx
      /\ \/ disk' = cfg /\ cfg' = cfg /\ told' = told
         \/ cfg' = disk /\ told' = TRUE /\ disk' = disk
  BY <1>0, Holding, Advancing
     DEF SaveAgain, runtimeVars, bootVars, pacHistory, Stages, End, Works, Fails
<1> USE DEF TxIn, Committing, TakingItBack, Following, Switched, Advanced, Begun, Held
<1>2. ConfigTypeOK'
  BY <1>1
     DEF ConfigIInv, ConfigTypeOK, PACState
<1>3. KindOfStage' /\ BootAt' /\ MemoryAndFile'
  BY <1>1
     DEF ConfigIInv, KindOfStage, BootAt, MemoryAndFile, SamePlace
<1>4. ClaimHeld' /\ TheirsKept'
  BY <1>1
     DEF ConfigIInv, ClaimHeld, Switching, TheirsKept, Accounted, Untaken, Taken
<1>5. ~told' => ProxyAt' /\ ControlAt' /\ EntryAt'
  BY <1>1
     DEF ConfigIInv, KindOfStage, MemoryAndFile, ProxyAt, ControlAt, EntryAt, EntryOf,
         SamePlace
<1>6. ~told' /\ ~crashed' /\ ~overtaken' => AddressAt'
  BY <1>1
     DEF ConfigIInv, KindOfStage, MemoryAndFile, AddressAt, AddressOf, OthersKept, OursKnown,
         SamePlace
<1> QED  BY <1>2, <1>3, <1>4, <1>5, <1>6 DEF ConfigIInv

\* UpdateWithError: the memory, ...
LEMMA UpdateMemoryIInv ==
  ASSUME ConfigIInv, Update
  PROVE  ConfigIInv'
<1>0. TxAt("update")
  BY DEF Update, Memory
<1>1. /\ Held("update")
      /\ UNCHANGED <<disk, alive, lport, cport, base, autostart, pac, maintenance, theirs,
                     told, spoiled, crashed, loaded, boot, overtaken, stale, early>>
      /\ Advanced("updateSave") /\ cfg' = tx.new
  BY <1>0, Holding, Advancing
     DEF Update, Memory, runtimeVars, bootVars, pacHistory, Stages, End, Works, Fails
<1> USE DEF TxIn, Committing, TakingItBack, Following, Switched, Advanced, Begun, Held
<1>2. ConfigTypeOK'
  BY <1>1
     DEF ConfigIInv, ConfigTypeOK, PACState
<1>3. KindOfStage' /\ BootAt' /\ MemoryAndFile'
  BY <1>1
     DEF ConfigIInv, KindOfStage, BootAt, MemoryAndFile, SamePlace
<1>4. ClaimHeld' /\ TheirsKept'
  BY <1>1
     DEF ConfigIInv, ClaimHeld, Switching, TheirsKept, Accounted, Untaken, Taken
<1>5. ~told' => ProxyAt' /\ ControlAt' /\ EntryAt'
  BY <1>1
     DEF ConfigIInv, KindOfStage, MemoryAndFile, ProxyAt, ControlAt, EntryAt, EntryOf,
         SamePlace
<1>6. ~told' /\ ~crashed' /\ ~overtaken' => AddressAt'
  BY <1>1
     DEF ConfigIInv, KindOfStage, MemoryAndFile, AddressAt, AddressOf, OthersKept, OursKnown,
         SamePlace
<1> QED  BY <1>2, <1>3, <1>4, <1>5, <1>6 DEF ConfigIInv

\* ... and the file.
LEMMA SaveUpdateIInv ==
  ASSUME ConfigIInv, SaveUpdate
  PROVE  ConfigIInv'
<1>0. TxAt("updateSave")
  BY DEF SaveUpdate
<1>1. /\ Held("updateSave")
      /\ UNCHANGED <<alive, lport, cport, base, autostart, pac, maintenance, theirs, told,
                     spoiled, crashed, loaded, boot, overtaken, stale, early>>
      /\ \/ tx' = NoTx /\ disk' = cfg /\ cfg' = cfg
         \/ Advanced("putBack") /\ cfg' = tx.old /\ disk' = disk
  BY <1>0, Holding, Advancing
     DEF SaveUpdate, runtimeVars, bootVars, pacHistory, Stages, End, Works, Fails
<1> USE DEF TxIn, Committing, TakingItBack, Following, Switched, Advanced, Begun, Held
<1>2. ConfigTypeOK'
  BY <1>1
     DEF ConfigIInv, ConfigTypeOK, PACState
<1>3. KindOfStage' /\ BootAt' /\ MemoryAndFile'
  BY <1>1
     DEF ConfigIInv, KindOfStage, BootAt, MemoryAndFile, SamePlace
<1>4. ClaimHeld' /\ TheirsKept'
  BY <1>1
     DEF ConfigIInv, ClaimHeld, Switching, TheirsKept, Accounted, Untaken, Taken
<1>5. ~told' => ProxyAt' /\ ControlAt' /\ EntryAt'
  BY <1>1
     DEF ConfigIInv, KindOfStage, MemoryAndFile, ProxyAt, ControlAt, EntryAt, EntryOf,
         SamePlace
<1>6. ~told' /\ ~crashed' /\ ~overtaken' => AddressAt'
  BY <1>1
     DEF ConfigIInv, KindOfStage, MemoryAndFile, AddressAt, AddressOf, OthersKept, OursKnown,
         SamePlace
<1> QED  BY <1>2, <1>3, <1>4, <1>5, <1>6 DEF ConfigIInv

\* Cache maintenance comes and goes.
LEMMA ToggleIInv ==
  ASSUME ConfigIInv, ToggleMaintenance
  PROVE  ConfigIInv'
<1>1. /\ alive /\ ~Switching /\ maintenance' = ~maintenance /\ tx' = tx
      /\ UNCHANGED <<cfg, disk, alive, lport, cport, base, autostart, pac, theirs, told,
                     spoiled, crashed, loaded, boot, overtaken, stale, early>>
  BY DEF ToggleMaintenance, runtimeVars, bootVars, pacHistory
<1> USE DEF TxIn, Committing, TakingItBack, Following, Switched, Advanced, Begun, Held
<1>2. ConfigTypeOK'
  BY <1>1
     DEF ConfigIInv, ConfigTypeOK, PACState
<1>3. KindOfStage' /\ BootAt' /\ MemoryAndFile'
  BY <1>1
     DEF ConfigIInv, KindOfStage, BootAt, MemoryAndFile, SamePlace
<1>4. ClaimHeld' /\ TheirsKept'
  BY <1>1
     DEF ConfigIInv, ClaimHeld, Switching, TheirsKept, Accounted, Untaken, Taken
<1>5. ~told' => ProxyAt' /\ ControlAt' /\ EntryAt'
  BY <1>1
     DEF ConfigIInv, KindOfStage, MemoryAndFile, ProxyAt, ControlAt, EntryAt, EntryOf,
         SamePlace
<1>6. ~told' /\ ~crashed' /\ ~overtaken' => AddressAt'
  BY <1>1
     DEF ConfigIInv, KindOfStage, MemoryAndFile, AddressAt, AddressOf, OthersKept, OursKnown,
         SamePlace
<1> QED  BY <1>2, <1>3, <1>4, <1>5, <1>6 DEF ConfigIInv

\* The tray reads the configuration in memory, ...
LEMMA TrayIInv ==
  ASSUME ConfigIInv, TrayStarts \/ TrayStops
  PROVE  ConfigIInv'
<1>1. /\ alive /\ tx' = tx /\ cfg.port \in Ports
      /\ \/ lport' = cfg.port /\ early' = (TxAt("save") \/ TxAt("undo"))
         \/ lport' = 0 /\ early' = FALSE
      /\ UNCHANGED <<cfg, disk, alive, cport, base, autostart, pac, maintenance, theirs,
                     told, spoiled, crashed, loaded, boot, overtaken, stale>>
  BY SettingFields DEF TrayStarts, TrayStops, bootVars, pacHistory, ConfigIInv, ConfigTypeOK
<1> USE DEF TxAt, TxIn, Committing, TakingItBack, Following, Switched, Advanced, Begun, Held
<1>2. ConfigTypeOK'
  BY <1>1
     DEF ConfigIInv, ConfigTypeOK, PACState
<1>3. KindOfStage' /\ BootAt' /\ MemoryAndFile'
  BY <1>1
     DEF ConfigIInv, KindOfStage, BootAt, MemoryAndFile, SamePlace
<1>4. ClaimHeld' /\ TheirsKept'
  BY <1>1
     DEF ConfigIInv, ClaimHeld, Switching, TheirsKept, Accounted, Untaken, Taken
<1>5. ~told' => ProxyAt' /\ ControlAt' /\ EntryAt'
  BY <1>1
     DEF ConfigIInv, KindOfStage, MemoryAndFile, ProxyAt, ControlAt, EntryAt, EntryOf,
         SamePlace
<1>6. ~told' /\ ~crashed' /\ ~overtaken' => AddressAt'
  BY <1>1
     DEF ConfigIInv, KindOfStage, MemoryAndFile, AddressAt, AddressOf, OthersKept, OursKnown,
         SamePlace
<1> QED  BY <1>2, <1>3, <1>4, <1>5, <1>6 DEF ConfigIInv

\* The PAC address.  When it cannot be set the switch goes back, which is told if
\* an old address stays in the system.
LEMMA SyncPACIInv ==
  ASSUME ConfigIInv, SyncPAC
  PROVE  ConfigIInv'
<1>0. /\ TxAt("pac") /\ Held("pac") /\ tx \in Transactions /\ ~tx.again
      /\ cfg = tx.new /\ disk = cfg
      /\ tx.new.pac \in BOOLEAN /\ tx.old.pac \in BOOLEAN /\ pac \in PACState
      /\ theirs \in Foreign \union {NoPAC}
  <2>1. TxAt("pac")
    BY DEF SyncPAC
  <2>2. Held("pac") /\ tx \in Transactions
    BY <2>1, Holding
  <2> QED  BY <2>1, <2>2, SettingFields
           DEF ConfigIInv, ConfigTypeOK, MemoryAndFile, TheirsKept, TxIn, TxAt, Held,
               Committing
<1>1. UNCHANGED <<cfg, disk, alive, lport, cport, base, autostart, maintenance, theirs, spoiled,
                  stale, loaded, boot, overtaken, early, crashed>>
  BY DEF SyncPAC, bootVars, pacHistory
<1>2. /\ tx' \in Transactions /\ tx' # NoTx /\ tx'.at = "startup" /\ tx'.kind = tx.kind
      /\ tx'.old = tx.old /\ tx'.new \in Settings /\ SamePlace(tx'.new, tx.new)
      /\ tx'.new.start = tx.new.start /\ (~tx'.again => tx'.new = tx.new)
      /\ \/ GoOn("startup") /\ tx'.new = tx.new
         \/ tx'.new.pac = tx.old.pac
  <2>1. CASE GoOn("startup")
    <3>1. Advanced("startup")
      BY <1>0, <2>1, Advancing DEF Stages
    <3> QED  BY <1>0, <2>1, <3>1 DEF Advanced, Held, SamePlace
  <2>2. CASE tx' = [tx EXCEPT !.at = "startup", !.new.pac = tx.old.pac,
                              !.again = (tx.new.pac # tx.old.pac)]
    <3>1. [tx.new EXCEPT !.pac = tx.old.pac] \in Settings
      BY <1>0, SettingsAssumption DEF Held
    <3>2. tx' = [kind |-> tx.kind, at |-> "startup", old |-> tx.old,
                 new |-> [tx.new EXCEPT !.pac = tx.old.pac],
                 again |-> (tx.new.pac # tx.old.pac)]
      BY <1>0, <2>2 DEF Transactions
    <3>3. tx' \in Transactions
      BY <1>0, <3>1, <3>2 DEF Transactions, Stages
    <3>4. /\ SamePlace(tx'.new, tx.new) /\ tx'.new.start = tx.new.start
          /\ tx'.new.pac = tx.old.pac /\ (tx.new.pac = tx.old.pac => tx'.new = tx.new)
      <4>1. tx.new \in [port : Ports, cport : {s.cport : s \in Settings},
                        dir : {s.dir : s \in Settings}, pac : BOOLEAN, start : BOOLEAN]
        BY <1>0, SettingsAssumption DEF Held
      <4> QED  BY <3>2, <4>1 DEF SamePlace
    <3> QED  BY <3>1, <3>2, <3>3, <3>4, NoTxAssumption
  <2> QED  BY <2>1, <2>2 DEF SyncPAC
<1>3. /\ pac' \in PACState /\ told' \in BOOLEAN
      /\ ~spoiled /\ ~stale => Accounted(pac', theirs)
      /\ ~told' => ~told
      /\ ~told' /\ OursKnown(pac) /\ OthersKept(pac) /\ AddressOf(tx.old) =>
           /\ OursKnown(pac') /\ OthersKept(pac')
           /\ pac'.sys \in Ports => tx'.new.pac /\ pac'.sys = tx'.new.port
  <2>0. told \in BOOLEAN /\ (~spoiled /\ ~stale => Accounted(pac, theirs))
    BY DEF ConfigIInv, ConfigTypeOK, TheirsKept
  <2>1. CASE ~NeedsPAC /\ GoOn("startup") /\ UNCHANGED <<pac, told>>
    <3>1. tx'.new = tx.new
      BY <1>0, <2>1, Advancing DEF Advanced, Stages
    <3> QED  BY <1>0, <2>0, <2>1, <3>1 DEF NeedsPAC, AddressOf
  <2>2. CASE GoOn("startup") /\ UNCHANGED told /\ SwitchPAC(tx.new.pac, tx.new.port)
    <3>1. tx'.new = tx.new
      BY <1>0, <2>2, Advancing DEF Advanced, Stages
    <3> QED  BY <1>0, <2>0, <2>2, <3>1, SwitchingPAC DEF Held
  <2>3. CASE /\ NeedsPAC /\ PACFails(tx.new.pac, tx.new.port)
             /\ told' = (told \/ tx.old.pac) /\ tx'.new.pac = tx.old.pac
             /\ SamePlace(tx'.new, tx.new)
    <3>1. /\ pac' \in PACState /\ pac'.sys = pac.sys
          /\ ~spoiled /\ ~stale => Accounted(pac', theirs)
          /\ OursKnown(pac) /\ OthersKept(pac) => OursKnown(pac') /\ OthersKept(pac')
      BY <1>0, <2>3, PACFailing DEF Held
    <3>2. ~told' /\ AddressOf(tx.old) => pac.sys \notin Ports /\ ~told
      BY <1>0, <2>3 DEF AddressOf
    <3> QED  BY <1>0, <2>0, <2>3, <3>1, <3>2
  <2>4. \/ /\ GoOn("startup") /\ UNCHANGED told
           /\ IF NeedsPAC THEN SwitchPAC(tx.new.pac, tx.new.port) ELSE UNCHANGED pac
        \/ /\ NeedsPAC /\ PACFails(tx.new.pac, tx.new.port) /\ told' = (told \/ tx.old.pac)
           /\ tx' = [tx EXCEPT !.at = "startup", !.new.pac = tx.old.pac,
                               !.again = (tx.new.pac # tx.old.pac)]
    BY DEF SyncPAC
  <2>5. tx' = [tx EXCEPT !.at = "startup", !.new.pac = tx.old.pac,
                         !.again = (tx.new.pac # tx.old.pac)] => tx'.new.pac = tx.old.pac
    <3>1. tx.new \in [port : Ports, cport : {s.cport : s \in Settings},
                      dir : {s.dir : s \in Settings}, pac : BOOLEAN, start : BOOLEAN]
      BY <1>0, SettingsAssumption DEF Held
    <3> QED  BY <1>0, <3>1 DEF Transactions
  <2> QED  BY <1>2, <2>1, <2>2, <2>3, <2>4, <2>5
<1> USE DEF TxIn, Committing, TakingItBack, Following, Switched, Held
<1>4. ConfigTypeOK'
  BY <1>0, <1>1, <1>2, <1>3 DEF ConfigIInv, ConfigTypeOK, SyncPAC
<1>5. KindOfStage' /\ BootAt' /\ MemoryAndFile'
  BY <1>0, <1>1, <1>2 DEF ConfigIInv, KindOfStage, BootAt, MemoryAndFile, SamePlace
<1>6. ClaimHeld' /\ TheirsKept'
  BY <1>0, <1>1, <1>2, <1>3
     DEF ConfigIInv, KindOfStage, ClaimHeld, Switching, TheirsKept, SamePlace
<1>7. ~told' => ProxyAt' /\ ControlAt' /\ EntryAt'
  BY <1>0, <1>1, <1>2, <1>3
     DEF ConfigIInv, KindOfStage, ProxyAt, ControlAt, EntryAt, EntryOf, SamePlace
<1>8. ~told' /\ ~crashed' /\ ~overtaken' => AddressAt'
  <2> SUFFICES ASSUME ~told', ~crashed', ~overtaken' PROVE AddressAt'
    OBVIOUS
  <2>1. AddressAt /\ alive /\ boot = "over" /\ ~told
    BY <1>0, <1>1, <1>3 DEF ConfigIInv, KindOfStage, BootAt
  <2>2. OursKnown(pac) /\ OthersKept(pac) /\ AddressOf(tx.old)
    BY <1>0, <2>1 DEF AddressAt
  <2> QED  BY <1>0, <1>1, <1>2, <1>3, <2>1, <2>2 DEF AddressAt, AddressOf
<1> QED  BY <1>4, <1>5, <1>6, <1>7, <1>8 DEF ConfigIInv

\* The entry of the system.  When it cannot be set that switch goes back.
LEMMA SyncStartupIInv ==
  ASSUME ConfigIInv, SyncStartup
  PROVE  ConfigIInv'
<1>0. TxAt("startup") /\ Held("startup") /\ tx \in Transactions
  BY Holding DEF SyncStartup
<1>1. /\ tx' \in Transactions /\ tx' # NoTx /\ tx'.at = "recommit" /\ tx'.kind = tx.kind
      /\ tx'.old = tx.old /\ tx'.new \in Settings /\ SamePlace(tx'.new, tx.new)
      /\ tx'.new.pac = tx.new.pac /\ (~tx'.again => ~tx.again /\ tx'.new = tx.new)
      /\ \/ /\ tx'.new.start = tx.new.start
            /\ autostart' = IF tx.new.start # tx.old.start THEN tx.new.start ELSE autostart
         \/ tx'.new.start = tx.old.start /\ autostart' = autostart
      /\ UNCHANGED <<cfg, disk, alive, lport, cport, base, pac, maintenance, theirs, told,
                     spoiled, stale, loaded, boot, overtaken, early, crashed>>
  <2>0. UNCHANGED <<cfg, disk, alive, lport, cport, base, pac, maintenance, theirs, told,
                    spoiled, stale, loaded, boot, overtaken, early, crashed>>
    BY DEF SyncStartup, bootVars, pacHistory
  <2>1. CASE /\ GoOn("recommit")
             /\ autostart' = IF tx.new.start # tx.old.start THEN tx.new.start ELSE autostart
    <3>1. Advanced("recommit")
      BY <1>0, <2>1, Advancing DEF Stages
    <3> QED  BY <1>0, <2>0, <2>1, <3>1 DEF Advanced, Held, SamePlace
  <2>2. CASE /\ autostart' = autostart
             /\ tx' = [tx EXCEPT !.at = "recommit", !.new.start = tx.old.start, !.again = TRUE]
    <3>1. [tx.new EXCEPT !.start = tx.old.start] \in Settings
      BY <1>0, SettingsAssumption DEF Held
    <3>2. tx' = [kind |-> tx.kind, at |-> "recommit", old |-> tx.old,
                 new |-> [tx.new EXCEPT !.start = tx.old.start], again |-> TRUE]
      BY <1>0, <2>2 DEF Transactions
    <3>3. tx' \in Transactions
      BY <1>0, <3>1, <3>2 DEF Transactions, Stages
    <3>4. /\ SamePlace(tx'.new, tx.new) /\ tx'.new.pac = tx.new.pac
          /\ tx'.new.start = tx.old.start
      <4>1. tx.new \in [port : Ports, cport : {s.cport : s \in Settings},
                        dir : {s.dir : s \in Settings}, pac : BOOLEAN, start : BOOLEAN]
        BY <1>0, SettingsAssumption DEF Held
      <4> QED  BY <3>2, <4>1 DEF SamePlace
    <3> QED  BY <2>0, <2>2, <3>1, <3>2, <3>3, <3>4, NoTxAssumption
  <2> QED  BY <2>1, <2>2 DEF SyncStartup
<1> USE <1>0 DEF TxIn, Committing, TakingItBack, Following, Switched, Held
<1>2. ConfigTypeOK'
  BY <1>1 DEF ConfigIInv, ConfigTypeOK, PACState
<1>3. KindOfStage' /\ BootAt' /\ MemoryAndFile'
  BY <1>1 DEF ConfigIInv, KindOfStage, BootAt, MemoryAndFile, SamePlace
<1>4. ClaimHeld' /\ TheirsKept'
  BY <1>1 DEF ConfigIInv, KindOfStage, ClaimHeld, Switching, TheirsKept, Accounted, Untaken,
              Taken, SamePlace
<1>5. ~told' => ProxyAt' /\ ControlAt' /\ EntryAt'
  BY <1>1 DEF ConfigIInv, KindOfStage, ProxyAt, ControlAt, EntryAt, EntryOf, SamePlace
<1>6. ~told' /\ ~crashed' /\ ~overtaken' => AddressAt'
  BY <1>1 DEF ConfigIInv, KindOfStage, AddressAt, AddressOf, OthersKept, OursKnown, SamePlace
<1> QED  BY <1>2, <1>3, <1>4, <1>5, <1>6 DEF ConfigIInv

\* The handlers of one switch set it in the system first; when that fails nothing
\* else happens.
LEMMA SetStartupIInv ==
  ASSUME ConfigIInv, NEW on \in BOOLEAN, SetStartup(on)
  PROVE  ConfigIInv'
<1> DEFINE new == [cfg EXCEPT !.start = on]
<1>1. cfg \in Settings
  BY DEF ConfigIInv, ConfigTypeOK
<1>2. new \in Settings /\ SamePlace(cfg, new) /\ new.pac = cfg.pac /\ new.start = on
  <2>1. cfg \in [port : Ports, cport : {s.cport : s \in Settings},
                 dir : {s.dir : s \in Settings}, pac : BOOLEAN, start : BOOLEAN]
    BY <1>1, SettingsAssumption
  <2> QED  BY <2>1, <1>1, SettingsAssumption DEF SamePlace
<1> HIDE DEF new
<1>3. /\ alive /\ tx = NoTx /\ overtaken' = (overtaken \/ boot # "over")
      /\ \/ autostart' = on /\ Begun("startup", new, "update")
         \/ autostart' = autostart /\ tx' = NoTx
      /\ UNCHANGED <<cfg, disk, alive, lport, cport, base, pac, maintenance, theirs, told,
                     spoiled, stale, loaded, boot, early, crashed>>
  BY <1>2, Beginning
     DEF SetStartup, Begins, Overtakes, Kinds, Stages, new, pacHistory
<1> USE <1>2, <1>3 DEF TxIn, Committing, TakingItBack, Following, Switched, Begun
<1>4. ConfigTypeOK'
  BY DEF ConfigIInv, ConfigTypeOK
<1>5. KindOfStage' /\ BootAt' /\ MemoryAndFile'
  BY DEF ConfigIInv, KindOfStage, BootAt, MemoryAndFile, SamePlace
<1>6. ClaimHeld' /\ TheirsKept'
  BY DEF ConfigIInv, ClaimHeld, Switching, TheirsKept, Accounted, Untaken, Taken
<1>7. ~told' => ProxyAt' /\ ControlAt' /\ EntryAt'
  <2>1. ~told' => ProxyAt' /\ ControlAt'
    BY DEF ConfigIInv, ProxyAt, ControlAt, SamePlace
  <2>2. ASSUME ~told', EntryAt, autostart' = on, Begun("startup", new, "update") PROVE EntryAt'
    BY <2>2 DEF EntryAt, EntryOf
  <2>3. ASSUME ~told', EntryAt, autostart' = autostart, tx' = NoTx PROVE EntryAt'
    BY <2>3 DEF EntryAt, EntryOf
  <2> QED  BY <2>1, <2>2, <2>3 DEF ConfigIInv
<1>8. ~told' /\ ~crashed' /\ ~overtaken' => AddressAt'
  BY DEF ConfigIInv, AddressAt, AddressOf, OthersKept, OursKnown, SamePlace
<1> QED  BY <1>4, <1>5, <1>6, <1>7, <1>8 DEF ConfigIInv

LEMMA SetPACIInv ==
  ASSUME ConfigIInv, NEW on \in BOOLEAN, SetPAC(on)
  PROVE  ConfigIInv'
<1> DEFINE new == [cfg EXCEPT !.pac = on]
<1>1. /\ cfg \in Settings /\ pac \in PACState /\ cfg.port \in Ports
      /\ theirs \in Foreign \union {NoPAC}
  BY SettingFields DEF ConfigIInv, ConfigTypeOK, TheirsKept
<1>2. new \in Settings /\ SamePlace(cfg, new) /\ new.pac = on /\ new.start = cfg.start
  <2>1. cfg \in [port : Ports, cport : {s.cport : s \in Settings},
                 dir : {s.dir : s \in Settings}, pac : BOOLEAN, start : BOOLEAN]
    BY <1>1, SettingsAssumption
  <2> QED  BY <2>1, <1>1, SettingsAssumption DEF SamePlace
<1> HIDE DEF new
<1>3. /\ alive /\ tx = NoTx /\ overtaken' = (overtaken \/ boot # "over")
      /\ \/ Begun("pac", new, "update") /\ SwitchPAC(on, cfg.port)
         \/ tx' = NoTx /\ PACFails(on, cfg.port)
      /\ UNCHANGED <<cfg, disk, alive, lport, cport, base, autostart, maintenance, theirs, told,
                     spoiled, stale, loaded, boot, early, crashed>>
  BY <1>2, Beginning
     DEF SetPAC, Begins, Overtakes, Kinds, Stages, new, pacHistory
<1>4. /\ pac' \in PACState
      /\ ~spoiled /\ ~stale => Accounted(pac', theirs)
      /\ OursKnown(pac) /\ OthersKept(pac) =>
           /\ OursKnown(pac') /\ OthersKept(pac')
           /\ tx' # NoTx => (pac'.sys \in Ports => on /\ pac'.sys = cfg.port)
           /\ tx' = NoTx => pac'.sys = pac.sys
  <2>1. CASE Begun("pac", new, "update") /\ SwitchPAC(on, cfg.port)
    BY <1>1, <2>1, SwitchingPAC DEF Begun
  <2>2. CASE tx' = NoTx /\ PACFails(on, cfg.port)
    BY <1>1, <2>2, PACFailing
  <2> QED  BY <1>3, <2>1, <2>2
<1>5. tx' = NoTx \/ Begun("pac", new, "update")
  BY <1>3
<1> USE <1>2, <1>4, <1>5 DEF TxIn, Committing, TakingItBack, Following, Switched, Begun
<1>6. ConfigTypeOK'
  BY <1>3 DEF ConfigIInv, ConfigTypeOK
<1>7. KindOfStage' /\ BootAt' /\ MemoryAndFile'
  BY <1>3 DEF ConfigIInv, KindOfStage, BootAt, MemoryAndFile, SamePlace
<1>8. ClaimHeld' /\ TheirsKept'
  BY <1>3 DEF ConfigIInv, ClaimHeld, Switching, TheirsKept
<1>9. ~told' => ProxyAt' /\ ControlAt' /\ EntryAt'
  BY <1>3 DEF ConfigIInv, ProxyAt, ControlAt, EntryAt, EntryOf, SamePlace
<1>10. ~told' /\ ~crashed' /\ ~overtaken' => AddressAt'
  <2> SUFFICES ASSUME ~told', ~crashed', ~overtaken' PROVE AddressAt'
    OBVIOUS
  <2>1. AddressAt /\ boot = "over" /\ alive
    BY <1>3 DEF ConfigIInv
  <2>2. OursKnown(pac) /\ OthersKept(pac) /\ AddressOf(cfg)
    BY <1>3, <2>1 DEF AddressAt
  <2> QED  BY <1>3, <2>1, <2>2 DEF AddressAt, AddressOf, SamePlace
<1> QED  BY <1>6, <1>7, <1>8, <1>9, <1>10 DEF ConfigIInv

\* When the file cannot be written the system is put back.
LEMMA PutBackIInv ==
  ASSUME ConfigIInv, PutBack
  PROVE  ConfigIInv'
<1>0. /\ TxAt("putBack") /\ Held("putBack") /\ pac \in PACState
      /\ theirs \in Foreign \union {NoPAC} /\ tx.old.pac \in BOOLEAN
      /\ cfg = tx.old /\ disk = tx.old /\ tx.kind \in {"startup", "pac"}
      /\ SamePlace(tx.old, tx.new) /\ alive
      /\ tx.kind = "startup" => tx.old.pac = tx.new.pac
      /\ tx.kind = "pac" => tx.old.start = tx.new.start
  <2>1. TxAt("putBack")
    BY DEF PutBack
  <2>2. Held("putBack")
    BY <2>1, Holding
  <2> QED  BY <2>1, <2>2, SettingFields
           DEF ConfigIInv, ConfigTypeOK, KindOfStage, MemoryAndFile, TheirsKept, TxIn, TxAt, Held,
               Kinds, Committing, TakingItBack, Following
<1>1. /\ tx' = NoTx
      /\ UNCHANGED <<cfg, disk, alive, lport, cport, base, maintenance, theirs, spoiled, stale,
                     loaded, boot, overtaken, early, crashed>>
  BY DEF PutBack, End, bootVars, pacHistory
<1>2. /\ autostart' \in BOOLEAN /\ told' \in BOOLEAN
      /\ ~told' => ~told
      /\ ~told' => autostart' = (IF tx.kind = "startup" THEN tx.old.start ELSE autostart)
      /\ \/ PutsPACBack /\ SwitchPAC(tx.old.pac, tx.old.port)
         \/ ~PutsPACBack /\ pac' = pac
         \/ told' /\ pac' = pac
         \/ told' /\ PACFails(tx.old.pac, tx.old.port)
  <2>1. autostart \in BOOLEAN /\ told \in BOOLEAN /\ tx.old.start \in BOOLEAN
    BY <1>0 DEF ConfigIInv, ConfigTypeOK, Held
  <2>2. CASE /\ told' = told
             /\ autostart' = IF tx.kind = "startup" THEN tx.old.start ELSE autostart
             /\ IF PutsPACBack THEN SwitchPAC(tx.old.pac, tx.old.port) ELSE UNCHANGED pac
    BY <2>1, <2>2
  <2>3. CASE /\ told' = TRUE /\ autostart' = autostart
             /\ pac' = pac \/ PACFails(tx.old.pac, tx.old.port)
    BY <2>1, <2>3
  <2> QED  BY <2>2, <2>3 DEF PutBack
<1>3. /\ pac' \in PACState
      /\ ~spoiled /\ ~stale => Accounted(pac', theirs)
      /\ ~told' /\ OursKnown(pac) /\ OthersKept(pac) /\ AddressOf(tx.new) =>
           /\ OursKnown(pac') /\ OthersKept(pac')
           /\ pac'.sys \in Ports => tx.old.pac /\ pac'.sys = tx.old.port
  <2>0. ~spoiled /\ ~stale => Accounted(pac, theirs)
    BY DEF ConfigIInv, TheirsKept
  <2>1. CASE PutsPACBack /\ SwitchPAC(tx.old.pac, tx.old.port)
    BY <1>0, <2>1, SwitchingPAC DEF Held
  <2>2. CASE ~PutsPACBack /\ pac' = pac
    <3>1. tx.kind = "pac" => ~tx.new.pac
      BY <2>2 DEF PutsPACBack
    <3> QED  BY <1>0, <2>0, <2>2, <3>1 DEF AddressOf, SamePlace
  <2>3. CASE told' /\ pac' = pac
    BY <1>0, <2>0, <2>3
  <2>4. CASE told' /\ PACFails(tx.old.pac, tx.old.port)
    BY <1>0, <2>4, PACFailing DEF Held
  <2> QED  BY <1>2, <2>1, <2>2, <2>3, <2>4
<1> USE <1>0, <1>1, <1>3 DEF TxIn, Committing, TakingItBack, Following, Switched, Held
<1>4. ConfigTypeOK'
  BY <1>2 DEF ConfigIInv, ConfigTypeOK
<1>5. KindOfStage' /\ BootAt' /\ MemoryAndFile'
  BY DEF ConfigIInv, KindOfStage, BootAt, MemoryAndFile
<1>6. ClaimHeld' /\ TheirsKept'
  BY DEF ConfigIInv, KindOfStage, ClaimHeld, Switching, TheirsKept
<1>7. ~told' => ProxyAt' /\ ControlAt' /\ EntryAt'
  BY <1>2 DEF ConfigIInv, KindOfStage, ProxyAt, ControlAt, EntryAt, EntryOf, SamePlace
<1>8. ~told' /\ ~crashed' /\ ~overtaken' => AddressAt'
  <2> SUFFICES ASSUME ~told', ~crashed', ~overtaken' PROVE AddressAt'
    OBVIOUS
  <2>1. AddressAt /\ boot = "over"
    BY <1>2 DEF ConfigIInv, BootAt
  <2>2. OursKnown(pac) /\ OthersKept(pac) /\ AddressOf(tx.new)
    BY <2>1 DEF AddressAt
  <2> QED  BY <2>1, <2>2 DEF AddressAt, AddressOf
<1> QED  BY <1>4, <1>5, <1>6, <1>7, <1>8 DEF ConfigIInv

\* Somebody else sets the address.
LEMMA SetForeignIInv ==
  ASSUME ConfigIInv, NEW url \in Foreign \union {NoPAC}, SetForeign(url)
  PROVE  ConfigIInv'
<1>0. pac \in PACState /\ url \in PACs /\ url \notin Ports
  BY AddressAssumption DEF ConfigIInv, ConfigTypeOK, PACs
<1>1. /\ tx' = tx /\ theirs' = url /\ pac' = [pac EXCEPT !.sys = url]
      /\ spoiled' = (spoiled \/ pac.sys \in Ports)
      /\ stale' = (stale \/ (pac.sys \notin Ports /\ pac.original # NoPAC))
      /\ UNCHANGED <<cfg, disk, alive, lport, cport, base, autostart, maintenance, told, loaded,
                     boot, overtaken, early, crashed>>
  BY DEF SetForeign, bootVars
<1>2. /\ pac' \in PACState /\ pac'.sys = url /\ OursKnown(pac')
      /\ OthersKept(pac) => OthersKept(pac')
      /\ ~spoiled' /\ ~stale' => Untaken(pac', url)
  <2>1. /\ pac' \in PACState /\ pac'.sys = url /\ pac'.managing = pac.managing
        /\ pac'.managed = pac.managed
        /\ pac'.original = pac.original /\ pac'.file = pac.file
    BY <1>0, <1>1 DEF PACState
  <2>2. ASSUME ~spoiled', ~stale' PROVE Untaken(pac', url)
    <3>1. Untaken(pac, theirs) /\ pac.original = NoPAC
      BY <1>1, <2>2 DEF ConfigIInv, TheirsKept, Accounted, Taken
    <3> QED  BY <2>1, <3>1 DEF Untaken
  <2> QED  BY <1>0, <2>1, <2>2 DEF OursKnown, OthersKept
<1> USE <1>0, <1>1, <1>2 DEF TxIn
<1>3. ConfigTypeOK'
  BY DEF ConfigIInv, ConfigTypeOK
<1>4. KindOfStage' /\ BootAt' /\ MemoryAndFile'
  BY DEF ConfigIInv, KindOfStage, BootAt, MemoryAndFile
<1>5. ClaimHeld' /\ TheirsKept'
  BY DEF ConfigIInv, ClaimHeld, Switching, TheirsKept, Accounted
<1>6. ~told' => ProxyAt' /\ ControlAt' /\ EntryAt'
  BY DEF ConfigIInv, ProxyAt, ControlAt, EntryAt, EntryOf
<1>7. ~told' /\ ~crashed' /\ ~overtaken' => AddressAt'
  BY DEF ConfigIInv, AddressAt, AddressOf
<1> QED  BY <1>3, <1>4, <1>5, <1>6, <1>7 DEF ConfigIInv

LEMMA CrashIInv ==
  ASSUME ConfigIInv, Crash
  PROVE  ConfigIInv'
<1>1. /\ alive' = FALSE /\ lport' = 0 /\ tx' = NoTx /\ maintenance' = FALSE
      /\ boot' = "over" /\ early' = FALSE /\ crashed' = TRUE /\ spoiled' = TRUE
      /\ UNCHANGED <<cfg, disk, base, cport, autostart, loaded, told, theirs, stale, overtaken>>
  BY DEF Crash, Dead
<1>2. pac' \in PACState
  BY FreshStart DEF Crash, ConfigIInv, ConfigTypeOK
<1>3. ConfigTypeOK'
  BY <1>1, <1>2 DEF ConfigIInv, ConfigTypeOK
<1>4. KindOfStage' /\ BootAt' /\ MemoryAndFile' /\ ClaimHeld' /\ TheirsKept'
  BY <1>1 DEF ConfigIInv, KindOfStage, BootAt, MemoryAndFile, ClaimHeld, Switching, TheirsKept,
              TxIn
<1>5. ProxyAt' /\ ControlAt' /\ EntryAt'
  BY <1>1 DEF ProxyAt, ControlAt, EntryAt, TxIn
<1> QED  BY <1>1, <1>3, <1>4, <1>5 DEF ConfigIInv

\* main ends, and gives the address back if it can.
LEMMA ExitIInv ==
  ASSUME ConfigIInv, Exit
  PROVE  ConfigIInv'
<1>1. /\ alive /\ tx = NoTx /\ boot = "over"
      /\ alive' = FALSE /\ lport' = 0 /\ tx' = NoTx /\ maintenance' = FALSE
      /\ boot' = "over" /\ early' = FALSE
      /\ UNCHANGED <<cfg, disk, base, cport, autostart, loaded, told, theirs, stale, overtaken,
                     crashed>>
  BY DEF Exit, Dead
<1>2. pac \in PACState /\ theirs \in Foreign \union {NoPAC} /\ spoiled \in BOOLEAN
  BY DEF ConfigIInv, ConfigTypeOK, TheirsKept
<1>3. /\ pac' \in PACState /\ spoiled' \in BOOLEAN
      /\ ~spoiled' => ~spoiled /\ (Accounted(pac, theirs) => Untaken(pac', theirs))
      /\ OursKnown(pac) /\ OthersKept(pac) =>
           OthersKept(pac') /\ (pac'.sys \in Ports => pac'.sys = pac.sys)
  <2>1. CASE /\ UNCHANGED spoiled
             /\ pac' = FreshPAC(CleanupOnExit(pac).sys, CleanupOnExit(pac).file)
    <3>1. PICK c \in PACState : c = CleanupOnExit(pac)
      BY <1>2, Cleaning
    <3>2. pac' = FreshPAC(c.sys, c.file)
      BY <2>1, <3>1
    <3> QED  BY <1>2, <2>1, <3>1, <3>2, Cleaning, FreshStart
  <2>2. CASE spoiled' = TRUE /\ pac' = FreshPAC(pac.sys, pac.file)
    BY <1>2, <2>2, FreshStart
  <2> QED  BY <2>1, <2>2 DEF Exit
<1>4. ConfigTypeOK'
  BY <1>1, <1>3 DEF ConfigIInv, ConfigTypeOK
<1>5. KindOfStage' /\ BootAt' /\ MemoryAndFile' /\ ClaimHeld' /\ TheirsKept'
  BY <1>1, <1>3 DEF ConfigIInv, KindOfStage, BootAt, MemoryAndFile, ClaimHeld, Switching,
                    TheirsKept, Accounted, TxIn
<1>6. ~told' => ProxyAt' /\ ControlAt' /\ EntryAt'
  BY <1>1 DEF ConfigIInv, MemoryAndFile, ProxyAt, ControlAt, EntryAt, EntryOf, TxIn
<1>7. ~told' /\ ~crashed' /\ ~overtaken' => AddressAt'
  BY <1>1, <1>3 DEF ConfigIInv, MemoryAndFile, AddressAt, AddressOf, TxIn
<1> QED  BY <1>1, <1>4, <1>5, <1>6, <1>7 DEF ConfigIInv

\* main again, ...
LEMMA RestartIInv ==
  ASSUME ConfigIInv, Restart
  PROVE  ConfigIInv'
<1>1. /\ ~alive /\ alive' = TRUE /\ cfg' = disk /\ lport' = disk.port /\ cport' = disk.cport
      /\ base' = disk.dir /\ loaded' = disk /\ boot' = "pac"
      /\ UNCHANGED <<disk, autostart, pac, maintenance, tx, overtaken, told, theirs, spoiled,
                     stale, early, crashed>>
      /\ tx = NoTx /\ disk \in Settings /\ disk.port \in Ports /\ disk.start \in BOOLEAN
  BY SettingFields DEF Restart, pacHistory, ConfigIInv, ConfigTypeOK, KindOfStage
<1>2. ConfigTypeOK'
  BY <1>1 DEF ConfigIInv, ConfigTypeOK
<1>3. KindOfStage' /\ BootAt' /\ MemoryAndFile'
  BY <1>1 DEF ConfigIInv, KindOfStage, BootAt, MemoryAndFile, TxIn
<1>4. ClaimHeld' /\ TheirsKept'
  BY <1>1 DEF ConfigIInv, ClaimHeld, Switching, TheirsKept, Accounted, Untaken, Taken
<1>5. ~told' => ProxyAt' /\ ControlAt' /\ EntryAt'
  BY <1>1 DEF ConfigIInv, ProxyAt, ControlAt, EntryAt, EntryOf, TxIn
<1>6. ~told' /\ ~crashed' /\ ~overtaken' => AddressAt'
  BY <1>1 DEF ConfigIInv, AddressAt, AddressOf, OthersKept, TxIn
<1> QED  BY <1>2, <1>3, <1>4, <1>5, <1>6 DEF ConfigIInv

\* ... the PAC address that it has loaded, ...
LEMMA FollowPACIInv ==
  ASSUME ConfigIInv, FollowPAC
  PROVE  ConfigIInv'
<1>1. /\ alive /\ boot = "pac" /\ boot' = "startup"
      /\ UNCHANGED <<cfg, disk, alive, lport, cport, base, autostart, maintenance, tx, loaded,
                     overtaken, theirs, spoiled, stale, early, crashed>>
      /\ loaded.port \in Ports /\ loaded.pac \in BOOLEAN
  BY SettingFields DEF FollowPAC, pacHistory, ConfigIInv, ConfigTypeOK
<1>2. /\ told' \in BOOLEAN /\ (~told' => ~told)
      /\ \/ loaded.pac /\ SwitchPAC(TRUE, loaded.port)
         \/ ~loaded.pac /\ pac' = pac
         \/ told' /\ PACFails(TRUE, loaded.port)
  <2>1. told \in BOOLEAN
    BY DEF ConfigIInv, ConfigTypeOK
  <2>2. CASE /\ told' = told
             /\ IF loaded.pac THEN SwitchPAC(TRUE, loaded.port) ELSE UNCHANGED pac
    BY <2>1, <2>2
  <2>3. CASE told' = TRUE /\ PACFails(TRUE, loaded.port)
    BY <2>3
  <2> QED  BY <2>2, <2>3 DEF FollowPAC
<1>3. pac' \in PACState /\ (~spoiled /\ ~stale => Accounted(pac', theirs))
  <2>1. pac \in PACState /\ (~spoiled /\ ~stale => Accounted(pac, theirs))
    BY DEF ConfigIInv, ConfigTypeOK, TheirsKept
  <2> QED  BY <1>1, <1>2, <2>1, SwitchingPAC, PACFailing
<1> USE <1>1 DEF TxIn
<1>4. ConfigTypeOK'
  BY <1>2, <1>3 DEF ConfigIInv, ConfigTypeOK
<1>5. KindOfStage' /\ BootAt' /\ MemoryAndFile'
  BY DEF ConfigIInv, KindOfStage, BootAt, MemoryAndFile
<1>6. ClaimHeld' /\ TheirsKept'
  BY <1>3 DEF ConfigIInv, ClaimHeld, Switching, TheirsKept
<1>7. ~told' => ProxyAt' /\ ControlAt' /\ EntryAt'
  BY <1>2 DEF ConfigIInv, ProxyAt, ControlAt, EntryAt, EntryOf
<1>8. ~told' /\ ~crashed' /\ ~overtaken' => AddressAt'
  <2> SUFFICES ASSUME ~told', ~crashed', ~overtaken' PROVE AddressAt'
    OBVIOUS
  <2>1. AddressAt /\ tx = NoTx /\ cfg = loaded /\ ~told
    BY <1>2 DEF ConfigIInv, BootAt
  <2>2. OthersKept(pac) /\ AddressOf(loaded)
    BY <2>1 DEF AddressAt
  <2>3. /\ OthersKept(pac') /\ OursKnown(pac')
        /\ pac'.sys \in Ports => loaded.pac /\ pac'.sys = loaded.port
    <3>1. CASE loaded.pac /\ SwitchPAC(TRUE, loaded.port)
      BY <2>2, <3>1, SwitchingPAC DEF AddressOf
    <3>2. CASE ~loaded.pac /\ pac' = pac
      BY <2>2, <3>2 DEF AddressOf, OursKnown
    <3> QED  BY <1>2, <3>1, <3>2
  <2> QED  BY <2>1, <2>3 DEF AddressAt, AddressOf
<1> QED  BY <1>4, <1>5, <1>6, <1>7, <1>8 DEF ConfigIInv

\* ... and the entry of the system.
LEMMA FollowStartupIInv ==
  ASSUME ConfigIInv, FollowStartup
  PROVE  ConfigIInv'
<1>1. /\ alive /\ boot = "startup" /\ boot' = "over"
      /\ UNCHANGED <<cfg, disk, alive, lport, cport, base, pac, maintenance, tx, loaded,
                     overtaken, theirs, spoiled, stale, early, crashed>>
      /\ loaded.start \in BOOLEAN /\ autostart \in BOOLEAN /\ told \in BOOLEAN
  BY SettingFields DEF FollowStartup, pacHistory, ConfigIInv, ConfigTypeOK
<1>2. /\ autostart' \in BOOLEAN /\ told' \in BOOLEAN /\ (~told' => ~told)
      /\ ~told' => autostart' = (autostart \/ loaded.start)
  <2>1. CASE told' = told /\ autostart' = (autostart \/ loaded.start)
    BY <1>1, <2>1
  <2>2. CASE told' = TRUE /\ autostart' = autostart
    BY <1>1, <2>2
  <2> QED  BY <2>1, <2>2 DEF FollowStartup
<1> USE <1>2, <1>1 DEF TxIn
<1>3. ConfigTypeOK'
  BY DEF ConfigIInv, ConfigTypeOK
<1>4. KindOfStage' /\ BootAt' /\ MemoryAndFile'
  BY DEF ConfigIInv, KindOfStage, BootAt, MemoryAndFile
<1>5. ClaimHeld' /\ TheirsKept'
  BY DEF ConfigIInv, ClaimHeld, Switching, TheirsKept, Accounted, Untaken, Taken
<1>6. ~told' => ProxyAt' /\ ControlAt'
  BY DEF ConfigIInv, ProxyAt, ControlAt
<1>7. ~told' => EntryAt'
  <2> SUFFICES ASSUME ~told' PROVE EntryAt'
    OBVIOUS
  <2>1. EntryAt /\ (~overtaken => tx = NoTx /\ cfg = loaded)
    BY DEF ConfigIInv, BootAt
  <2>2. ~overtaken => EntryOf(loaded)
    BY <2>1 DEF EntryAt
  <2>3. ASSUME NEW s, s.start \in BOOLEAN, EntryOf(s) PROVE EntryOf(s)'
    BY <2>2, <2>3 DEF EntryOf
  <2>4. /\ alive /\ tx = NoTx => cfg.start \in BOOLEAN
        /\ tx # NoTx => tx.old.start \in BOOLEAN /\ tx.new.start \in BOOLEAN
    BY SettingFields DEF ConfigIInv, ConfigTypeOK, Transactions
  <2> QED  BY <2>1, <2>3, <2>4 DEF EntryAt
<1>8. ~told' /\ ~crashed' /\ ~overtaken' => AddressAt'
  BY DEF ConfigIInv, AddressAt, AddressOf, OthersKept, OursKnown
<1> QED  BY <1>3, <1>4, <1>5, <1>6, <1>7, <1>8 DEF ConfigIInv

-----------------------------------------------------------------------------
LEMMA ConfigInitIInv == ConfigInit => ConfigIInv
<1> SUFFICES ASSUME ConfigInit PROVE ConfigIInv
  OBVIOUS
<1>1. /\ cfg \in Settings /\ ~cfg.pac /\ ~cfg.start /\ disk = cfg /\ alive = TRUE
      /\ lport = cfg.port /\ cport = cfg.cport /\ base = cfg.dir /\ autostart = FALSE
      /\ theirs \in Foreign \union {NoPAC} /\ theirs \in PACs /\ theirs \notin Ports
      /\ pac = FreshPAC(theirs, NoFile) /\ maintenance = FALSE /\ tx = NoTx
      /\ loaded = cfg /\ boot = "over" /\ told = FALSE /\ spoiled = FALSE /\ stale = FALSE
      /\ early = FALSE /\ overtaken = FALSE /\ crashed = FALSE
  BY AddressAssumption DEF ConfigInit, PACs
<1>2. cfg.port \in Ports /\ cfg.start = FALSE
  BY <1>1, SettingFields
<1>3. pac \in PACState /\ pac.sys = theirs /\ OursKnown(pac) /\ OthersKept(pac)
      /\ Untaken(pac, theirs)
  BY <1>1, FreshFields, AddressAssumption DEF OursKnown, OthersKept
<1>4. ConfigTypeOK
  BY <1>1, <1>2, <1>3 DEF ConfigTypeOK
<1>5. KindOfStage /\ BootAt /\ MemoryAndFile /\ ClaimHeld /\ TheirsKept
  BY <1>1, <1>3 DEF KindOfStage, BootAt, MemoryAndFile, ClaimHeld, Switching, TheirsKept,
                    Accounted, TxIn
<1>6. ProxyAt /\ ControlAt /\ EntryAt
  BY <1>1, <1>2 DEF ProxyAt, ControlAt, EntryAt, EntryOf, TxIn
<1>7. AddressAt
  BY <1>1, <1>3 DEF AddressAt, AddressOf, TxIn
<1> QED  BY <1>4, <1>5, <1>6, <1>7 DEF ConfigIInv

LEMMA ConfigStutter == ConfigIInv /\ UNCHANGED configVars => ConfigIInv'
<1> SUFFICES ASSUME ConfigIInv, UNCHANGED configVars PROVE ConfigIInv'
  OBVIOUS
<1> USE DEF configVars, runtimeVars, bootVars, pacHistory
<1>1. ConfigTypeOK' /\ KindOfStage' /\ BootAt' /\ MemoryAndFile' /\ ClaimHeld' /\ TheirsKept'
  BY DEF ConfigIInv, ConfigTypeOK, KindOfStage, BootAt, MemoryAndFile, ClaimHeld, Switching,
         TheirsKept, TxIn
<1>2. ~told' => ProxyAt' /\ ControlAt' /\ EntryAt'
  BY DEF ConfigIInv, ProxyAt, ControlAt, EntryAt, EntryOf, TxIn
<1>3. ~told' /\ ~crashed' /\ ~overtaken' => AddressAt'
  BY DEF ConfigIInv, AddressAt, AddressOf, TxIn
<1> QED  BY <1>1, <1>2, <1>3 DEF ConfigIInv

LEMMA ConfigNextIInv == ConfigIInv /\ [ConfigNext]_configVars => ConfigIInv'
<1> SUFFICES ASSUME ConfigIInv, [ConfigNext]_configVars PROVE ConfigIInv'
  OBVIOUS
<1>1. CASE \E new \in Settings : BeginApply(new)
  BY <1>1, BeginApplyIInv
<1>2. CASE ApplyStep
  BY <1>2, ConfigCommitIInv, SaveIInv, ReloadProxyIInv, ReloadControlIInv, ReloadProxyBackIInv,
     CommitBackIInv, SaveBackIInv, SetBaseIInv, SyncPACIInv, SyncStartupIInv, RecommitIInv,
     NoRecommitIInv, SaveAgainIInv
     DEF ApplyStep
<1>3. CASE SwitchStep
  BY <1>3, UpdateMemoryIInv, SaveUpdateIInv, PutBackIInv DEF SwitchStep
<1>4. CASE \E on \in BOOLEAN : SetStartup(on) \/ SetPAC(on)
  BY <1>4, SetStartupIInv, SetPACIInv
<1>5. CASE ToggleMaintenance \/ TrayStarts \/ TrayStops
  BY <1>5, ToggleIInv, TrayIInv
<1>6. CASE \E url \in Foreign \union {NoPAC} : SetForeign(url)
  BY <1>6, SetForeignIInv
<1>7. CASE Crash \/ Exit \/ Restart \/ FollowPAC \/ FollowStartup
  BY <1>7, CrashIInv, ExitIInv, RestartIInv, FollowPACIInv, FollowStartupIInv
<1>8. CASE UNCHANGED configVars
  BY <1>8, ConfigStutter
<1> QED  BY <1>1, <1>2, <1>3, <1>4, <1>5, <1>6, <1>7, <1>8 DEF ConfigNext

\* The transaction explains every difference between the configuration and what
\* follows it.
THEOREM ConfigIInvAlways == ConfigSpec => []ConfigIInv
BY ConfigInitIInv, ConfigNextIInv, PTL DEF ConfigSpec

\* When no request is under way the file, both listeners, the directory, the entry of
\* the system and the PAC address are those of the configuration, whatever failed and
\* was taken back, unless a taking back failed, which was told; the proxy may have been
\* started on a port that was taken back, and main may have set what it had loaded
\* after a request (handleApplyConfig, control.go:1257-1369; main.go:336-351).
THEOREM AlwaysAppliedTogether == ConfigSpec => []AppliedTogether
<1>1. ConfigIInv => AppliedTogether
  BY DEF ConfigIInv, MemoryAndFile, ProxyAt, ControlAt, EntryAt, EntryOf, AddressAt, AddressOf,
         AppliedTogether, Resting
<1> QED  BY <1>1, ConfigIInvAlways, PTL

\* A program that ends leaves the PAC address that would be there without it, whatever
\* failed before, if nobody changed the address while it was ours or while the memory
\* of an enabling that failed was kept, and giving it back worked (CleanupOnExit,
\* sysproxy.go:154).
THEOREM TheirsAlwaysGivenBack == ConfigSpec => []TheirsGivenBack
<1>1. ConfigIInv => TheirsGivenBack
  BY DEF ConfigIInv, TheirsKept, Untaken, TheirsGivenBack
<1> QED  BY <1>1, ConfigIInvAlways, PTL

\* The directory of the cache changes only while no other cache task is active
\* (tryBeginCacheTask in handleApplyConfig, control.go:1239).
THEOREM AlwaysSwitchedAlone == ConfigSpec => SwitchedAlone
<1>1. ConfigIInv /\ [ConfigNext]_configVars => [AloneOnDirectory]_configVars
  <2> SUFFICES ASSUME ConfigIInv, ConfigNext, base' # base
               PROVE  ~maintenance \/ ~alive
    BY DEF AloneOnDirectory, configVars, runtimeVars
  <2>1. CASE SetCacheBase
    <3>1. TxAt("runtime") /\ tx.new.dir # tx.old.dir
      BY <2>1 DEF SetCacheBase
    <3>2. tx.kind = "apply"
      BY <3>1 DEF ConfigIInv, KindOfStage, TxAt, Switched
    <3> QED  BY <3>1, <3>2 DEF ConfigIInv, ClaimHeld, Switching, TxAt
  <2>2. CASE Restart
    BY <2>2 DEF Restart
  <2>3. CASE ApplyStep /\ ~SetCacheBase
    BY <2>3 DEF ApplyStep, Commit, Save, ReloadProxy, ReloadControl, ReloadProxyBack, CommitBack,
                SaveBack, SyncPAC, SyncStartup, Recommit, NoRecommit, SaveAgain, Memory,
                runtimeVars
  <2>4. CASE SwitchStep
    BY <2>4 DEF SwitchStep, Update, SaveUpdate, PutBack, Memory, runtimeVars
  <2>5. CASE /\ ~ApplyStep /\ ~SwitchStep /\ ~Restart
    BY <2>5 DEF ConfigNext, BeginApply, SetStartup, SetPAC, ToggleMaintenance, TrayStarts,
                TrayStops, SetForeign, Crash, Exit, Dead, FollowPAC, FollowStartup, runtimeVars
  <2> QED  BY <2>1, <2>2, <2>3, <2>4, <2>5
<1> QED  BY <1>1, ConfigIInvAlways, PTL DEF ConfigSpec, SwitchedAlone

-----------------------------------------------------------------------------
(* The update.  Whether a whole program is left is a question of where the   *)
(* helper stands: each of its steps relies on what the ones before it did to *)
(* the program, the backup and the staged file.                              *)

\* The helper works on nothing before the program has quit, and there is none
\* before the user applied the update.
HelperAfter ==
    /\ parent = "runs" => helper = "none"
    /\ helper \notin {"none", "verify", "wait", "failed"} => parent = "gone"

\* The old program is in its place, ...
OldInPlace == helper \in {"none", "verify", "wait", "extract", "copy", "aside"} => program = "old"

\* ... or it is the backup, while the new one waits, ...
NewStaged == helper \in {"copy", "aside", "place"} => staged = "new"
OldAside == helper \in {"place", "launch", "putback"} => backup = "old"

\* ... or the new one has replaced it; before, nothing has been started.
NewInPlace == helper \in {"launch", "clean", "done"} => program = "new"
StartedLast ==
    started => helper \in {"clean", "done", "failed"} /\ parent = "gone" /\ program = "new"

\* What is left by a helper that gave up, or whose machine stopped.
LeftOver ==
    helper = "failed" => /\ Whole(program) \/ backup = "old"
                         /\ ~stuck /\ ~outage => Whole(program)

UpdateIInv == /\ UpdateTypeOK /\ HelperAfter /\ OldInPlace /\ NewStaged /\ OldAside /\ NewInPlace
              /\ StartedLast /\ LeftOver

LEMMA UpdateInitIInv == UpdateInit => UpdateIInv
<1> SUFFICES ASSUME UpdateInit PROVE UpdateIInv
  OBVIOUS
<1>1. UpdateTypeOK
  <2>1. dl \in [active : BOOLEAN, done : BOOLEAN, applying : BOOLEAN, cancelled : BOOLEAN,
               way : 0 .. Proxies]
    BY ProxiesAssumption DEF UpdateInit
  <2>2. {started, stuck, outage} \subseteq BOOLEAN
    BY DEF UpdateInit
  <2> QED  BY <2>1, <2>2 DEF UpdateInit, UpdateTypeOK, Archives, Programs
<1>2. HelperAfter /\ OldInPlace /\ NewStaged /\ OldAside /\ NewInPlace /\ StartedLast /\ LeftOver
  BY DEF UpdateInit, HelperAfter, OldInPlace, NewStaged, OldAside, NewInPlace, StartedLast,
         LeftOver
<1> QED  BY <1>1, <1>2 DEF UpdateIInv

DownloadType == [active : BOOLEAN, done : BOOLEAN, applying : BOOLEAN, cancelled : BOOLEAN,
                 way : 0 .. Proxies]

\* Where the program is, nobody but the helper changes.
LEMMA SameProgram ==
  ASSUME UpdateIInv, UNCHANGED programVars, dl' \in DownloadType,
         {partial', archive'} \subseteq Archives
  PROVE  UpdateIInv'
BY DEF UpdateIInv, UpdateTypeOK, HelperAfter, OldInPlace, NewStaged, OldAside, NewInPlace,
       StartedLast, LeftOver, Whole, programVars, DownloadType

\* A download ends, goes on another way, or is cancelled.
LEMMA DownloadMoves ==
  ASSUME UpdateIInv
  PROVE  /\ \A b \in BOOLEAN : DownloadEnds(b) => dl' \in DownloadType
         /\ NextWay => dl' \in DownloadType
         /\ dl \in DownloadType
<1> USE DEF DownloadType
<1>1. dl \in DownloadType
  BY DEF UpdateIInv, UpdateTypeOK
<1>2. \A b \in BOOLEAN : DownloadEnds(b) => dl' \in DownloadType
  BY <1>1 DEF DownloadEnds
<1>3. NextWay => dl' \in DownloadType
  <2> SUFFICES ASSUME NextWay PROVE dl' \in DownloadType
    OBVIOUS
  <2>1. CASE dl.way < Proxies
    BY <1>1, <2>1, ProxiesAssumption DEF NextWay
  <2>2. CASE ~(dl.way < Proxies)
    BY <1>2, <2>2 DEF NextWay
  <2> QED  BY <2>1, <2>2
<1> QED  BY <1>1, <1>2, <1>3

\* The handlers of the download, and the user's folder.
LEMMA DownloadKeepsProgram ==
  ASSUME UpdateIInv,
         BeginDownload \/ Receive \/ FinishPart \/ CancelDownload \/ DeleteArchive
  PROVE  UpdateIInv'
<1>0. dl \in DownloadType /\ {partial, archive} \subseteq Archives
  BY DownloadMoves DEF UpdateIInv, UpdateTypeOK
<1>1. CASE BeginDownload
  BY <1>0, <1>1, SameProgram, ProxiesAssumption DEF BeginDownload, Archives, DownloadType
<1>2. CASE Receive
  BY <1>0, <1>2, SameProgram, DownloadMoves DEF Receive, Archives
<1>3. CASE FinishPart
  BY <1>0, <1>3, SameProgram, DownloadMoves DEF FinishPart, Archives
<1>4. CASE CancelDownload
  BY <1>0, <1>4, SameProgram DEF CancelDownload, DownloadType
<1>5. CASE DeleteArchive
  BY <1>0, <1>5, SameProgram DEF DeleteArchive, Archives
<1> QED  BY <1>1, <1>2, <1>3, <1>4, <1>5

\* The program starts the helper, once, and quits.
LEMMA ApplyIInv ==
  ASSUME UpdateIInv, Apply \/ Quit
  PROVE  UpdateIInv'
<1>1. CASE Apply
  <2>1. CASE UNCHANGED <<dl, helper, parent>>
    BY <1>1, <2>1, DownloadMoves, SameProgram DEF Apply, programVars, UpdateIInv, UpdateTypeOK
  <2>2. CASE LaunchSelfUpdater /\ parent' = "quits" /\ dl' = [dl EXCEPT !.applying = TRUE]
    <3>1. parent = "runs" /\ helper = "none" /\ helper' = "verify" /\ parent' = "quits"
          /\ UNCHANGED <<partial, archive, platform, program, backup, staged, started, stuck,
                         outage>>
      BY <1>1, <2>2 DEF Apply, LaunchSelfUpdater, UpdateIInv, HelperAfter
    <3>2. dl' \in DownloadType
      BY <2>2, DownloadMoves DEF DownloadType
    <3>3. UpdateTypeOK'
      BY <3>1, <3>2 DEF UpdateIInv, UpdateTypeOK, DownloadType
    <3> QED  BY <3>1, <3>3 DEF UpdateIInv, HelperAfter, OldInPlace, NewStaged, OldAside, NewInPlace,
                               StartedLast, LeftOver
  <2> QED  BY <1>1, <2>1, <2>2 DEF Apply
<1>2. CASE Quit
  BY <1>2 DEF Quit, UpdateIInv, UpdateTypeOK, HelperAfter, OldInPlace, NewStaged, OldAside,
              NewInPlace, StartedLast, LeftOver, Whole
<1> QED  BY <1>1, <1>2

\* A step of the helper, or the machine stops.
LEMMA HelperKeepsTypes ==
  ASSUME UpdateIInv, HelperStep \/ Halt
  PROVE  UpdateTypeOK'
<1> USE DEF Goes, Abandons, FileVars, Rest
<1> /\ UpdateTypeOK /\ NewStaged /\ OldAside
  BY DEF UpdateIInv
<1>1. CASE VerifyArchive \/ WaitForParent
  BY <1>1 DEF VerifyArchive, WaitForParent, WaitEnds, UpdateTypeOK
<1>2. CASE Extract \/ CopyBackup \/ SetProgramAside
  BY <1>2 DEF Extract, CopyBackup, SetProgramAside, ExtractWindowsExecutable, ExtractMacBundle,
              UpdateTypeOK, Programs
<1>3. CASE PlaceProgram \/ LaunchProgram
  BY <1>3 DEF PlaceProgram, LaunchProgram, UpdateTypeOK, Programs
<1>4. CASE PutProgramBack \/ CleanBackup
  BY <1>4 DEF PutProgramBack, CleanBackup, Restored, UpdateTypeOK, Programs
<1>5. CASE Halt
  BY <1>5 DEF Halt, UpdateTypeOK, Programs
<1> QED  BY <1>1, <1>2, <1>3, <1>4, <1>5 DEF HelperStep

LEMMA HelperIInv ==
  ASSUME UpdateIInv, HelperStep \/ Halt
  PROVE  UpdateIInv'
<1> USE DEF Goes, Abandons, FileVars, Rest, HelperAfter, OldInPlace, NewStaged, OldAside,
            NewInPlace, StartedLast, LeftOver, Whole
<1>0. UpdateTypeOK'
  BY HelperKeepsTypes
<1>1. CASE VerifyArchive
  BY <1>0, <1>1 DEF VerifyArchive, UpdateIInv
<1>2. CASE WaitForParent
  BY <1>0, <1>2 DEF WaitForParent, WaitEnds, UpdateIInv
<1>3. CASE Extract
  BY <1>0, <1>3 DEF Extract, ExtractWindowsExecutable, ExtractMacBundle, UpdateIInv
<1>4. CASE CopyBackup
  BY <1>0, <1>4 DEF CopyBackup, UpdateIInv
<1>5. CASE SetProgramAside
  BY <1>0, <1>5 DEF SetProgramAside, UpdateIInv
<1>6. CASE PlaceProgram
  BY <1>0, <1>6 DEF PlaceProgram, UpdateIInv
<1>7. CASE LaunchProgram
  BY <1>0, <1>7 DEF LaunchProgram, UpdateIInv
<1>8. CASE PutProgramBack
  BY <1>0, <1>8 DEF PutProgramBack, Restored, UpdateIInv
<1>9. CASE CleanBackup
  BY <1>0, <1>9 DEF CleanBackup, UpdateIInv
<1>10. CASE Halt
  BY <1>0, <1>10 DEF Halt, UpdateIInv, UpdateTypeOK
<1> QED  BY <1>1, <1>2, <1>3, <1>4, <1>5, <1>6, <1>7, <1>8, <1>9, <1>10 DEF HelperStep

LEMMA UpdateNextIInv == UpdateIInv /\ [UpdateNext]_updateVars => UpdateIInv'
<1> SUFFICES ASSUME UpdateIInv, [UpdateNext]_updateVars PROVE UpdateIInv'
  OBVIOUS
<1>1. CASE BeginDownload \/ Receive \/ FinishPart \/ CancelDownload \/ DeleteArchive
  BY <1>1, DownloadKeepsProgram
<1>2. CASE Apply \/ Quit
  BY <1>2, ApplyIInv
<1>3. CASE HelperStep \/ Halt
  BY <1>3, HelperIInv
<1>4. CASE UNCHANGED updateVars
  BY <1>4 DEF updateVars, UpdateIInv, UpdateTypeOK, HelperAfter, OldInPlace, NewStaged, OldAside,
              NewInPlace, StartedLast, LeftOver, Whole
<1> QED  BY <1>1, <1>2, <1>3, <1>4 DEF UpdateNext

\* Where the helper stands says where the old program and the new one are.
THEOREM UpdateIInvAlways == UpdateSpec => []UpdateIInv
BY UpdateInitIInv, UpdateNextIInv, PTL DEF UpdateSpec

\* Whatever fails, and wherever the machine stops, a whole program is left, in its
\* place or as the backup (self_update.go:181-303).
THEOREM ProgramAlwaysSurvives == UpdateSpec => []ProgramSurvives
<1>1. UpdateIInv => ProgramSurvives
  <2> SUFFICES ASSUME UpdateIInv PROVE ProgramSurvives
    OBVIOUS
  <2>1. Whole(program) \/ backup = "old"
    BY DEF UpdateIInv, UpdateTypeOK, OldInPlace, OldAside, NewInPlace, LeftOver, Whole
  <2>2. helper \in {"none", "done", "failed"} /\ ~stuck /\ ~outage => Whole(program)
    BY DEF UpdateIInv, OldInPlace, NewInPlace, LeftOver, Whole
  <2> QED  BY <2>1, <2>2 DEF ProgramSurvives
<1> QED  BY <1>1, UpdateIInvAlways, PTL

\* The helper starts a program only when the one that asked for the update has gone, and
\* the new one is in its place.
THEOREM AlwaysStartedAlone == UpdateSpec => []StartedAlone
<1>1. UpdateIInv => StartedAlone
  BY DEF UpdateIInv, StartedLast, StartedAlone
<1> QED  BY <1>1, UpdateIInvAlways, PTL

-----------------------------------------------------------------------------
(***************************************************************************)
(* The Android patcher.                                                    *)
(***************************************************************************)
JobPlaces == JobStages \union {"none", "succeeded", "failed", "over"}
JobRecords == [at : JobPlaces, input : Uploads \union {NoUpload}, cancelled : BOOLEAN]

RequestRecords == [at : {"idle", "found", "reserved", "ensured", "ready"},
                   input : Uploads \union {NoUpload}]

PatchTyped ==
    /\ patch \in [running : BOOLEAN, last : 0 .. MaxJobs, cancel : 0 .. MaxJobs]
    /\ asked \in [Requesters -> RequestRecords]
    /\ work \in [Jobs -> JobRecords]
    /\ ensure \in [at : {"free", "copy", "copying", "fetch", "placing"}, by : Callers \union {0}]
    /\ result \in [job : 0 .. MaxJobs, is : {"none", "ok", "error"}]
    /\ output \in [by : 0 .. MaxJobs, whole : BOOLEAN]

\* A goroutine that has not reported yet, and a request that holds the reservation.
Unreported(j) == work[j].at \in JobStages \union {"succeeded", "failed"}
Entitled(r) == asked[r].at \in {"reserved", "ensured", "ready"}

\* Running stands for one job, the last one, or for one request that may begin it.
OneJob ==
    /\ \A j \in Jobs : Unreported(j) => patch.running /\ j = patch.last
    /\ \A r \in Requesters : Entitled(r) => patch.running /\ \A j \in Jobs : ~Unreported(j)
    /\ \A r, q \in Requesters : Entitled(r) /\ Entitled(q) => r = q

\* What is in the output directory from the bundling on, and once success is shown.
Made ==
    /\ \A j \in Jobs : /\ work[j].at \in {"audit", "succeeded"} => output.by = j
                       /\ work[j].at = "succeeded" => output.whole
    /\ result.is = "ok" => /\ output = [by |-> result.job, whole |-> TRUE]
                           /\ \A j \in Jobs : ~Unreported(j)

\* Who holds canonicalModuleMu stands still until it lets go of it.
Waiting(who) == \/ who \in Requesters /\ asked[who].at = "reserved"
                \/ who \in Jobs /\ work[who].at = "tools"
HolderWaits == IF ensure.at = "free" THEN ensure.by = 0 ELSE Waiting(ensure.by)

PatchIInv == PatchTyped /\ OneJob /\ Made /\ HolderWaits

InstallTyped ==
    /\ install \in [active : BOOLEAN, cancel : BOOLEAN, cancelled : BOOLEAN,
                    at : Zipped \union {"idle", "next"}, specs : SUBSET Components,
                    todo : SUBSET Components, told : {"none", "done", "error"}, runs : Nat]
    /\ file \in [Components -> {"none", "bad", "good"}]
    /\ unpacked \in [Zipped -> {"no", "part", "yes"}]
    /\ {torn, misplaced} \subseteq BOOLEAN

Found(c) == file[c] = "good" \/ SetUp(c)

\* What an installation has behind it is there, except a module that is replaced or
\* whose replacement failed; an archive that is being unpacked is not behind it.
Standing(c) == Found(c) \/ (c = Module /\ Replacing)
Installed ==
    /\ install.todo \subseteq install.specs
    /\ install.told = "done" => install.todo = {}
    /\ install.at \in Zipped => install.at \in install.todo
    /\ ~torn => \A c \in install.specs \ install.todo : Standing(c)

InstallIInv == InstallTyped /\ Installed

\* A directory that is not registered yet is there, and of the upload under way.
UploadIInv ==
    /\ kept \union onDisk \subseteq Uploads /\ {removing, shut} \subseteq BOOLEAN
    /\ upload \in [at : {"idle", "saved", "looked"}, dir : Uploads \union {NoUpload},
                   busy : BOOLEAN]
    /\ IF upload.at = "idle" THEN upload.dir = NoUpload ELSE upload.dir \in onDisk \ kept
    /\ UploadsAccounted

AndroidIInv == PatchIInv /\ InstallIInv /\ UploadIInv

-----------------------------------------------------------------------------
LEMMA AndroidInitIInv == AndroidInit => AndroidIInv
<1> SUFFICES ASSUME AndroidInit PROVE AndroidIInv
  OBVIOUS
<1>1. PatchIInv
  BY ComponentsAssumption
     DEF AndroidInit, PatchIInv, PatchTyped, OneJob, Made, HolderWaits, Unreported, Entitled,
         JobPlaces, JobRecords, JobStages, RequestRecords, Nowhere, Jobs, NobodyEnsures, Callers
<1>2. InstallIInv
  BY ComponentsAssumption
     DEF AndroidInit, InstallIInv, InstallTyped, Installed, NoInstall, Components
<1>3. UploadIInv
  BY DEF AndroidInit, UploadIInv, UploadsAccounted
<1> QED  BY <1>1, <1>2, <1>3 DEF AndroidIInv

-----------------------------------------------------------------------------
(***************************************************************************)
(* Requests to patch and jobs.                                             *)
(***************************************************************************)

\* A request is found, refused, prepared or given up.
LEMMA RequestIInv ==
  ASSUME PatchIInv, NEW r \in Requesters,
         \/ \E d \in Uploads : AskPatch(r, d)
         \/ Reserve(r) \/ CheckReady(r)
  PROVE  PatchIInv'
<1>1. /\ PatchTyped /\ OneJob /\ Made /\ HolderWaits
      /\ UNCHANGED <<work, result, output, ensure>>
  BY DEF PatchIInv, AskPatch, Reserve, CheckReady
<1>2. /\ asked' \in [Requesters -> RequestRecords] /\ asked[r].at # "reserved"
      /\ \A q \in Requesters : q # r => asked'[q] = asked[q]
  BY <1>1 DEF AskPatch, Reserve, CheckReady, PatchTyped, RequestRecords, Nowhere
<1>3. /\ patch' \in [running : BOOLEAN, last : 0 .. MaxJobs, cancel : 0 .. MaxJobs]
      /\ patch'.last = patch.last
  BY <1>1 DEF AskPatch, Reserve, CheckReady, PatchTyped
<1>4. \/ ~Entitled(r)' /\ UNCHANGED patch
      \/ Entitled(r)' /\ ~patch.running /\ patch'.running
      \/ Entitled(r)' /\ Entitled(r) /\ UNCHANGED patch
      \/ ~Entitled(r)' /\ Entitled(r) /\ ~patch'.running
  BY <1>1, <1>2 DEF AskPatch, Reserve, CheckReady, PatchTyped, RequestRecords, Entitled, Vacant,
                    Nowhere
<1>5. \A q \in Requesters : q # r => (Entitled(q)' <=> Entitled(q))
  BY <1>2 DEF Entitled
<1>6. \A j \in Jobs : Unreported(j)' <=> Unreported(j)
  BY <1>1 DEF Unreported
<1>7. PatchTyped'
  BY <1>1, <1>2, <1>3 DEF PatchTyped
<1>8. OneJob'
  BY <1>1, <1>3, <1>4, <1>5, <1>6 DEF OneJob
<1>9. Made'
  BY <1>1, <1>6 DEF Made
<1>10. HolderWaits'
  BY <1>1, <1>2 DEF HolderWaits, Waiting
<1> QED  BY <1>7, <1>8, <1>9, <1>10 DEF PatchIInv

\* The request that holds the reservation begins a job, which nobody has been.
LEMMA LaunchIInv ==
  ASSUME PatchIInv, NEW r \in Requesters, Launch(r)
  PROVE  PatchIInv'
<1> DEFINE n == patch.last + 1
<1>1. /\ PatchTyped /\ OneJob /\ Made /\ HolderWaits /\ Entitled(r) /\ n \in Jobs
      /\ patch' = [running |-> TRUE, last |-> n, cancel |-> n]
      /\ work' = [work EXCEPT ![n] = [at |-> "tools", input |-> asked[r].input,
                                      cancelled |-> FALSE]]
      /\ result' = [job |-> n, is |-> "none"]
      /\ asked[r].at = "ready" /\ asked' = [asked EXCEPT ![r] = Nowhere]
      /\ UNCHANGED <<ensure, output>>
  BY ComponentsAssumption DEF PatchIInv, PatchTyped, Launch, Entitled, Jobs
<1>2. PatchTyped'
  BY <1>1, ComponentsAssumption
     DEF PatchTyped, JobRecords, RequestRecords, JobPlaces, JobStages, Nowhere, Jobs
<1>3. \A q \in Requesters : ~Entitled(q)'
  BY <1>1 DEF Entitled, PatchTyped, RequestRecords, OneJob, Nowhere
<1>4. \A j \in Jobs : j # n => ~Unreported(j)' /\ work'[j] = work[j]
  BY <1>1 DEF Unreported, PatchTyped, OneJob
<1>5. work'[n].at = "tools"
  BY <1>1 DEF PatchTyped
<1>6. OneJob'
  BY <1>1, <1>3, <1>4 DEF OneJob
<1>7. Made'
  BY <1>1, <1>4, <1>5 DEF Made
<1>8. HolderWaits'
  <2>1. \A who : ~Waiting(who)
    BY <1>1 DEF Waiting, OneJob, Entitled, Unreported, JobStages
  <2> QED  BY <1>1, <2>1 DEF HolderWaits
<1> QED  BY <1>2, <1>6, <1>7, <1>8 DEF PatchIInv

\* A job that is under way goes on, as the only one.
LEMMA JobMoves ==
  ASSUME PatchIInv, NEW j \in Jobs, NEW to \in JobStages \union {"succeeded", "failed"},
         work[j].at \in JobStages, JobGoes(j, to), UNCHANGED <<patch, asked, ensure, result>>,
         work[j].at = "tools" => ensure.by # j,
         output' \in [by : 0 .. MaxJobs, whole : BOOLEAN],
         to \in {"audit", "succeeded"} => output'.by = j,
         to = "succeeded" => output'.whole
  PROVE  PatchIInv'
<1>1. PatchTyped /\ OneJob /\ Made /\ HolderWaits /\ Unreported(j)
  BY DEF PatchIInv, Unreported
<1>2. /\ work' \in [Jobs -> JobRecords] /\ work'[j].at = to
      /\ \A i \in Jobs : i # j => work'[i] = work[i]
  BY <1>1 DEF PatchTyped, JobGoes, JobRecords, JobPlaces
<1>3. \A i \in Jobs : i # j => ~Unreported(i) /\ ~Unreported(i)'
  BY <1>1, <1>2 DEF OneJob, Unreported
<1>4. PatchTyped'
  BY <1>1, <1>2 DEF PatchTyped
<1>5. OneJob'
  BY <1>1, <1>3 DEF OneJob, Entitled
<1>6. Made'
  <2>1. result'.is # "ok"
    BY <1>1 DEF Made
  <2>2. \A i \in Jobs : i # j => work'[i].at \notin {"audit", "succeeded"}
    BY <1>3 DEF Unreported, JobStages
  <2> QED  BY <1>2, <2>1, <2>2 DEF Made
<1>7. HolderWaits'
  <2>1. \A who : Waiting(who) /\ who # j => Waiting(who)'
    BY <1>2 DEF Waiting
  <2>2. ensure.at # "free" => ensure.by # j
    BY <1>1, ComponentsAssumption DEF HolderWaits, Waiting
  <2> QED  BY <1>1, <2>1, <2>2 DEF HolderWaits
<1> QED  BY <1>4, <1>5, <1>6, <1>7 DEF PatchIInv

LEMMA JobIInv ==
  ASSUME PatchIInv, NEW j \in Jobs, JobStep(j)
  PROVE  PatchIInv'
<1>1. PatchTyped /\ OneJob /\ Made /\ HolderWaits /\ j \in 0 .. MaxJobs
  BY DEF PatchIInv, Jobs
<1>2. CASE FindTools(j) \/ InspectInput(j) \/ ExecuteLSPatch(j) \/ FailJob(j)
  <2>1. PICK to \in {"inspect", "inject", "bundle", "failed"} : JobGoes(j, to)
    BY <1>2 DEF FindTools, InspectInput, ExecuteLSPatch, FailJob
  <2>2. /\ work[j].at \in JobStages /\ UNCHANGED <<patch, asked, ensure, result, output>>
        /\ work[j].at = "tools" => ensure.by # j
    BY <1>2 DEF FindTools, InspectInput, ExecuteLSPatch, FailJob, JobAt, JobStages
  <2> QED  BY <1>1, <2>1, <2>2, JobMoves DEF PatchTyped, JobStages
<1>3. CASE BundleOutput(j)
  <2>1. PICK to \in {"audit", "failed"} : JobGoes(j, to)
    BY <1>3 DEF BundleOutput, JobGoes
  <2>2. work[j].at = "bundle" /\ UNCHANGED <<patch, asked, ensure, result>>
    BY <1>3 DEF BundleOutput, JobAt
  <2>3. PICK whole \in BOOLEAN : output' = [by |-> j, whole |-> whole]
    BY <1>3 DEF BundleOutput
  <2>4. output' \in [by : 0 .. MaxJobs, whole : BOOLEAN] /\ output'.by = j
    BY <1>1, <2>3
  <2> QED  BY <2>1, <2>2, <2>4, JobMoves DEF JobStages
<1>4. CASE Audit(j)
  <2>1. PICK to \in {"succeeded", "failed"} :
          JobGoes(j, to) /\ (to = "succeeded" => output.whole)
    BY <1>4 DEF Audit, VerifyIntegrity
  <2>2. work[j].at = "audit" /\ UNCHANGED <<patch, asked, ensure, result, output>>
    BY <1>4 DEF Audit, JobAt
  <2>3. output.by = j
    BY <1>1, <2>2 DEF Made
  <2> QED  BY <1>1, <2>1, <2>2, <2>3, JobMoves DEF PatchTyped, JobStages
<1>5. CASE FinishJob(j)
  <2>1. /\ Unreported(j) /\ patch.last = j /\ work[j].at \in {"succeeded", "failed"}
        /\ work' = [work EXCEPT ![j].at = "over"] /\ UNCHANGED <<asked, ensure, output>>
        /\ patch' = [patch EXCEPT !.running = FALSE, !.cancel = 0]
        /\ result' = [job |-> j, is |-> IF work[j].at = "succeeded" THEN "ok" ELSE "error"]
    BY <1>1, <1>5 DEF FinishJob, JobGoes, Unreported, OneJob
  <2>2. /\ work' \in [Jobs -> JobRecords] /\ work'[j].at = "over"
        /\ \A i \in Jobs : i # j => work'[i] = work[i]
    BY <1>1, <2>1 DEF PatchTyped, JobRecords, JobPlaces
  <2>3. \A i \in Jobs : ~Unreported(i)'
    BY <1>1, <2>1, <2>2 DEF OneJob, Unreported, JobStages
  <2>4. PatchTyped'
    <3>1. patch' \in [running : BOOLEAN, last : 0 .. MaxJobs, cancel : 0 .. MaxJobs]
      <4>1. patch \in [running : BOOLEAN, last : 0 .. MaxJobs, cancel : 0 .. MaxJobs]
        BY <1>1 DEF PatchTyped
      <4>2. 0 \in 0 .. MaxJobs
        BY ComponentsAssumption
      <4> QED  BY <2>1, <4>1, <4>2
    <3>2. result' \in [job : 0 .. MaxJobs, is : {"none", "ok", "error"}]
      BY <1>1, <2>1
    <3> QED  BY <1>1, <2>1, <2>2, <3>1, <3>2 DEF PatchTyped
  <2>5. \A r \in Requesters : ~Entitled(r)'
    BY <1>1, <2>1 DEF OneJob, Entitled
  <2>6. OneJob'
    BY <2>3, <2>5 DEF OneJob
  <2>7. Made'
    <3>1. \A i \in Jobs : work'[i].at \notin {"audit", "succeeded"}
      BY <2>3 DEF Unreported, JobStages
    <3>2. result'.is = "ok" => output' = [by |-> result'.job, whole |-> TRUE]
      BY <1>1, <2>1 DEF Made, PatchTyped
    <3> QED  BY <2>3, <3>1, <3>2 DEF Made
  <2>8. HolderWaits'
    <3>1. \A who : Waiting(who) /\ who # j => Waiting(who)'
      BY <2>1, <2>2 DEF Waiting
    <3>2. ensure.at # "free" => ensure.by # j
      BY <1>1, <2>1, ComponentsAssumption DEF HolderWaits, Waiting
    <3> QED  BY <1>1, <2>1, <3>1, <3>2 DEF HolderWaits
  <2> QED  BY <2>4, <2>6, <2>7, <2>8 DEF PatchIInv
<1> QED  BY <1>2, <1>3, <1>4, <1>5 DEF JobStep

\* Whoever made sure of the module goes on, with what it had.
LEMMA ReturnsIInv ==
  ASSUME PatchIInv, NEW who, Waiting(who), Returns(who), ensure' = NobodyEnsures,
         UNCHANGED <<patch, result, output>>
  PROVE  PatchIInv'
<1>1. PatchTyped /\ OneJob /\ Made
  BY DEF PatchIInv
<1>2. /\ asked' \in [Requesters -> RequestRecords]
      /\ \A r \in Requesters : Entitled(r)' <=> Entitled(r)
  <2>1. asked \in [Requesters -> RequestRecords]
    BY <1>1 DEF PatchTyped
  <2>2. CASE who \in Requesters
    <3>1. asked' = [asked EXCEPT ![who].at = "ensured"] /\ asked[who].at = "reserved"
      BY <2>2, ComponentsAssumption DEF Returns, Waiting
    <3> QED  BY <2>1, <2>2, <3>1 DEF RequestRecords, Entitled
  <2>3. CASE who \notin Requesters
    BY <2>1, <2>3 DEF Returns, Entitled
  <2> QED  BY <2>2, <2>3
<1>3. /\ work' \in [Jobs -> JobRecords]
      /\ \A j \in Jobs : /\ Unreported(j)' <=> Unreported(j)
                         /\ work'[j].at \in {"audit", "succeeded"} => work[j].at = work'[j].at
  <2>1. work \in [Jobs -> JobRecords]
    BY <1>1 DEF PatchTyped
  <2>2. CASE who \in Jobs
    <3>1. /\ work' = [work EXCEPT ![who].at = "ensured"] /\ work[who].at = "tools"
      BY <2>2, ComponentsAssumption DEF Returns, Waiting
    <3> QED  BY <2>1, <2>2, <3>1 DEF JobRecords, JobPlaces, JobStages, Unreported
  <2>3. CASE who \notin Jobs
    BY <2>1, <2>3 DEF Returns, Unreported
  <2> QED  BY <2>2, <2>3
<1>4. PatchTyped'
  BY <1>1, <1>2, <1>3 DEF PatchTyped, NobodyEnsures
<1>5. OneJob' /\ Made'
  BY <1>1, <1>2, <1>3 DEF OneJob, Made
<1>6. HolderWaits'
  BY DEF HolderWaits, NobodyEnsures
<1> QED  BY <1>4, <1>5, <1>6 DEF PatchIInv

\* While the module is replaced, its holder stands still.
LEMMA HolderIInv ==
  ASSUME PatchIInv, NEW who \in Callers, Waiting(who),
         NEW at \in {"copy", "copying", "fetch", "placing"},
         ensure' = [at |-> at, by |-> who], UNCHANGED <<patch, asked, work, result, output>>
  PROVE  PatchIInv'
<1>1. PatchTyped /\ OneJob /\ Made
  BY DEF PatchIInv
<1>2. PatchTyped'
  BY <1>1 DEF PatchTyped
<1>3. OneJob' /\ Made'
  BY <1>1 DEF OneJob, Made, Unreported, Entitled
<1>4. HolderWaits'
  BY DEF HolderWaits, Waiting
<1> QED  BY <1>2, <1>3, <1>4 DEF PatchIInv

LEMMA EnsurePatchIInv ==
  ASSUME PatchIInv, EnsureStep
  PROVE  PatchIInv'
<1>1. PatchTyped /\ HolderWaits
  BY DEF PatchIInv
<1>2. ASSUME NEW who \in Callers, EnsureModule(who) PROVE PatchIInv'
  <2>1. Waiting(who) /\ ensure = NobodyEnsures /\ UNCHANGED <<patch, result, output>>
    BY <1>2 DEF EnsureModule, Waits, Waiting, JobAt
  <2>2. CASE Returns(who) /\ UNCHANGED ensure
    BY <2>1, <2>2, ReturnsIInv
  <2>3. CASE /\ \E how \in {"copy", "fetch"} : ensure' = [at |-> how, by |-> who]
             /\ UNCHANGED <<asked, work>>
    BY <2>1, <2>3, HolderIInv
  <2> QED  BY <1>2, <2>2, <2>3 DEF EnsureModule
<1>3. CASE CopyModule \/ FetchModule
  <2>1. /\ ensure.at # "free" /\ Waiting(ensure.by) /\ ensure.by \in Callers
        /\ UNCHANGED <<patch, result, output>>
    BY <1>1, <1>3 DEF CopyModule, FetchModule, HolderWaits, Waiting, Callers
  <2>2. CASE Ensured
    BY <2>1, <2>2, ReturnsIInv DEF Ensured
  <2>3. CASE EnsureGoes("copying") \/ EnsureGoes("placing")
    <3>1. PICK at \in {"copying", "placing"} : ensure' = [at |-> at, by |-> ensure.by]
      BY <1>1, <2>3 DEF EnsureGoes, PatchTyped
    <3> QED  BY <2>1, <2>3, <3>1, HolderIInv DEF EnsureGoes
  <2> QED  BY <1>3, <2>2, <2>3 DEF CopyModule, FetchModule
<1> QED  BY <1>2, <1>3 DEF EnsureStep

\* Cancelling a job, by the user or at the end, moves none.
LEMMA CancelJobIInv ==
  ASSUME PatchIInv, CancelPatch \/ StopPatching
  PROVE  PatchIInv'
<1>1. /\ PatchTyped /\ OneJob /\ Made /\ HolderWaits
      /\ UNCHANGED <<asked, ensure, result, output>>
  BY DEF PatchIInv, CancelPatch, StopPatching
<1>2. patch.cancel # 0 => patch.cancel \in Jobs
  BY <1>1, ComponentsAssumption DEF PatchTyped, Jobs
<1>3. \/ work' = work
      \/ patch.cancel \in Jobs /\ work' = [work EXCEPT ![patch.cancel].cancelled = TRUE]
  BY <1>2 DEF CancelPatch, StopPatching
<1>4. work' \in [Jobs -> JobRecords] /\ \A j \in Jobs : work'[j].at = work[j].at
  <2>1. work \in [Jobs -> JobRecords]
    BY <1>1 DEF PatchTyped
  <2>2. CASE work' = work
    BY <2>1, <2>2
  <2>3. CASE /\ patch.cancel \in Jobs
             /\ work' = [work EXCEPT ![patch.cancel].cancelled = TRUE]
    BY <2>1, <2>3 DEF JobRecords
  <2> QED  BY <1>3, <2>2, <2>3
<1>5. /\ patch' \in [running : BOOLEAN, last : 0 .. MaxJobs, cancel : 0 .. MaxJobs]
      /\ patch'.last = patch.last /\ patch'.running = patch.running
  BY <1>1, ComponentsAssumption DEF PatchTyped, CancelPatch, StopPatching
<1>6. PatchTyped'
  BY <1>1, <1>4, <1>5 DEF PatchTyped
<1>7. OneJob' /\ Made' /\ HolderWaits'
  BY <1>1, <1>4, <1>5 DEF OneJob, Made, HolderWaits, Waiting, Unreported, Entitled
<1> QED  BY <1>6, <1>7 DEF PatchIInv

-----------------------------------------------------------------------------
(***************************************************************************)
(* The installation of the tools.                                          *)
(***************************************************************************)

\* A module that was verified is taken away only while it is replaced; afterwards it
\* is verified again, or the failure remembered (misplaced).
LEMMA EnsureModuleIInv ==
  ASSUME InstallIInv, EnsureStep
  PROVE  InstallIInv'
<1>1. InstallTyped /\ Installed /\ Module \in Components
  BY ComponentsAssumption DEF InstallIInv, Components
<1>2. UNCHANGED <<install, unpacked, torn>>
  BY DEF EnsureStep, EnsureModule, CopyModule, FetchModule, toolVars
<1>3. /\ file' \in [Components -> {"none", "bad", "good"}] /\ misplaced' \in BOOLEAN
      /\ \A c \in Components : c # Module => file'[c] = file[c]
  BY <1>1 DEF EnsureStep, EnsureModule, CopyModule, FetchModule, ModuleBecomes, InstallTyped,
              toolVars
<1>4. Standing(Module) => Standing(Module)'
  <2>1. CASE \E who \in Callers : EnsureModule(who)
    BY <1>2, <2>1 DEF EnsureModule, NobodyEnsures, Standing, Found, SetUp, Replacing, toolVars
  <2>2. CASE Replacing'
    BY <2>2 DEF Standing
  <2>3. CASE file'[Module] = "good"
    BY <2>3 DEF Standing, Found
  <2>4. CASE UNCHANGED <<file, misplaced>> /\ ensure.at \in {"copy", "fetch"}
    BY <1>2, <2>4 DEF Standing, Found, SetUp, Replacing
  <2>5. CASE CopyModule
    <3>1. ModuleBecomes("good") => file'[Module] = "good"
      BY <1>1 DEF ModuleBecomes, InstallTyped
    <3>2. EnsureGoes("copying") /\ ensure.at = "copy" => Replacing'
      BY DEF EnsureGoes, Replacing
    <3> QED  BY <2>2, <2>3, <2>4, <2>5, <3>1, <3>2 DEF CopyModule, Replacing
  <2>6. CASE FetchModule
    <3>1. ModuleBecomes("good") => file'[Module] = "good"
      BY <1>1 DEF ModuleBecomes, InstallTyped
    <3>2. EnsureGoes("placing") /\ ensure.at = "fetch" => Replacing'
      BY DEF EnsureGoes, Replacing
    <3> QED  BY <2>2, <2>3, <2>4, <2>6, <3>1, <3>2 DEF FetchModule, Replacing
  <2> QED  BY <2>1, <2>5, <2>6 DEF EnsureStep
<1>5. InstallTyped'
  BY <1>1, <1>2, <1>3 DEF InstallTyped
<1>6. \A c \in Components : Standing(c) => Standing(c)'
  BY <1>2, <1>3, <1>4 DEF Standing, Found, SetUp
<1>7. Installed'
  BY <1>1, <1>2, <1>6 DEF Installed, InstallTyped
<1> QED  BY <1>5, <1>7 DEF InstallIInv

\* An installation begins with everything before it.
LEMMA BeginInstallIInv ==
  ASSUME InstallIInv, NEW specs \in SUBSET Components, BeginInstall(specs)
  PROVE  InstallIInv'
<1>1. /\ InstallTyped /\ UNCHANGED <<file, unpacked>> /\ torn' = FALSE
      /\ misplaced' = FALSE
      /\ install' = [active |-> TRUE, cancel |-> TRUE, cancelled |-> FALSE, at |-> "next",
                     specs |-> specs, todo |-> specs, told |-> "none",
                     runs |-> install.runs + 1]
  BY DEF InstallIInv, BeginInstall
<1>2. InstallTyped'
  <2>1. install.runs + 1 \in Nat
    BY <1>1 DEF InstallTyped
  <2>2. install' \in [active : BOOLEAN, cancel : BOOLEAN, cancelled : BOOLEAN,
                      at : Zipped \union {"idle", "next"}, specs : SUBSET Components,
                      todo : SUBSET Components, told : {"none", "done", "error"}, runs : Nat]
    BY <1>1, <2>1
  <2> QED  BY <1>1, <2>2 DEF InstallTyped
<1>3. Installed'
  BY <1>1, ComponentsAssumption DEF Installed, Components
<1> QED  BY <1>2, <1>3 DEF InstallIInv

\* An installation that ends with an error, or done when nothing is left, shows so.
LEMMA InstallEndsIInv ==
  ASSUME InstallIInv, NEW how \in {"done", "error"}, InstallEnds(how),
         how = "done" => install.todo = {},
         file' \in [Components -> {"none", "bad", "good"}],
         unpacked' \in [Zipped -> {"no", "part", "yes"}], UNCHANGED <<ensure, torn, misplaced>>,
         \A c \in Components : c \notin install.todo =>
           file'[c] = file[c] /\ (c \in Zipped => unpacked'[c] = unpacked[c])
  PROVE  InstallIInv'
<1>1. InstallTyped /\ Installed
  BY DEF InstallIInv
<1>2. /\ install'.specs = install.specs /\ install'.todo = install.todo /\ install'.told = how
      /\ install'.at = "idle"
  BY <1>1 DEF InstallTyped, InstallEnds
<1>3. InstallTyped'
  BY <1>1 DEF InstallTyped, InstallEnds
<1>4. \A c \in install.specs \ install.todo : Standing(c) => Standing(c)'
  BY <1>1 DEF InstallTyped, Standing, Found, SetUp, Replacing
<1>5. Installed'
  BY <1>1, <1>2, <1>4, ComponentsAssumption DEF Installed, Components
<1> QED  BY <1>3, <1>5 DEF InstallIInv

\* A component is taken as done when it is found.
LEMMA TakesNextIInv ==
  ASSUME InstallIInv, NEW c \in Components, TakesNext(c), UNCHANGED <<ensure, torn, misplaced>>,
         file' \in [Components -> {"none", "bad", "good"}],
         unpacked' \in [Zipped -> {"no", "part", "yes"}],
         \A d \in Components : d # c =>
           file'[d] = file[d] /\ (d \in Zipped => unpacked'[d] = unpacked[d]),
         Found(c)'
  PROVE  InstallIInv'
<1>1. InstallTyped /\ Installed
  BY DEF InstallIInv
<1>2. /\ install'.specs = install.specs /\ install'.todo = install.todo \ {c}
      /\ install'.told = install.told /\ install'.at = "next"
  BY <1>1 DEF InstallTyped, TakesNext
<1>3. InstallTyped'
  BY <1>1 DEF InstallTyped, TakesNext
<1>4. \A d \in Components : (d # c /\ Standing(d)) \/ d = c => Standing(d)'
  BY DEF Standing, Found, SetUp, Replacing
<1>5. Installed'
  BY <1>1, <1>2, <1>3, <1>4, ComponentsAssumption DEF Installed, InstallTyped, Components
<1> QED  BY <1>3, <1>5 DEF InstallIInv

\* A component's file is there: it is done, or an archive that is unpacked next.
LEMMA HasFileIInv ==
  ASSUME InstallIInv, NEW c \in Components, Wanted(c), HasFile(c),
         file' = [file EXCEPT ![c] = "good"], UNCHANGED <<ensure, unpacked, torn, misplaced>>
  PROVE  InstallIInv'
<1>1. InstallTyped /\ Installed /\ c \in install.todo
  BY DEF InstallIInv, Wanted
<1>2. /\ file' \in [Components -> {"none", "bad", "good"}] /\ file'[c] = "good"
      /\ \A d \in Components : d # c => file'[d] = file[d]
  BY <1>1 DEF InstallTyped
<1>3. CASE c \in Zipped
  <2>1. install' = [install EXCEPT !.at = c]
    BY <1>3 DEF HasFile
  <2>2. /\ install'.specs = install.specs /\ install'.todo = install.todo
        /\ install'.told = install.told /\ install'.at = c
    BY <1>1, <2>1 DEF InstallTyped
  <2>3. InstallTyped'
    BY <1>1, <1>2, <1>3, <2>1 DEF InstallTyped
  <2>4. \A d \in Components : d # c /\ Standing(d) => Standing(d)'
    BY <1>2 DEF Standing, Found, SetUp, Replacing
  <2>5. Installed'
    BY <1>1, <2>2, <2>4 DEF Installed, InstallTyped
  <2> QED  BY <2>3, <2>5 DEF InstallIInv
<1>4. CASE c \notin Zipped
  <2>1. TakesNext(c) /\ Found(c)'
    BY <1>2, <1>4 DEF HasFile, Found
  <2> QED  BY <1>1, <1>2, <2>1, TakesNextIInv DEF InstallTyped
<1> QED  BY <1>3, <1>4

LEMMA ComponentIInv ==
  ASSUME InstallIInv, NEW c \in Components,
         SkipComponent(c) \/ CopyComponent(c) \/ DownloadComponent(c)
  PROVE  InstallIInv'
<1>1. /\ InstallTyped /\ Installed /\ c \in install.todo
      /\ UNCHANGED <<ensure, unpacked, torn, misplaced>>
  BY DEF InstallIInv, SkipComponent, CopyComponent, DownloadComponent, Wanted, patchVars
<1>2. CASE SkipComponent(c)
  <2>1. TakesNext(c) /\ UNCHANGED file /\ Found(c)'
    BY <1>1, <1>2 DEF SkipComponent, Found, SetUp
  <2> QED  BY <1>1, <2>1, TakesNextIInv DEF InstallTyped
<1>3. CASE Wanted(c) /\ HasFile(c) /\ file' = [file EXCEPT ![c] = "good"]
  BY <1>1, <1>3, HasFileIInv
<1>4. CASE /\ InstallEnds("error")
           /\ \E v \in {"bad", "none", file[c]} : file' = [file EXCEPT ![c] = v]
  <2>1. /\ file' \in [Components -> {"none", "bad", "good"}]
        /\ \A d \in Components : d \notin install.todo => file'[d] = file[d]
    BY <1>1, <1>4 DEF InstallTyped
  <2> QED  BY <1>1, <1>4, <2>1, InstallEndsIInv DEF InstallTyped
<1>5. file = [file EXCEPT ![c] = file[c]]
  BY <1>1 DEF InstallTyped
<1> QED  BY <1>2, <1>3, <1>4, <1>5 DEF CopyComponent, DownloadComponent, Placed

LEMMA UnpackIInv ==
  ASSUME InstallIInv, NEW c \in Zipped, UnpackArchive(c)
  PROVE  InstallIInv'
<1>1. /\ InstallTyped /\ Installed /\ c \in Components /\ c \in install.todo
      /\ UNCHANGED <<ensure, file, torn, misplaced>>
  BY DEF InstallIInv, UnpackArchive, InstallAt, Installed, Components, patchVars
<1>2. CASE unpacked' = [unpacked EXCEPT ![c] = "yes"] /\ TakesNext(c)
  <2>1. /\ unpacked' \in [Zipped -> {"no", "part", "yes"}] /\ Found(c)'
        /\ \A d \in Zipped : d # c => unpacked'[d] = unpacked[d]
    BY <1>1, <1>2 DEF InstallTyped, Found, SetUp
  <2> QED  BY <1>1, <1>2, <2>1, TakesNextIInv DEF InstallTyped
<1>3. CASE unpacked' = [unpacked EXCEPT ![c] = "part"] /\ InstallEnds("error")
  <2>1. /\ unpacked' \in [Zipped -> {"no", "part", "yes"}]
        /\ \A d \in Zipped : d \notin install.todo => unpacked'[d] = unpacked[d]
    BY <1>1, <1>3 DEF InstallTyped
  <2> QED  BY <1>1, <1>3, <2>1, InstallEndsIInv DEF InstallTyped
<1> QED  BY <1>2, <1>3 DEF UnpackArchive

\* What is removed or torn during an installation is remembered (torn).
LEMMA TornIInv ==
  ASSUME InstallIInv, Uninstall \/ DownloadPlatformTools
  PROVE  InstallIInv'
<1>1. InstallTyped /\ Installed /\ UNCHANGED <<install, ensure, misplaced>>
  BY DEF InstallIInv, Uninstall, DownloadPlatformTools, patchVars
<1>2. InstallTyped'
  BY <1>1 DEF InstallTyped, Uninstall, DownloadPlatformTools
<1>3. torn' \/ (torn' = torn /\ \A c \in Components : Standing(c) => Standing(c)')
  BY <1>1 DEF InstallTyped, Uninstall, DownloadPlatformTools, Standing, Found, SetUp, Replacing
<1>4. Installed'
  BY <1>1, <1>3 DEF Installed, InstallTyped
<1> QED  BY <1>2, <1>4 DEF InstallIInv

\* Being cancelled changes nothing of what has been installed.
LEMMA CancelInstallIInv ==
  ASSUME InstallIInv, CancelInstall \/ StopPatching
  PROVE  InstallIInv'
<1>1. InstallTyped /\ Installed /\ UNCHANGED <<ensure, file, unpacked, torn, misplaced>>
  BY DEF InstallIInv, CancelInstall, StopPatching, patchVars
<1>2. /\ InstallTyped'
      /\ install'.specs = install.specs /\ install'.todo = install.todo
      /\ install'.told = install.told /\ install'.at = install.at
  BY <1>1 DEF InstallTyped, CancelInstall, StopPatching
<1>3. Installed'
  BY <1>1, <1>2 DEF Installed, Standing, Found, SetUp, Replacing
<1> QED  BY <1>2, <1>3 DEF InstallIInv

LEMMA InstallStepIInv ==
  ASSUME InstallIInv, InstallStep
  PROVE  InstallIInv'
<1>1. Plain \in SUBSET Components /\ Components \in SUBSET Components
  BY DEF Components
<1>2. CASE FailInstall \/ EndInstall
  BY <1>2, InstallEndsIInv DEF FailInstall, EndInstall, InstallIInv, InstallTyped, patchVars
<1> QED  BY <1>1, <1>2, BeginInstallIInv, ComponentIInv, UnpackIInv, CancelInstallIInv
         DEF InstallStep, DownloadComponents, InstallAllComponents

-----------------------------------------------------------------------------
\* An upload registers what it saved or removes it; nobody else touches its directory.
LEMMA UploadStepIInv ==
  ASSUME UploadIInv, patch.running \in BOOLEAN,
         \/ \E d \in Uploads : SaveUpload(d) \/ ExtractFromDevice(d)
         \/ RejectUpload \/ LookRunning \/ RegisterUpload
  PROVE  UploadIInv'
<1>1. CASE \E d \in Uploads : SaveUpload(d) \/ ExtractFromDevice(d)
  <2>1. PICK d \in Uploads : SaveUpload(d)
    BY <1>1 DEF ExtractFromDevice
  <2>2. /\ upload' = [at |-> "saved", dir |-> d, busy |-> FALSE] /\ onDisk' = onDisk \union {d}
        /\ UNCHANGED <<kept, removing, shut>> /\ d \notin onDisk /\ upload.dir = NoUpload
    BY <2>1 DEF SaveUpload, toolVars, UploadIInv
  <2> QED  BY <2>2, ComponentsAssumption DEF UploadIInv, UploadsAccounted
<1>2. CASE RejectUpload
  BY <1>2 DEF UploadIInv, UploadsAccounted, RejectUpload, toolVars
<1>3. CASE LookRunning
  BY <1>3 DEF UploadIInv, UploadsAccounted, LookRunning, toolVars
<1>4. CASE RegisterUpload
  BY <1>4 DEF UploadIInv, UploadsAccounted, RegisterUpload, Superseded, toolVars
<1> QED  BY <1>1, <1>2, <1>3, <1>4

LEMMA UploadIInvStays ==
  ASSUME AndroidIInv, [AndroidNext]_androidVars
  PROVE  UploadIInv'
<1>1. UploadIInv /\ patch.running \in BOOLEAN
  BY DEF AndroidIInv, PatchIInv, PatchTyped
<1>2. CASE \/ \E d \in Uploads : SaveUpload(d) \/ ExtractFromDevice(d)
           \/ RejectUpload \/ LookRunning \/ RegisterUpload
  BY <1>1, <1>2, UploadStepIInv
<1>3. CASE StopPatching
  BY <1>1, <1>3 DEF UploadIInv, UploadsAccounted, StopPatching
<1>4. CASE AskUninstall \/ Uninstall
  BY <1>1, <1>4 DEF UploadIInv, UploadsAccounted, AskUninstall, Uninstall, uploadVars
<1>5. CASE CancelPatch \/ DownloadPlatformTools \/ UNCHANGED androidVars
  BY <1>1, <1>5 DEF UploadIInv, UploadsAccounted, CancelPatch, DownloadPlatformTools, uploadVars,
                    toolVars, androidVars
<1>6. CASE \/ \E r \in Requesters : RequestStep(r)
           \/ \E j \in Jobs : JobStep(j)
           \/ EnsureStep \/ InstallStep
  <2>1. UNCHANGED <<uploadVars, removing, shut>>
    <3>1. ASSUME NEW r \in Requesters, RequestStep(r) PROVE UNCHANGED <<uploadVars, removing, shut>>
      BY <3>1 DEF RequestStep, AskPatch, Reserve, CheckReady, Launch, toolVars
    <3>2. ASSUME NEW j \in Jobs, JobStep(j) PROVE UNCHANGED <<uploadVars, removing, shut>>
      BY <3>2 DEF JobStep, FindTools, InspectInput, ExecuteLSPatch, BundleOutput, Audit, FailJob,
                  FinishJob, toolVars
    <3>3. ASSUME EnsureStep PROVE UNCHANGED <<uploadVars, removing, shut>>
      BY <3>3 DEF EnsureStep, EnsureModule, CopyModule, FetchModule, toolVars
    <3>4. ASSUME InstallStep PROVE UNCHANGED <<uploadVars, removing, shut>>
      BY <3>4 DEF InstallStep, DownloadComponents, InstallAllComponents, BeginInstall,
                  SkipComponent, CopyComponent, DownloadComponent, UnpackArchive, FailInstall,
                  EndInstall, CancelInstall
    <3> QED  BY <1>6, <3>1, <3>2, <3>3, <3>4
  <2> QED  BY <1>1, <2>1 DEF UploadIInv, UploadsAccounted, uploadVars
<1> QED  BY <1>2, <1>3, <1>4, <1>5, <1>6 DEF AndroidNext

\* Steps that leave the jobs, or the tools, alone.
LEMMA PatchRests == PatchIInv /\ UNCHANGED patchVars => PatchIInv'
BY DEF patchVars, PatchIInv, PatchTyped, OneJob, Made, HolderWaits, Waiting, Unreported, Entitled

LEMMA ToolsRest == InstallIInv /\ UNCHANGED <<ensure, toolVars>> => InstallIInv'
BY DEF toolVars, InstallIInv, InstallTyped, Installed, Standing, Found, SetUp, Replacing

LEMMA AndroidNextIInv == AndroidIInv /\ [AndroidNext]_androidVars => AndroidIInv'
<1> SUFFICES ASSUME AndroidIInv, [AndroidNext]_androidVars PROVE PatchIInv' /\ InstallIInv'
  BY UploadIInvStays DEF AndroidIInv
<1>1. PatchIInv /\ InstallIInv
  BY DEF AndroidIInv
<1>2. ASSUME \/ \E d \in Uploads : SaveUpload(d) \/ ExtractFromDevice(d)
             \/ RejectUpload \/ LookRunning \/ RegisterUpload \/ UNCHANGED androidVars
      PROVE  PatchIInv' /\ InstallIInv'
  <2>1. UNCHANGED patchVars /\ UNCHANGED <<ensure, toolVars>>
    BY <1>2 DEF SaveUpload, ExtractFromDevice, RejectUpload, LookRunning, RegisterUpload,
                patchVars, androidVars
  <2> QED  BY <1>1, <2>1, PatchRests, ToolsRest
<1>3. ASSUME NEW r \in Requesters, RequestStep(r) PROVE PatchIInv' /\ InstallIInv'
  <2>1. UNCHANGED <<ensure, toolVars>>
    BY <1>3 DEF RequestStep, AskPatch, Reserve, CheckReady, Launch
  <2> QED  BY <1>1, <1>3, <2>1, RequestIInv, LaunchIInv, ToolsRest DEF RequestStep
<1>4. ASSUME NEW j \in Jobs, JobStep(j) PROVE PatchIInv' /\ InstallIInv'
  <2>1. UNCHANGED <<ensure, toolVars>>
    BY <1>4 DEF JobStep, FindTools, InspectInput, ExecuteLSPatch, BundleOutput, Audit, FailJob,
                FinishJob
  <2> QED  BY <1>1, <1>4, <2>1, JobIInv, ToolsRest
<1>5. ASSUME EnsureStep PROVE PatchIInv' /\ InstallIInv'
  BY <1>1, <1>5, EnsurePatchIInv, EnsureModuleIInv
<1>6. ASSUME CancelPatch PROVE PatchIInv' /\ InstallIInv'
  <2>1. UNCHANGED <<ensure, toolVars>>
    BY <1>6 DEF CancelPatch
  <2> QED  BY <1>1, <1>6, <2>1, CancelJobIInv, ToolsRest
<1>7. ASSUME StopPatching PROVE PatchIInv' /\ InstallIInv'
  BY <1>1, <1>7, CancelJobIInv, CancelInstallIInv
<1>8. ASSUME AskUninstall PROVE PatchIInv' /\ InstallIInv'
  <2>1. UNCHANGED patchVars /\ UNCHANGED <<install, ensure, file, unpacked, torn, misplaced>>
    BY <1>8 DEF AskUninstall, patchVars
  <2>2. InstallIInv'
    BY <1>1, <2>1 DEF InstallIInv, InstallTyped, Installed, Standing, Found, SetUp, Replacing
  <2> QED  BY <1>1, <2>1, <2>2, PatchRests
<1>9. ASSUME InstallStep \/ Uninstall \/ DownloadPlatformTools PROVE PatchIInv' /\ InstallIInv'
  <2>1. UNCHANGED patchVars
    BY <1>9 DEF InstallStep, DownloadComponents, InstallAllComponents, BeginInstall,
                SkipComponent, CopyComponent, DownloadComponent, UnpackArchive, FailInstall,
                EndInstall, CancelInstall, Uninstall, DownloadPlatformTools
  <2> QED  BY <1>1, <1>9, <2>1, PatchRests, InstallStepIInv, TornIInv
<1> QED  BY <1>2, <1>3, <1>4, <1>5, <1>6, <1>7, <1>8, <1>9 DEF AndroidNext

\* Jobs, installations and uploads keep their types and what is said above.
THEOREM AndroidIInvAlways == AndroidSpec => []AndroidIInv
<1> QED  BY AndroidInitIInv, AndroidNextIInv, PTL DEF AndroidSpec

\* What the patcher reports as done is there, for any number of requests, jobs,
\* installations and components, whatever is cancelled beside it: except what was
\* removed meanwhile, and the module while it is replaced or after that failed.
THEOREM ReportedAlwaysThere == AndroidSpec => []ReportedIsThere
<1>1. AndroidIInv => ReportedIsThere
  BY DEF AndroidIInv, PatchIInv, InstallIInv, Made, Installed, Standing, Found, ReportedIsThere
<1> QED  BY <1>1, AndroidIInvAlways, PTL

\* No directory of an upload is left that is neither registered nor of the upload
\* under way, and none is registered that has been removed, however jobs, rejected
\* uploads and Stop meet.
THEOREM UploadsAlwaysAccounted == AndroidSpec => []UploadsAccounted
<1>1. AndroidIInv => UploadsAccounted
  BY DEF AndroidIInv, UploadIInv
<1> QED  BY <1>1, AndroidIInvAlways, PTL
=============================================================================
