-------------------------- MODULE CollectorProofs --------------------------
(***************************************************************************)
(* For any collectors, jobs and delays: the state of the agent's threads   *)
(* is well-typed, and only a worker that a reap declared finished, or that *)
(* never got into workerPids, is still running when the results of its     *)
(* run are published and its task is freed. If threads get going within    *)
(* the first poll and their ids are not used again, the threads implement  *)
(* RunPromise. The last part is about the stop of the agent, which ends    *)
(* the process under the threads: what its walk through collectorPids      *)
(* leaves running.                                                         *)
(***************************************************************************)
EXTENDS AgentStop, TLAPS

\* A worker between SpawnWorker and InsertWorker is one of the run's jobs.
InsertInRange == \A t \in Tasks : phase[t] = "insert" => next[t] <= NumJobs

\* Threads exist for the jobs before next only, and for next itself between
\* the creation of the thread and its insertion.
SpawnedInOrder ==
    \A t \in Tasks, j \in Jobs : thread[<<t, j>>] # "none" =>
        \/ j < next[t]
        \/ phase[t] = "insert" /\ j = next[t]

\* A worker that is not through and that no reap has declared finished has
\* one of the two statuses that gpfCountWorkerPids counts.
CountedUntilMarked ==
    \A w \in Workers : thread[w] # "done" /\ w \notin marked
                       => status[w] \in {"INIT", "RUN"}

IInv == TypeOK /\ InsertInRange /\ SpawnedInOrder /\ CountedUntilMarked /\ OnlyMarkedOutlive

-----------------------------------------------------------------------------
(* The initial states.                                                      *)

LEMMA InitIInv == Init => IInv
<1> SUFFICES ASSUME Init PROVE IInv
  OBVIOUS
<1> USE DEF Init
<1>1. 1 \in 1..(NumJobs + 1)
  BY CollectorAssumption
<1>2. TypeOK
  BY <1>1 DEF TypeOK, Phases, ThreadStates
<1>3. InsertInRange /\ CountedUntilMarked /\ OnlyMarkedOutlive
  BY DEF InsertInRange, CountedUntilMarked, OnlyMarkedOutlive, Live, Past, Workers
<1>4. SpawnedInOrder
  BY DEF SpawnedInOrder, Workers
<1> QED
  BY <1>2, <1>3, <1>4 DEF IInv

-----------------------------------------------------------------------------
(* Types.                                                                   *)

\* A worker is a task and a job of it.
LEMMA WorkerParts ==
    /\ \A w \in Workers : w[1] \in Tasks /\ w[2] \in Jobs
    /\ \A t \in Tasks, j \in Jobs : <<t, j>> \in Workers
  BY DEF Workers

\* The jobs are numbered.
LEMMA JobNumbers ==
    NumJobs \in Nat /\ Jobs \subseteq Nat
BY CollectorAssumption DEF Jobs

\* What the reap writes is well-typed.
LEMMA ReapTypes ==
    ASSUME TypeOK, NEW t \in Tasks, NEW killAll \in BOOLEAN, Reap(t, killAll)
    PROVE  /\ status' \in [Workers -> {"INIT", "RUN", "END", "ERROR"}]
           /\ ended' \in [Workers -> BOOLEAN]
           /\ marked' \subseteq Workers
           /\ child' \in [Workers -> {"none", "running", "zombie", "gone"}]
           /\ exit' \in [Workers -> {"ok", "failed", "killed"}]
           /\ UNCHANGED <<thread, loops, tracked, code>>
<1> USE DEF TypeOK, Reap
<1>1. status' \in [Workers -> {"INIT", "RUN", "END", "ERROR"}]
  OBVIOUS
<1>2. ended' \in [Workers -> BOOLEAN]
  OBVIOUS
<1>3. marked' \subseteq Workers
  BY DEF Of
<1>4. child' \in [Workers -> {"none", "running", "zombie", "gone"}]
  OBVIOUS
<1>5. exit' \in [Workers -> {"ok", "failed", "killed"}]
  OBVIOUS
<1> QED
  BY <1>1, <1>2, <1>3, <1>4, <1>5

LEMMA SchedulerTypes ==
    ASSUME TypeOK, SchedulerStep
    PROVE  TypeOK'
  BY DEF TypeOK, SchedulerStep, SpawnCollector, ListCollector, Phases, workerVars

LEMMA CollectorTypes ==
    ASSUME TypeOK, InsertInRange, NEW t \in Tasks, CollectorStep(t)
    PROVE  TypeOK'
<1>1. CASE StartCollector(t)
  <2>1. phase' \in [Tasks -> Phases] /\ running' \in [Tasks -> BOOLEAN]
    <3>1. \E p \in Phases : phase' = [phase EXCEPT ![t] = p]
      BY <1>1 DEF StartCollector, Go, Phases
    <3>2. running' \in [Tasks -> BOOLEAN]
      BY <1>1 DEF TypeOK, StartCollector
    <3> QED
      BY <3>1, <3>2 DEF TypeOK
  <2>2. UNCHANGED <<next, clock, pending, listed, workerVars>>
    BY <1>1 DEF StartCollector
  <2> QED
    BY <2>1, <2>2 DEF TypeOK, workerVars
<1>2. CASE SpawnWorker(t)
  <2>1. phase' \in [Tasks -> Phases]
    BY <1>2 DEF TypeOK, SpawnWorker, Go, Phases
  <2>2. thread' \in [Workers -> ThreadStates]
    BY <1>2 DEF TypeOK, SpawnWorker, ThreadStates
  <2>3. UNCHANGED <<next, clock, running, pending, listed, status, ended, loops,
                    tracked, marked, child, exit, code>>
    BY <1>2 DEF SpawnWorker
  <2> QED
    BY <2>1, <2>2, <2>3 DEF TypeOK
<1>3. CASE InsertWorker(t)
  <2>1. next[t] \in Jobs /\ Worker(t) \in Workers
    BY <1>3, WorkerParts, CollectorAssumption DEF TypeOK, InsertWorker, InsertInRange, Jobs, Worker
  <2>2. tracked' \subseteq Workers
    BY <1>3, <2>1 DEF TypeOK, InsertWorker
  <2>3. next' \in [Tasks -> 1..(NumJobs + 1)]
    BY <1>3, <2>1, CollectorAssumption DEF TypeOK, InsertWorker, Jobs
  <2>4. phase' \in [Tasks -> Phases]
    BY <1>3 DEF TypeOK, InsertWorker, Go, Phases
  <2>5. UNCHANGED <<clock, running, pending, listed, thread, status, ended, loops,
                    marked, child, exit, code>>
    BY <1>3 DEF InsertWorker
  <2> QED
    BY <2>2, <2>3, <2>4, <2>5 DEF TypeOK
<1>4. CASE JobsSpawned(t)
  <2>1. phase' \in [Tasks -> Phases] /\ running' \in [Tasks -> BOOLEAN]
    <3>1. \E p \in Phases : phase' = [phase EXCEPT ![t] = p]
      BY <1>4 DEF JobsSpawned, Go, Phases
    <3>2. running' \in [Tasks -> BOOLEAN]
      BY <1>4 DEF TypeOK, JobsSpawned
    <3> QED
      BY <3>1, <3>2 DEF TypeOK
  <2>2. UNCHANGED <<next, clock, pending, listed, workerVars>>
    BY <1>4 DEF JobsSpawned
  <2> QED
    BY <2>1, <2>2 DEF TypeOK, workerVars
<1>5. CASE CheckWorkers(t) \/ TimeoutWorkers(t)
  <2>1. Reap(t, FALSE) \/ Reap(t, TRUE)
    BY <1>5 DEF CheckWorkers, TimeoutWorkers
  <2>2. /\ status' \in [Workers -> {"INIT", "RUN", "END", "ERROR"}]
        /\ ended' \in [Workers -> BOOLEAN]
        /\ marked' \subseteq Workers
        /\ child' \in [Workers -> {"none", "running", "zombie", "gone"}]
        /\ exit' \in [Workers -> {"ok", "failed", "killed"}]
        /\ UNCHANGED <<thread, loops, tracked, code>>
    BY <2>1, ReapTypes
  <2>3. phase' \in [Tasks -> Phases] /\ running' \in [Tasks -> BOOLEAN]
    <3>1. phase' = phase \/ \E p \in Phases : phase' = [phase EXCEPT ![t] = p]
      BY <1>5 DEF CheckWorkers, TimeoutWorkers, Go, Phases
    <3>2. running' = running \/ running' = [running EXCEPT ![t] = FALSE]
      BY <1>5 DEF CheckWorkers, TimeoutWorkers
    <3> QED
      BY <3>1, <3>2 DEF TypeOK
  <2>4. UNCHANGED <<next, clock, pending, listed>>
    BY <1>5 DEF CheckWorkers, TimeoutWorkers
  <2> QED
    BY <2>2, <2>3, <2>4 DEF TypeOK
<1>6. CASE Drain(t) \/ Publish(t) \/ FreeTask(t)
  <2>1. phase' \in [Tasks -> Phases]
    BY <1>6 DEF TypeOK, Drain, Publish, FreeTask, Go, Phases
  <2>2. listed' \subseteq Tasks
    BY <1>6 DEF TypeOK, Drain, Publish, FreeTask
  <2>3. UNCHANGED <<next, clock, running, pending, workerVars>>
    BY <1>6 DEF Drain, Publish, FreeTask
  <2> QED
    BY <2>1, <2>2, <2>3 DEF TypeOK, workerVars
<1> QED
  BY <1>1, <1>2, <1>3, <1>4, <1>5, <1>6 DEF CollectorStep

LEMMA CycleDoneTypes ==
    ASSUME TypeOK, NEW w \in Workers, CycleDone(w)
    PROVE  loops' \in [Workers -> Nat] /\ thread' \in [Workers -> ThreadStates]
<1>1. loops' \in [Workers -> Nat]
  BY DEF TypeOK, CycleDone
<1>2. thread' \in [Workers -> ThreadStates]
  BY DEF TypeOK, CycleDone, At, ThreadStates
<1> QED
  BY <1>1, <1>2

LEMMA WorkerTypes ==
    ASSUME TypeOK, NEW w \in Workers,
           WorkerStep(w) \/ SchedulerWait(w) \/ CommandExits(w)
    PROVE  TypeOK'
<1>1. CASE StartWorker(w) \/ StopCycle(w) \/ NextCycle(w)
  <2>1. thread' \in [Workers -> ThreadStates]
    BY <1>1 DEF TypeOK, StartWorker, StopCycle, NextCycle, At, ThreadStates
  <2>2. status' \in [Workers -> {"INIT", "RUN", "END", "ERROR"}]
    BY <1>1 DEF TypeOK, StartWorker, StopCycle, NextCycle
  <2>3. UNCHANGED <<taskVars, ended, loops, tracked, marked, child, exit, code>>
    BY <1>1 DEF StartWorker, StopCycle, NextCycle
  <2> QED
    BY <2>1, <2>2, <2>3 DEF TypeOK, taskVars
<1>2. CASE Fork(w)
  <2>1. loops' \in [Workers -> Nat] /\ thread' \in [Workers -> ThreadStates]
    <3>1. CASE CycleDone(w)
      BY <3>1, CycleDoneTypes
    <3>2. CASE UNCHANGED loops /\ (At(w, "wait") \/ At(w, "leave"))
      BY <3>2 DEF TypeOK, At, ThreadStates
    <3> QED
      BY <1>2, <3>1, <3>2 DEF Fork
  <2>2. child' \in [Workers -> {"none", "running", "zombie", "gone"}]
    BY <1>2 DEF TypeOK, Fork
  <2>3. UNCHANGED <<taskVars, status, ended, tracked, marked, exit, code>>
    BY <1>2 DEF Fork
  <2> QED
    BY <2>1, <2>2, <2>3 DEF TypeOK, taskVars
<1>3. CASE WaitEnds(w)
  <2>1. loops' \in [Workers -> Nat] /\ thread' \in [Workers -> ThreadStates]
    <3>1. CASE CycleDone(w)
      BY <3>1, CycleDoneTypes
    <3>2. CASE UNCHANGED loops /\ At(w, "leave")
      BY <3>2 DEF TypeOK, At, ThreadStates
    <3> QED
      BY <1>3, <3>1, <3>2 DEF WaitEnds
  <2>2. child' \in [Workers -> {"none", "running", "zombie", "gone"}]
    BY <1>3 DEF TypeOK, WaitEnds
  <2>3. code' \in [Workers -> {0, 1}]
    BY <1>3 DEF TypeOK, WaitEnds
  <2>4. UNCHANGED <<taskVars, status, ended, tracked, marked, exit>>
    BY <1>3 DEF WaitEnds
  <2> QED
    BY <2>1, <2>2, <2>3, <2>4 DEF TypeOK, taskVars
<1>4. CASE EndWorker(w) \/ FinishWorker(w)
  <2>1. thread' \in [Workers -> ThreadStates]
    BY <1>4 DEF TypeOK, EndWorker, FinishWorker, At, ThreadStates
  <2>2. status' \in [Workers -> {"INIT", "RUN", "END", "ERROR"}]
    BY <1>4 DEF TypeOK, EndWorker, FinishWorker
  <2>3. ended' \in [Workers -> BOOLEAN]
    BY <1>4 DEF TypeOK, EndWorker, FinishWorker
  <2>4. UNCHANGED <<taskVars, loops, tracked, marked, child, exit, code>>
    BY <1>4 DEF EndWorker, FinishWorker
  <2> QED
    BY <2>1, <2>2, <2>3, <2>4 DEF TypeOK, taskVars
<1>5. CASE SchedulerWait(w) \/ CommandExits(w)
  <2>1. child' \in [Workers -> {"none", "running", "zombie", "gone"}]
    BY <1>5 DEF TypeOK, SchedulerWait, CommandExits
  <2>2. exit' \in [Workers -> {"ok", "failed", "killed"}]
    BY <1>5 DEF TypeOK, SchedulerWait, CommandExits
  <2>3. UNCHANGED <<taskVars, thread, status, ended, loops, tracked, marked, code>>
    BY <1>5 DEF SchedulerWait, CommandExits
  <2> QED
    BY <2>1, <2>2, <2>3 DEF TypeOK, taskVars
<1> QED
  BY <1>1, <1>2, <1>3, <1>4, <1>5 DEF WorkerStep

LEMMA TickTypes ==
    ASSUME TypeOK, NEW t \in Tasks, Tick(t)
    PROVE  TypeOK'
  BY DEF TypeOK, Tick, workerVars

-----------------------------------------------------------------------------
(* The strengthening is inductive.                                          *)

\* A step of a worker thread concerns that thread alone, which is alive and
\* has a counted status until it is through.
LEMMA WorkerStepEffect ==
    ASSUME TypeOK, NEW w \in Workers, WorkerStep(w)
    PROVE  /\ UNCHANGED <<phase, next, tracked, marked>>
           /\ w \in Live
           /\ \A u \in Workers \ {w} : /\ thread'[u] = thread[u]
                                      /\ status'[u] = status[u]
           /\ thread'[w] # "none"
           /\ thread'[w] # "done" => status'[w] \in {status[w], "RUN"}
<1> USE DEF TypeOK, At, CycleDone, taskVars, Live
<1>1. CASE StartWorker(w)
  BY <1>1 DEF StartWorker
<1>2. CASE StopCycle(w) \/ NextCycle(w)
  BY <1>2 DEF StopCycle, NextCycle
<1>3. CASE Fork(w)
  BY <1>3 DEF Fork
<1>4. CASE WaitEnds(w)
  BY <1>4 DEF WaitEnds
<1>5. CASE EndWorker(w) \/ FinishWorker(w)
  BY <1>5 DEF EndWorker, FinishWorker
<1> QED
  BY <1>1, <1>2, <1>3, <1>4, <1>5 DEF WorkerStep

LEMMA WorkerStepInductive ==
    ASSUME IInv, NEW w \in Workers, WorkerStep(w)
    PROVE  IInv'
<1> USE DEF IInv
<1>1. TypeOK'
  BY WorkerTypes
<1>2. InsertInRange'
  BY WorkerStepEffect DEF InsertInRange
<1>3. SpawnedInOrder'
  BY WorkerStepEffect, WorkerParts DEF SpawnedInOrder, Live
<1>4. CountedUntilMarked'
  BY WorkerStepEffect DEF CountedUntilMarked, Live
<1>5. OnlyMarkedOutlive'
  BY WorkerStepEffect DEF OnlyMarkedOutlive, Live, Past
<1> QED
  BY <1>1, <1>2, <1>3, <1>4, <1>5

\* Steps that leave the threads and the worker tables alone, and no phase of
\* a collector thread begins or ends but its creation.
LEMMA OtherStepsInductive ==
    ASSUME IInv, TypeOK',
           UNCHANGED <<next, thread, status, tracked, marked>>,
           \A t \in Tasks :
              \/ phase'[t] = phase[t]
              \/ phase[t] = "none" /\ phase'[t] = "created"
    PROVE  IInv'
<1> USE DEF IInv
<1>1. InsertInRange'
  BY DEF InsertInRange
<1>2. CountedUntilMarked'
  BY DEF CountedUntilMarked
<1>3. OnlyMarkedOutlive'
  BY WorkerParts DEF OnlyMarkedOutlive, Live, Past
<1>4. SpawnedInOrder'
  BY DEF SpawnedInOrder
<1> QED
  BY <1>1, <1>2, <1>3, <1>4

\* After a reap, CountedUntilMarked still holds: it marks whom it ends.
LEMMA ReapEffect ==
    ASSUME TypeOK, CountedUntilMarked, NEW t \in Tasks, NEW killAll \in BOOLEAN,
           Reap(t, killAll)
    PROVE  /\ CountedUntilMarked'
           /\ marked \subseteq marked'
           /\ UNCHANGED <<thread, tracked>>
<1>1. \A w \in Workers : w \notin marked' => status'[w] = status[w]
  BY DEF Reap, TypeOK
<1>2. marked \subseteq marked' /\ UNCHANGED <<thread, tracked>>
  BY DEF Reap
<1> QED
  BY <1>1, <1>2 DEF CountedUntilMarked

\* The check of the workers, in or past time.
LEMMA ReapingInductive ==
    ASSUME IInv, NEW t \in Tasks, CheckWorkers(t) \/ TimeoutWorkers(t)
    PROVE  InsertInRange' /\ SpawnedInOrder' /\ CountedUntilMarked' /\ OnlyMarkedOutlive'
<1> USE DEF IInv
<1>1. PICK killAll \in BOOLEAN : Reap(t, killAll)
  BY DEF CheckWorkers, TimeoutWorkers
<1>2. /\ CountedUntilMarked'
      /\ marked \subseteq marked'
      /\ UNCHANGED <<next, thread, tracked>>
  BY <1>1, ReapEffect DEF CheckWorkers, TimeoutWorkers
<1>3. /\ phase[t] = "watch"
      /\ phase'[t] \in {"watch", "spawn", "drain"}
      /\ \A u \in Tasks \ {t} : phase'[u] = phase[u]
  BY DEF CheckWorkers, TimeoutWorkers, Go, TypeOK
<1>4. InsertInRange' /\ SpawnedInOrder'
  BY <1>2, <1>3 DEF InsertInRange, SpawnedInOrder
<1>5. OnlyMarkedOutlive'
  BY <1>2, <1>3, WorkerParts DEF OnlyMarkedOutlive, Live, Past
<1> QED
  BY <1>2, <1>4, <1>5

\* The wait at the end is what makes OnlyMarkedOutlive true: a tracked worker
\* that is alive and not marked has a status that counts.
LEMMA DrainInductive ==
    ASSUME IInv, NEW t \in Tasks, Drain(t)
    PROVE  InsertInRange' /\ SpawnedInOrder' /\ CountedUntilMarked' /\ OnlyMarkedOutlive'
<1> USE DEF IInv, Drain, workerVars
<1>1. /\ phase[t] = "drain"
      /\ phase'[t] = "publish"
      /\ \A u \in Tasks \ {t} : phase'[u] = phase[u]
  BY DEF Go, TypeOK
<1>2. \A w \in Live : w[1] = t => w \in marked \/ w \notin tracked
  BY DEF Counted, CountedUntilMarked, Live, Of
<1>3. InsertInRange' /\ SpawnedInOrder' /\ CountedUntilMarked'
  BY <1>1 DEF InsertInRange, SpawnedInOrder, CountedUntilMarked
<1>4. OnlyMarkedOutlive'
  BY <1>1, <1>2, WorkerParts DEF OnlyMarkedOutlive, Live, Past
<1> QED
  BY <1>3, <1>4

LEMMA CollectorInductive ==
    ASSUME IInv, NEW t \in Tasks, CollectorStep(t)
    PROVE  InsertInRange' /\ SpawnedInOrder' /\ CountedUntilMarked' /\ OnlyMarkedOutlive'
<1> USE DEF IInv
<1>1. CASE StartCollector(t) \/ JobsSpawned(t) \/ Publish(t) \/ FreeTask(t)
  <2>1. UNCHANGED <<next, thread, status, tracked, marked>>
    BY <1>1 DEF StartCollector, JobsSpawned, Publish, FreeTask, workerVars
  <2>2. /\ phase[t] # "insert" /\ phase'[t] # "insert"
        /\ Past(t)' => Past(t)
        /\ \A u \in Tasks \ {t} : phase'[u] = phase[u]
    BY <1>1 DEF StartCollector, JobsSpawned, Publish, FreeTask, Go, Past, TypeOK
  <2>3. InsertInRange' /\ SpawnedInOrder' /\ CountedUntilMarked'
    BY <2>1, <2>2 DEF InsertInRange, SpawnedInOrder, CountedUntilMarked
  <2>4. OnlyMarkedOutlive'
    BY <2>1, <2>2, WorkerParts DEF OnlyMarkedOutlive, Live, Past
  <2> QED
    BY <2>3, <2>4
<1>2. CASE SpawnWorker(t)
  <2>1. /\ phase[t] = "spawn" /\ next[t] \in Jobs
        /\ phase' = [phase EXCEPT ![t] = "insert"]
        /\ thread' = [thread EXCEPT ![<<t, next[t]>>] = "start"]
        /\ UNCHANGED <<next, status, tracked, marked>>
    BY <1>2, CollectorAssumption DEF SpawnWorker, Go, Worker, TypeOK, Jobs
  <2>2. thread[<<t, next[t]>>] = "none"
    BY <2>1 DEF SpawnedInOrder, Jobs
  <2>3. InsertInRange' /\ CountedUntilMarked'
    <3>1. InsertInRange'
      BY <2>1 DEF InsertInRange, TypeOK, Jobs
    <3>2. \A w \in Workers : thread'[w] # "done" => thread[w] # "done"
      BY <2>1, <2>2 DEF TypeOK
    <3> QED
      BY <2>1, <3>1, <3>2 DEF CountedUntilMarked
  <2>4. SpawnedInOrder'
    BY <2>1, WorkerParts DEF SpawnedInOrder, TypeOK
  <2>5. OnlyMarkedOutlive'
    <3> SUFFICES ASSUME NEW w \in Live', Past(w[1])'
                 PROVE  w \in marked' \/ w \notin tracked'
      BY DEF OnlyMarkedOutlive
    <3>1. w[1] # t /\ Past(w[1])
      BY <2>1, WorkerParts DEF Past, Live, TypeOK
    <3>2. w \in Live
      BY <2>1, <3>1 DEF Live, TypeOK
    <3> QED
      BY <2>1, <3>1, <3>2 DEF OnlyMarkedOutlive
  <2> QED
    BY <2>3, <2>4, <2>5
<1>3. CASE InsertWorker(t)
  <2>1. /\ phase[t] = "insert"
        /\ phase'[t] \in {"watch", "spawn"}
        /\ \A u \in Tasks \ {t} : phase'[u] = phase[u]
        /\ next' = [next EXCEPT ![t] = @ + 1]
        /\ tracked' \subseteq tracked \cup {<<t, next[t]>>}
        /\ UNCHANGED <<thread, status, marked>>
    BY <1>3 DEF InsertWorker, Go, Worker, TypeOK
  <2>2. InsertInRange' /\ CountedUntilMarked'
    BY <2>1 DEF InsertInRange, CountedUntilMarked, TypeOK
  <2>3. SpawnedInOrder'
    <3>1. /\ \A u \in Tasks : next[u] \in Nat
          /\ next'[t] = next[t] + 1
          /\ \A u \in Tasks \ {t} : next'[u] = next[u]
      BY <2>1 DEF TypeOK
    <3> SUFFICES ASSUME NEW u \in Tasks, NEW j \in Jobs, thread[<<u, j>>] # "none"
                 PROVE  j < next'[u] \/ (phase'[u] = "insert" /\ j = next'[u])
      BY <2>1 DEF SpawnedInOrder
    <3>2. j < next[u] \/ (phase[u] = "insert" /\ j = next[u])
      BY DEF SpawnedInOrder
    <3>3. CASE u = t
      BY <3>1, <3>2, <3>3, JobNumbers
    <3>4. CASE u # t
      BY <2>1, <3>1, <3>2, <3>4
    <3> QED
      BY <3>3, <3>4
  <2>4. OnlyMarkedOutlive'
    BY <2>1, WorkerParts DEF OnlyMarkedOutlive, Live, Past
  <2> QED
    BY <2>2, <2>3, <2>4
<1> QED
  BY <1>1, <1>2, <1>3, ReapingInductive, DrainInductive DEF CollectorStep

-----------------------------------------------------------------------------
LEMMA NextInductive == IInv /\ [Next]_vars => IInv'
<1> SUFFICES ASSUME IInv, [Next]_vars PROVE IInv'
  OBVIOUS
<1>1. CASE UNCHANGED vars
  BY <1>1 DEF IInv, TypeOK, InsertInRange, SpawnedInOrder, CountedUntilMarked,
              OnlyMarkedOutlive, Live, Past, vars
<1>2. CASE SchedulerStep
  <2>1. /\ UNCHANGED <<next, thread, status, tracked, marked>>
        /\ \A t \in Tasks : \/ phase'[t] = phase[t]
                            \/ phase[t] = "none" /\ phase'[t] = "created"
    BY <1>2 DEF SchedulerStep, SpawnCollector, ListCollector, workerVars, IInv, TypeOK
  <2>2. IInv /\ TypeOK'
    BY <1>2, SchedulerTypes DEF IInv
  <2> QED
    BY <2>1, <2>2, OtherStepsInductive
<1>3. ASSUME NEW t \in Tasks, CollectorStep(t)
      PROVE  IInv'
  BY <1>3, CollectorTypes, CollectorInductive DEF IInv
<1>4. ASSUME NEW t \in Tasks, Tick(t)
      PROVE  IInv'
  <2>1. IInv /\ TypeOK'
    BY <1>4, TickTypes DEF IInv
  <2>2. UNCHANGED <<phase, next, thread, status, tracked, marked>>
    BY <1>4 DEF Tick, workerVars
  <2> QED
    BY <2>1, <2>2, OtherStepsInductive
<1>5. ASSUME NEW w \in Workers, WorkerStep(w)
      PROVE  IInv'
  BY <1>5, WorkerStepInductive
<1>6. ASSUME NEW w \in Workers, SchedulerWait(w) \/ CommandExits(w)
      PROVE  IInv'
  <2>1. IInv /\ TypeOK'
    BY <1>6, WorkerTypes DEF IInv
  <2>2. UNCHANGED <<phase, next, thread, status, tracked, marked>>
    BY <1>6 DEF SchedulerWait, CommandExits, taskVars
  <2> QED
    BY <2>1, <2>2, OtherStepsInductive
<1> QED
  BY <1>1, <1>2, <1>3, <1>4, <1>5, <1>6 DEF Next

\* Threads, tables and clocks of the agent keep their types.
THEOREM CollectorTypeCorrect == Spec => []TypeOK
<1>1. IInv => TypeOK
  BY DEF IInv
<1> QED
  BY InitIInv, NextInductive, <1>1, PTL DEF Spec

\* Whatever the collectors, their jobs and the delays of the threads: a worker
\* that outlives the run it belongs to was declared finished by a reap of
\* gpfReapTimeoutWorkers or was never inserted into workerPids.
THEOREM OnlyMarkedWorkersOutlive == Spec => []OnlyMarkedOutlive
<1>1. IInv => OnlyMarkedOutlive
  BY DEF IInv
<1> QED
  BY InitIInv, NextInductive, <1>1, PTL DEF Spec

-----------------------------------------------------------------------------
(* The promise of RunPromise is kept.                                       *)

\* Neither running nor about to start.
Quiet(w) == child[w] # "running" /\ thread[w] \notin {"start", "fork"}

\* A job that is not repeated forks once, and its worker waits as long as the
\* command runs.
CommandOnce ==
    \A w \in Plain :
        /\ thread[w] \in {"none", "start", "fork"} => child[w] = "none"
        /\ child[w] = "running" => thread[w] = "wait"
        /\ thread[w] = "wait" => child[w] # "none"
        /\ thread[w] # "loop"

\* Without reused thread ids every worker gets into workerPids, and only those
\* that have a thread.
AllTracked == \A t \in Tasks, j \in Jobs : j < next[t] => <<t, j>> \in tracked
SpawnedFirst ==
    /\ \A w \in tracked : thread[w] # "none"
    /\ marked \subseteq tracked
    /\ \A t \in Tasks : phase[t] = "insert" => thread[<<t, next[t]>>] # "none"

\* A reap that finds the workers settled gives up only what has ended.
MarkedQuiet == \A w \in Plain \cap marked : Quiet(w)

\* A serial collector spawns a worker when those before it are done.
OneByOne ==
    \A t \in Serial, j \in Jobs :
        /\ j \notin Cyclic
        /\ \/ j + 1 < next[t]
           \/ phase[t] \in {"spawn", "insert"} /\ j < next[t]
        => Quiet(<<t, j>>)

\* A run that has not begun has spawned nothing.
FirstJob == \A t \in Tasks : phase[t] \in {"none", "created", "failed"} => next[t] = 1

PromiseInv ==
    IInv /\ CommandOnce /\ AllTracked /\ SpawnedFirst /\ MarkedQuiet /\ OneByOne /\ FirstJob

LEMMA InitPromise == Init => PromiseInv
<1> SUFFICES ASSUME Init PROVE PromiseInv
  OBVIOUS
<1>1. IInv
  BY InitIInv
<1>2. AllTracked /\ OneByOne
  BY CollectorAssumption DEF Init, AllTracked, OneByOne, Jobs
<1>3. CommandOnce /\ SpawnedFirst /\ MarkedQuiet /\ FirstJob
  BY DEF Init, CommandOnce, SpawnedFirst, MarkedQuiet, FirstJob, Plain
<1> QED
  BY <1>1, <1>2, <1>3 DEF PromiseInv

\* A step that lets nothing of the threads and tables change but the phases.
LEMMA PhaseStep ==
    ASSUME PromiseInv, IInv', NEW t \in Tasks,
           \A u \in Tasks \ {t} : phase'[u] = phase[u],
           phase'[t] # "insert",
           phase'[t] = "spawn" => phase[t] \in {"spawn", "created"},
           phase'[t] \in {"none", "created", "failed"} =>
              phase[t] \in {"none", "created", "failed"},
           UNCHANGED <<next, thread, child, tracked, marked>>
    PROVE  PromiseInv'
<1> USE DEF PromiseInv
<1>1. CommandOnce' /\ AllTracked' /\ SpawnedFirst' /\ MarkedQuiet' /\ FirstJob'
  BY DEF CommandOnce, AllTracked, SpawnedFirst, MarkedQuiet, Quiet, FirstJob
<1>2. OneByOne'
  <2>1. phase[t] = "created" => \A j \in Jobs : ~(j < next[t])
    BY CollectorAssumption DEF FirstJob, Jobs
  <2>2. \A u \in Tasks : phase'[u] \in {"spawn", "insert"} =>
           \/ phase[u] \in {"spawn", "insert"}
           \/ \A j \in Jobs : ~(j < next[u])
    BY <2>1
  <2>3. Serial \subseteq Tasks
    BY CollectorAssumption
  <2> QED
    BY <2>2, <2>3 DEF OneByOne, Quiet
<1> QED
  BY <1>1, <1>2

\* A step of the commands or of a worker thread: a worker moves on, and a
\* command that is not repeated starts when its worker goes from "fork".
LEMMA WorkerKeepsPromise ==
    ASSUME PromiseInv, IInv', NEW w \in Workers,
           UNCHANGED <<phase, next, tracked, marked>>,
           \A u \in Workers \ {w} : thread'[u] = thread[u] /\ child'[u] = child[u],
           (thread[w] = "none") <=> (thread'[w] = "none"),
           w \in Plain => /\ Quiet(w) => Quiet(w)'
                          /\ CommandOnce => 
                               /\ thread'[w] \in {"none", "start", "fork"} => child'[w] = "none"
                               /\ child'[w] = "running" => thread'[w] = "wait"
                               /\ thread'[w] = "wait" => child'[w] # "none"
                               /\ thread'[w] # "loop"
    PROVE  PromiseInv'
<1> USE DEF PromiseInv
<1>1. CommandOnce'
  BY DEF CommandOnce, Plain
<1>2. AllTracked' /\ FirstJob'
  BY DEF AllTracked, FirstJob
<1>3. SpawnedFirst'
  <2>1. \A u \in Workers : thread[u] # "none" => thread'[u] # "none"
    OBVIOUS
  <2>2. \A t \in Tasks : phase[t] = "insert" => <<t, next[t]>> \in Workers
    BY CollectorAssumption DEF IInv, InsertInRange, TypeOK, Workers, Jobs
  <2>3. tracked \subseteq Workers
    BY DEF IInv, TypeOK
  <2> QED
    BY <2>1, <2>2, <2>3 DEF SpawnedFirst
<1>4. \A u \in Plain : Quiet(u) => Quiet(u)'
  BY DEF Quiet, Plain
<1>5. MarkedQuiet'
  BY <1>4 DEF MarkedQuiet
<1>6. OneByOne'
  <2>1. \A t \in Serial, j \in Jobs : j \notin Cyclic => <<t, j>> \in Plain
    BY CollectorAssumption DEF Plain, Workers
  <2> QED
    BY <1>4, <2>1 DEF OneByOne
<1> QED
  BY <1>1, <1>2, <1>3, <1>5, <1>6

LEMMA ThreadsKeepPromise ==
    ASSUME PromiseInv, IInv', NEW w \in Workers,
           WorkerStep(w) \/ SchedulerWait(w) \/ CommandExits(w)
    PROVE  PromiseInv'
<1> USE DEF At, CycleDone, taskVars, Quiet
<1>0. /\ thread \in [Workers -> ThreadStates]
      /\ child \in [Workers -> {"none", "running", "zombie", "gone"}]
  BY DEF PromiseInv, IInv, TypeOK
<1>1. CASE StartWorker(w) \/ StopCycle(w) \/ NextCycle(w)
  <2>1. /\ UNCHANGED <<phase, next, tracked, marked, child>>
        /\ \A u \in Workers \ {w} : thread'[u] = thread[u]
        /\ thread[w] \in {"start", "loop"}
        /\ thread'[w] \in {"loop", "fork", "leave", "done"}
        /\ w \in Plain => thread'[w] # "loop" 
        /\ thread[w] = "loop" \/ thread'[w] \in {"loop", "fork", "done"}
    BY <1>0, <1>1 DEF StartWorker, StopCycle, NextCycle, Plain
  <2> QED
    BY <2>1, WorkerKeepsPromise DEF CommandOnce, PromiseInv
<1>2. CASE Fork(w)
  <2>1. /\ UNCHANGED <<phase, next, tracked, marked>>
        /\ thread[w] = "fork"
        /\ \A u \in Workers \ {w} : thread'[u] = thread[u] /\ child'[u] = child[u]
        /\ thread'[w] # "none"
    BY <1>0, <1>2 DEF Fork
  <2>2. w \in Plain => \/ thread'[w] = "wait" /\ child'[w] = "running"
                       \/ thread'[w] = "leave" /\ child'[w] = child[w]
    BY <1>0, <1>2 DEF Fork, Plain
  <2> QED
    BY <2>1, <2>2, WorkerKeepsPromise DEF CommandOnce, PromiseInv
<1>3. CASE WaitEnds(w)
  <2>1. /\ UNCHANGED <<phase, next, tracked, marked>>
        /\ thread[w] = "wait"
        /\ \A u \in Workers \ {w} : thread'[u] = thread[u] /\ child'[u] = child[u]
        /\ thread'[w] # "none"
        /\ child'[w] = "gone"
    BY <1>0, <1>3 DEF WaitEnds
  <2>2. w \in Plain => thread'[w] = "leave"
    BY <1>0, <1>3 DEF WaitEnds, Plain
  <2> QED
    BY <2>1, <2>2, WorkerKeepsPromise
<1>4. CASE EndWorker(w) \/ FinishWorker(w)
  <2>1. /\ UNCHANGED <<phase, next, tracked, marked, child>>
        /\ thread[w] \in {"leave", "tail"} /\ thread'[w] \in {"tail", "done"}
        /\ \A u \in Workers \ {w} : thread'[u] = thread[u]
    BY <1>0, <1>4 DEF EndWorker, FinishWorker
  <2> QED
    BY <2>1, WorkerKeepsPromise DEF CommandOnce, PromiseInv
<1>5. CASE SchedulerWait(w) \/ CommandExits(w)
  <2>1. /\ UNCHANGED <<phase, next, tracked, marked, thread>>
        /\ \A u \in Workers \ {w} : child'[u] = child[u]
        /\ child[w] \in {"running", "zombie"} /\ child'[w] \in {"zombie", "gone"}
    BY <1>0, <1>5 DEF SchedulerWait, CommandExits
  <2> QED
    BY <2>1, WorkerKeepsPromise DEF CommandOnce, PromiseInv
<1> QED
  BY <1>1, <1>2, <1>3, <1>4, <1>5 DEF WorkerStep

LEMMA SpawnKeepsPromise ==
    ASSUME PromiseInv, IInv', NEW t \in Tasks, SpawnWorker(t)
    PROVE  PromiseInv'
<1> USE DEF PromiseInv
<1>1. /\ thread \in [Workers -> ThreadStates] /\ phase \in [Tasks -> Phases]
      /\ tracked \subseteq Workers /\ Serial \subseteq Tasks /\ NumJobs \in Nat
  BY CollectorAssumption DEF IInv, TypeOK
<1> DEFINE n == <<t, next[t]>>
<1>2. /\ phase[t] = "spawn" /\ next[t] \in Jobs /\ n \in Workers
      /\ UNCHANGED <<next, child, tracked, marked>>
  BY CollectorAssumption, WorkerParts DEF SpawnWorker, IInv, TypeOK, Jobs
<1>3. /\ phase'[t] = "insert" /\ \A u \in Tasks \ {t} : phase'[u] = phase[u]
      /\ thread'[n] = "start" /\ \A u \in Workers \ {n} : thread'[u] = thread[u]
  BY <1>1, <1>2 DEF SpawnWorker, Go, Worker
<1>4. thread[n] = "none"
  BY <1>1, <1>2 DEF IInv, SpawnedInOrder, Jobs
<1>5. n \notin tracked /\ n \notin marked
  BY <1>4 DEF SpawnedFirst
<1> HIDE DEF n
<1>6. CommandOnce'
  BY <1>2, <1>3, <1>4 DEF CommandOnce, Plain
<1>7. AllTracked' /\ FirstJob'
  BY <1>2, <1>3 DEF AllTracked, FirstJob
<1>8. SpawnedFirst'
  <2>1. \A w \in tracked' : thread'[w] # "none"
    BY <1>1, <1>2, <1>3 DEF SpawnedFirst
  <2>2. \A u \in Tasks : phase'[u] = "insert" => thread'[<<u, next'[u]>>] # "none"
    <3> SUFFICES ASSUME NEW u \in Tasks, phase'[u] = "insert"
                 PROVE  thread'[<<u, next[u]>>] # "none"
      BY <1>2
    <3>1. CASE u = t
      BY <1>3, <3>1 DEF n
    <3>2. CASE u # t
      <4>1. phase[u] = "insert" /\ thread[<<u, next[u]>>] # "none"
        BY <1>3, <3>2 DEF SpawnedFirst
      <4>2. <<u, next[u]>> \in Workers \ {n}
        BY <3>2, <4>1, CollectorAssumption DEF IInv, InsertInRange, TypeOK, Workers, Jobs, n
      <4> QED
        BY <1>3, <4>1, <4>2
    <3> QED
      BY <3>1, <3>2
  <2> QED
    BY <1>2, <2>1, <2>2 DEF SpawnedFirst
<1>9. MarkedQuiet'
  BY <1>2, <1>3, <1>5 DEF MarkedQuiet, Quiet, Plain
<1>10. OneByOne'
  <2> SUFFICES ASSUME NEW u \in Serial, NEW j \in Jobs, j \notin Cyclic,
                      \/ j + 1 < next'[u]
                      \/ phase'[u] \in {"spawn", "insert"} /\ j < next'[u]
               PROVE  Quiet(<<u, j>>)'
    BY DEF OneByOne
  <2>1. u \in Tasks /\ <<u, j>> \in Workers /\ j \in Nat /\ next[u] \in Nat
    BY <1>1, WorkerParts DEF IInv, TypeOK, Jobs
  <2>2. /\ \/ j + 1 < next[u]
           \/ phase[u] \in {"spawn", "insert"} /\ j < next[u]
        /\ j < next[u]
    BY <1>2, <1>3, <2>1
  <2>3. Quiet(<<u, j>>)
    BY <2>2 DEF OneByOne
  <2>4. <<u, j>> # n
    BY <2>1, <2>2 DEF n
  <2> QED
    BY <1>2, <1>3, <2>1, <2>3, <2>4 DEF Quiet
<1> QED
  BY <1>6, <1>7, <1>8, <1>9, <1>10

LEMMA InsertKeepsPromise ==
    ASSUME IdReuse = FALSE, PromiseInv, IInv', NEW t \in Tasks, InsertWorker(t)
    PROVE  PromiseInv'
<1> USE DEF PromiseInv
<1>1. /\ phase \in [Tasks -> Phases] /\ next \in [Tasks -> 1..(NumJobs + 1)]
      /\ tracked \subseteq Workers /\ Serial \subseteq Tasks /\ NumJobs \in Nat
  BY CollectorAssumption DEF IInv, TypeOK
<1>2. /\ phase[t] = "insert"
      /\ tracked' = tracked \cup {<<t, next[t]>>}
      /\ UNCHANGED <<thread, child, marked>>
  BY DEF InsertWorker, Worker
<1>3. /\ phase'[t] = (IF t \in Serial THEN "watch" ELSE "spawn")
      /\ \A u \in Tasks \ {t} : phase'[u] = phase[u]
      /\ next'[t] = next[t] + 1 /\ \A u \in Tasks \ {t} : next'[u] = next[u]
  BY <1>1 DEF InsertWorker, Go
<1>4. CommandOnce' /\ MarkedQuiet'
  BY <1>2 DEF CommandOnce, MarkedQuiet, Quiet
<1>5. FirstJob'
  BY <1>2, <1>3 DEF FirstJob
<1>6. AllTracked'
  BY <1>1, <1>2, <1>3 DEF AllTracked, Jobs
<1>7. SpawnedFirst'
  BY <1>2, <1>3 DEF SpawnedFirst
<1>8. OneByOne'
  <2> SUFFICES ASSUME NEW u \in Serial, NEW j \in Jobs, j \notin Cyclic,
                      \/ j + 1 < next'[u]
                      \/ phase'[u] \in {"spawn", "insert"} /\ j < next'[u]
               PROVE  Quiet(<<u, j>>)'
    BY DEF OneByOne
  <2>1. u \in Tasks /\ j \in Nat /\ next[u] \in Nat
    BY <1>1 DEF Jobs
  <2>2. \/ j + 1 < next[u]
        \/ phase[u] \in {"spawn", "insert"} /\ j < next[u]
    BY <1>2, <1>3, <2>1
  <2>3. Quiet(<<u, j>>)
    BY <2>2 DEF OneByOne
  <2> QED
    BY <1>2, <2>3 DEF Quiet
<1> QED
  BY <1>4, <1>5, <1>6, <1>7, <1>8

\* What a reap gives up has ended, if the workers have settled.
LEMMA ReapPromise ==
    ASSUME Prompt, PromiseInv, NEW t \in Tasks, NEW killAll \in BOOLEAN,
           Reap(t, killAll), Settled(t)
    PROVE  /\ UNCHANGED <<thread, tracked>>
           /\ CommandOnce' /\ marked' \subseteq tracked
           /\ MarkedQuiet'
           /\ \A w \in Plain : Quiet(w) => Quiet(w)'
           /\ \A w \in Workers : child'[w] # child[w] =>
                 child[w] = "running" /\ child'[w] = "zombie"
<1> USE DEF PromiseInv
<1>1. /\ child \in [Workers -> {"none", "running", "zombie", "gone"}]
      /\ status \in [Workers -> {"INIT", "RUN", "END", "ERROR"}]
      /\ thread \in [Workers -> ThreadStates]
      /\ tracked \subseteq Workers
  BY DEF IInv, TypeOK
<1> DEFINE dead == {w \in Of(t) \cap tracked : ~ended[w] /\ ~Alive(w)}
<1>2. /\ UNCHANGED <<thread, tracked>>
      /\ marked' = marked \cup dead
  BY DEF Reap
<1>3. \A w \in Workers : child'[w] # child[w] => child[w] = "running" /\ child'[w] = "zombie"
  BY <1>1 DEF Reap
<1>4. \A w \in Plain : w \in Workers /\ w[2] \notin Cyclic
  BY DEF Plain
<1>5. CommandOnce'
  BY <1>2, <1>3, <1>4 DEF CommandOnce
<1>6. marked' \subseteq tracked
  BY <1>2 DEF SpawnedFirst
<1>7. \A w \in Plain : Quiet(w) => Quiet(w)'
  BY <1>2, <1>3, <1>4 DEF Quiet
<1>8. \A w \in Plain \cap dead : Quiet(w)
  <2> SUFFICES ASSUME NEW w \in Plain, w \in dead
               PROVE  Quiet(w)
    OBVIOUS
  <2>1. thread[w] \notin {"none", "start", "fork"}
    BY <1>4 DEF Settled, SpawnedFirst
  <2>2. CASE w \in marked
    BY <2>2 DEF MarkedQuiet
  <2>3. CASE w \notin marked
    <3>1. CASE thread[w] = "done"
      BY <2>1, <3>1 DEF CommandOnce, Quiet
    <3>2. CASE thread[w] # "done"
      <4>1. status[w] \in {"INIT", "RUN"}
        BY <1>4, <2>3, <3>2 DEF IInv, CountedUntilMarked
      <4>2. child[w] \notin {"running", "zombie"}
        BY <1>4, <4>1 DEF Alive
      <4> QED
        BY <2>1, <4>2 DEF Quiet
    <3> QED
      BY <3>1, <3>2
  <2> QED
    BY <2>2, <2>3
<1>9. MarkedQuiet'
  BY <1>2, <1>7, <1>8 DEF MarkedQuiet
<1> QED
  BY <1>2, <1>3, <1>5, <1>6, <1>7, <1>9

LEMMA ReapingKeepsPromise ==
    ASSUME Prompt, PromiseInv, IInv', NEW t \in Tasks,
           CheckWorkers(t) \/ TimeoutWorkers(t)
    PROVE  PromiseInv'
<1> USE DEF PromiseInv
<1>1. /\ phase \in [Tasks -> Phases] /\ next \in [Tasks -> 1..(NumJobs + 1)]
      /\ Serial \subseteq Tasks /\ NumJobs \in Nat
  BY CollectorAssumption DEF IInv, TypeOK
<1>2. PICK killAll \in BOOLEAN : Reap(t, killAll) /\ Settled(t)
  BY DEF CheckWorkers, TimeoutWorkers
<1>3. /\ UNCHANGED <<next, thread, tracked>>
      /\ CommandOnce' /\ marked' \subseteq tracked /\ MarkedQuiet'
      /\ \A w \in Plain : Quiet(w) => Quiet(w)'
  BY <1>2, ReapPromise DEF CheckWorkers, TimeoutWorkers
<1>4. /\ phase[t] = "watch" /\ \A u \in Tasks \ {t} : phase'[u] = phase[u]
      /\ phase'[t] \in {"watch", "spawn", "drain"}
      /\ phase'[t] = "spawn" => Counted(t)' = {}
  BY <1>1 DEF CheckWorkers, TimeoutWorkers, Go
<1>5. AllTracked' /\ FirstJob' /\ SpawnedFirst'
  BY <1>3, <1>4 DEF AllTracked, FirstJob, SpawnedFirst
<1>6. OneByOne'
  <2> SUFFICES ASSUME NEW u \in Serial, NEW j \in Jobs, j \notin Cyclic,
                      \/ j + 1 < next'[u]
                      \/ phase'[u] \in {"spawn", "insert"} /\ j < next'[u]
               PROVE  Quiet(<<u, j>>)'
    BY DEF OneByOne
  <2>1. u \in Tasks /\ <<u, j>> \in Plain
    BY <1>1, WorkerParts DEF Plain
  <2>2. CASE \/ j + 1 < next[u]
             \/ phase[u] \in {"spawn", "insert"} /\ j < next[u]
    <3>1. Quiet(<<u, j>>)
      BY <2>2 DEF OneByOne
    <3> QED
      BY <1>3, <2>1, <3>1
  <2>3. CASE u = t /\ phase'[t] = "spawn" /\ j < next[t]
    <3> DEFINE w == <<u, j>>
    <3>1. w \in tracked' /\ Counted(u)' = {} /\ w \in Of(u)
      BY <1>3, <1>4, <2>1, <2>3 DEF AllTracked, Of, Plain
    <3>2. status'[w] \notin {"INIT", "RUN"}
      BY <3>1 DEF Counted, Of
    <3>3. w \in marked' \/ thread'[w] = "done"
      BY <2>1, <3>2 DEF IInv, CountedUntilMarked, Plain
    <3> QED
      BY <1>3, <2>1, <3>3 DEF MarkedQuiet, CommandOnce, Quiet
  <2>4. next' = next
    BY <1>3
  <2>5. CASE u = t
    BY <1>4, <2>2, <2>3, <2>4, <2>5
  <2>6. CASE u # t
    <3>1. phase'[u] = phase[u]
      BY <1>4, <2>1, <2>6
    <3> QED
      BY <2>2, <2>4, <3>1
  <2> QED
    BY <2>5, <2>6
<1> QED
  BY <1>3, <1>5, <1>6

LEMMA CollectorKeepsPromise ==
    ASSUME Prompt, IdReuse = FALSE, PromiseInv, IInv', NEW t \in Tasks, CollectorStep(t)
    PROVE  PromiseInv'
<1>0. phase \in [Tasks -> Phases]
  BY DEF PromiseInv, IInv, TypeOK
<1>1. CASE StartCollector(t) \/ JobsSpawned(t) \/ Drain(t) \/ Publish(t) \/ FreeTask(t)
  <2>1. /\ UNCHANGED <<next, thread, child, tracked, marked>>
        /\ \A u \in Tasks \ {t} : phase'[u] = phase[u]
        /\ phase'[t] \notin {"insert", "none", "created"}
        /\ phase'[t] \in {"spawn", "failed"} => phase[t] = "created"
    BY <1>0, <1>1 DEF StartCollector, JobsSpawned, Drain, Publish, FreeTask, Go, workerVars
  <2> QED
    BY <2>1, PhaseStep
<1>2. CASE SpawnWorker(t)
  BY <1>2, SpawnKeepsPromise
<1>3. CASE InsertWorker(t)
  BY <1>3, InsertKeepsPromise
<1>4. CASE CheckWorkers(t) \/ TimeoutWorkers(t)
  BY <1>4, ReapingKeepsPromise
<1> QED
  BY <1>1, <1>2, <1>3, <1>4 DEF CollectorStep

LEMMA PromiseInductive ==
    ASSUME Prompt, IdReuse = FALSE, PromiseInv, [Next]_vars
    PROVE  PromiseInv'
<1>0. IInv /\ IInv'
  BY NextInductive DEF PromiseInv
<1>1. CASE UNCHANGED <<phase, next, thread, child, tracked, marked>>
  BY <1>0, <1>1 DEF PromiseInv, CommandOnce, AllTracked, SpawnedFirst, MarkedQuiet, Quiet,
                    OneByOne, FirstJob
<1>2. CASE UNCHANGED vars
  BY <1>1, <1>2 DEF vars
<1>3. ASSUME NEW t \in Tasks, SpawnCollector(t)
      PROVE  PromiseInv'
  <2>1. /\ UNCHANGED <<next, thread, child, tracked, marked>>
        /\ phase[t] = "none" /\ phase'[t] = "created"
        /\ \A u \in Tasks \ {t} : phase'[u] = phase[u]
    BY <1>0, <1>3 DEF SpawnCollector, workerVars, IInv, TypeOK
  <2> QED
    BY <1>0, <2>1, PhaseStep
<1>4. CASE \E t \in Tasks : ListCollector(t) \/ Tick(t)
  BY <1>1, <1>4 DEF ListCollector, Tick, workerVars
<1>5. ASSUME NEW t \in Tasks, CollectorStep(t)
      PROVE  PromiseInv'
  BY <1>0, <1>5, CollectorKeepsPromise
<1>6. ASSUME NEW w \in Workers, WorkerStep(w) \/ SchedulerWait(w) \/ CommandExits(w)
      PROVE  PromiseInv'
  BY <1>0, <1>6, ThreadsKeepPromise
<1> QED
  BY <1>2, <1>3, <1>4, <1>5, <1>6 DEF Next, SchedulerStep

\* When a run is over, none of its commands that are not repeated is alive or
\* about to start.
LEMMA PastQuiet ==
    ASSUME PromiseInv, NEW w \in Plain, Past(w[1])
    PROVE  Quiet(w)
<1> USE DEF PromiseInv
<1>1. w \in Workers /\ w[1] \in Tasks /\ w[2] \in Jobs /\ w = <<w[1], w[2]>>
  BY WorkerParts DEF Plain, Workers
<1>2. CASE w \notin Live
  BY <1>1, <1>2 DEF CommandOnce, Quiet, Live
<1>3. CASE w \in Live
  <2>1. w[2] < next[w[1]]
    BY <1>1, <1>3 DEF IInv, SpawnedInOrder, Live, Past
  <2>2. w \in tracked
    BY <1>1, <2>1 DEF AllTracked
  <2>3. w \in marked
    BY <1>3, <2>2 DEF IInv, OnlyMarkedOutlive
  <2> QED
    BY <2>3 DEF MarkedQuiet
<1> QED
  BY <1>2, <1>3

\* A run that has no thread yet has no command.
LEMMA BeforeQuiet ==
    ASSUME PromiseInv, NEW w \in Workers,
           phase[w[1]] \in {"none", "created", "failed"}
    PROVE  thread[w] = "none"
<1>1. w[1] \in Tasks /\ w[2] \in Jobs /\ w = <<w[1], w[2]>>
  BY WorkerParts DEF Workers
<1>2. next[w[1]] = 1 /\ ~(w[2] < 1)
  <2>1. next[w[1]] = 1
    BY <1>1 DEF PromiseInv, FirstJob
  <2>2. ~(w[2] < 1)
    BY <1>1, CollectorAssumption DEF Jobs
  <2> QED
    BY <2>1, <2>2
<1> QED
  BY <1>1, <1>2 DEF PromiseInv, IInv, SpawnedInOrder

\* The worker of a serial collector that is about to fork is the only one.
LEMMA SerialAlone ==
    ASSUME PromiseInv, NEW w \in Plain, w[1] \in Serial, thread[w] = "fork",
           NEW u \in Plain, u[1] = w[1]
    PROVE  child[u] # "running"
<1> USE DEF PromiseInv
<1> DEFINE t == w[1]
<1>1. /\ w \in Workers /\ t \in Tasks /\ w[2] \in Jobs /\ w = <<t, w[2]>> /\ w[2] \notin Cyclic
      /\ u \in Workers /\ u[2] \in Jobs /\ u = <<t, u[2]>> /\ u[2] \notin Cyclic
  BY WorkerParts DEF Plain, Workers
<1>2. /\ w[2] \in Nat /\ u[2] \in Nat /\ next[t] \in Nat
  BY <1>1, CollectorAssumption DEF IInv, TypeOK, Jobs
<1>3. w[2] < next[t] \/ (phase[t] = "insert" /\ w[2] = next[t])
  <2> DEFINE k == w[2]
  <2>1. thread[<<t, k>>] # "none" /\ k \in Jobs /\ t \in Tasks
    BY <1>1
  <2>2. \A j \in Jobs : thread[<<t, j>>] # "none" =>
           j < next[t] \/ (phase[t] = "insert" /\ j = next[t])
    BY <1>1 DEF IInv, SpawnedInOrder
  <2> HIDE DEF k
  <2>3. k < next[t] \/ (phase[t] = "insert" /\ k = next[t])
    BY <2>1, <2>2
  <2> QED
    BY <2>3 DEF k
<1>4. ~Quiet(w)
  BY DEF Quiet
<1>5. ~(w[2] + 1 < next[t]) /\ ~(phase[t] \in {"spawn", "insert"} /\ w[2] < next[t])
  BY <1>1, <1>4 DEF OneByOne
<1> HIDE DEF t
<1>6. CASE u = w
  BY <1>6 DEF CommandOnce
<1>7. CASE u # w /\ u[2] < w[2]
  <2>1. u[2] + 1 < next[t] \/ (phase[t] \in {"spawn", "insert"} /\ u[2] < next[t])
    BY <1>2, <1>3, <1>7
  <2> QED
    BY <1>1, <2>1 DEF OneByOne, Quiet, t
<1>8. CASE u # w /\ ~(u[2] < w[2])
  <2>1. w[2] < u[2]
    BY <1>1, <1>2, <1>8
  <2>2. ~(u[2] < next[t]) /\ ~(phase[t] = "insert" /\ u[2] = next[t])
    BY <1>2, <1>3, <1>5, <2>1
  <2>3. thread[u] = "none"
    BY <1>1, <2>2 DEF IInv, SpawnedInOrder
  <2> QED
    BY <2>3 DEF CommandOnce
<1> QED
  BY <1>6, <1>7, <1>8

-----------------------------------------------------------------------------
(* Each step is one of RunPromise or leaves what it sees unchanged.         *)

\* What RunPromise sees depends on the phases and on the commands that are not
\* repeated.
LEMMA SeenUnchanged ==
    ASSUME \A t \in Tasks : /\ (phase'[t] = "none") <=> (phase[t] = "none")
                            /\ Past(t)' <=> Past(t)
                            /\ (phase'[t] = "failed") <=> (phase[t] = "failed")
    PROVE  RunState' = RunState
  BY DEF RunState

LEMMA CommandsEnd ==
    ASSUME TypeOK,
           \A w \in Plain : \/ child'[w] = child[w]
                            \/ child[w] # "none" /\ child'[w] \in {"zombie", "gone"}
    PROVE  LiveCommands' \subseteq LiveCommands /\ StartedCommands' = StartedCommands
  BY DEF LiveCommands, StartedCommands, Plain, TypeOK

LEMMA EndsIsPromise ==
    ASSUME RunState' = RunState, LiveCommands' \subseteq LiveCommands,
           StartedCommands' = StartedCommands
    PROVE  [Promise!Next]_(Promise!vars)
  BY DEF Promise!Next, Promise!Stop, Promise!vars

\* A run that is handed on, or never gets under way, is closed, and has no
\* command.
LEMMA CloseIsPromise ==
    ASSUME PromiseInv, NEW t \in Tasks,
           phase[t] \in {"created", "drain"},
           phase' = [phase EXCEPT ![t] = IF phase[t] = "drain" THEN "publish" ELSE "failed"],
           UNCHANGED child, phase[t] = "drain" => Counted(t) = {}
    PROVE  [Promise!Next]_(Promise!vars)
<1>1. /\ phase \in [Tasks -> Phases] /\ phase'[t] \in {"publish", "failed"}
      /\ \A u \in Tasks \ {t} : phase'[u] = phase[u]
  BY DEF PromiseInv, IInv, TypeOK
<1>2. RunState[t] = "open" /\ RunState' = [RunState EXCEPT ![t] = "closed"]
  BY <1>1 DEF RunState, Past
<1>3. LiveCommands' = LiveCommands /\ StartedCommands' = StartedCommands
  BY DEF LiveCommands, StartedCommands
<1>4. LiveCommands \cap ({t} \X Jobs) = {}
  <2> SUFFICES ASSUME NEW w \in Plain, w[1] = t PROVE child[w] # "running"
    BY DEF LiveCommands
  <2>1. w \in Workers
    BY DEF Plain
  <2>2. CASE phase[t] = "created"
    <3>1. thread[w] = "none"
      BY <2>1, <2>2, BeforeQuiet
    <3> QED
      BY <3>1 DEF PromiseInv, CommandOnce
  <2>3. CASE phase[t] = "drain"
    <3>1. CASE thread[w] = "none"
      BY <3>1 DEF PromiseInv, CommandOnce
    <3>2. CASE thread[w] # "none"
      <4>1. w[2] \in Jobs /\ w = <<t, w[2]>>
        BY <2>1, WorkerParts DEF Workers
      <4>2. w[2] < next[t]
        BY <2>3, <3>2, <4>1 DEF PromiseInv, IInv, SpawnedInOrder
      <4>3. w \in tracked
        BY <4>1, <4>2 DEF PromiseInv, AllTracked
      <4>4. status[w] \notin {"INIT", "RUN"}
        BY <2>1, <2>3, <4>3 DEF Counted, Of
      <4>5. w \in marked \/ thread[w] = "done"
        BY <2>1, <4>4 DEF PromiseInv, IInv, CountedUntilMarked
      <4> QED
        BY <4>5 DEF PromiseInv, MarkedQuiet, CommandOnce, Quiet
    <3> QED
      BY <3>1, <3>2
  <2> QED
    BY <2>2, <2>3
<1> QED
  BY <1>2, <1>3, <1>4 DEF Promise!Next, Promise!Close, Promise!Commands

LEMMA CollectorIsPromise ==
    ASSUME Prompt, PromiseInv, NEW t \in Tasks, CollectorStep(t)
    PROVE  [Promise!Next]_(Promise!vars)
<1>0. TypeOK /\ phase \in [Tasks -> Phases]
  BY DEF PromiseInv, IInv, TypeOK
<1>1. CASE \/ StartCollector(t) /\ phase'[t] # "failed"
           \/ SpawnWorker(t) \/ InsertWorker(t) \/ JobsSpawned(t) \/ Publish(t) \/ FreeTask(t)
  <2>1. /\ UNCHANGED child
        /\ \A u \in Tasks \ {t} : phase'[u] = phase[u]
        /\ phase[t] \notin {"none", "failed"} /\ phase'[t] \notin {"none", "failed"}
        /\ Past(t)' <=> Past(t)
    BY <1>0, <1>1 DEF StartCollector, SpawnWorker, InsertWorker, JobsSpawned, Publish, FreeTask,
                      Go, workerVars, Past
  <2>2. RunState' = RunState
    BY <2>1, SeenUnchanged DEF Past
  <2> QED
    BY <1>0, <2>1, <2>2, CommandsEnd, EndsIsPromise
<1>2. CASE \/ StartCollector(t) /\ phase'[t] = "failed"
           \/ Drain(t)
  <2>1. /\ phase[t] \in {"created", "drain"}
        /\ phase' = [phase EXCEPT ![t] = IF phase[t] = "drain" THEN "publish" ELSE "failed"]
        /\ UNCHANGED child
        /\ phase[t] = "drain" => Counted(t) = {}
    BY <1>0, <1>2 DEF StartCollector, Drain, Go, workerVars
  <2> QED
    BY <2>1, CloseIsPromise
<1>3. CASE CheckWorkers(t) \/ TimeoutWorkers(t)
  <2>1. PICK killAll \in BOOLEAN : Reap(t, killAll) /\ Settled(t)
    BY <1>3 DEF CheckWorkers, TimeoutWorkers
  <2>2. \A w \in Workers : child'[w] # child[w] =>
           child[w] = "running" /\ child'[w] = "zombie"
    BY <2>1, ReapPromise
  <2>3. /\ \A u \in Tasks \ {t} : phase'[u] = phase[u]
        /\ phase[t] = "watch" /\ phase'[t] \in {"watch", "spawn", "drain"}
    BY <1>0, <1>3 DEF CheckWorkers, TimeoutWorkers, Go
  <2>4. RunState' = RunState
    BY <2>3, SeenUnchanged DEF Past
  <2> QED
    BY <1>0, <2>2, <2>4, CommandsEnd, EndsIsPromise DEF Plain
<1> QED
  BY <1>1, <1>2, <1>3 DEF CollectorStep

\* A command that is not repeated starts while its run is open, once, and alone
\* if the collector is serial.
LEMMA ForkIsPromise ==
    ASSUME PromiseInv, NEW w \in Plain, Fork(w)
    PROVE  [Promise!Next]_(Promise!vars)
<1>0. TypeOK /\ child \in [Workers -> {"none", "running", "zombie", "gone"}]
  BY DEF PromiseInv, IInv, TypeOK
<1> DEFINE t == w[1]
<1>1. w \in Workers /\ t \in Tasks /\ w[2] \in Jobs /\ w = <<t, w[2]>> /\ w[2] \notin Cyclic
  BY WorkerParts DEF Plain, Workers
<1>2. thread[w] = "fork" /\ child[w] = "none" /\ UNCHANGED phase
  BY DEF Fork, taskVars, PromiseInv, CommandOnce
<1>3. RunState' = RunState
  BY <1>2, SeenUnchanged DEF Past
<1>4. CASE child' = child
  BY <1>0, <1>3, <1>4, CommandsEnd, EndsIsPromise
<1>5. CASE child' = [child EXCEPT ![w] = "running"]
  <2>1. /\ LiveCommands' = LiveCommands \cup {w}
        /\ StartedCommands' = StartedCommands \cup {w}
        /\ w \notin StartedCommands
    BY <1>0, <1>1, <1>2, <1>5 DEF LiveCommands, StartedCommands, Plain
  <2>2. RunState[t] = "open"
    <3>1. ~Past(t)
      BY <1>2, PastQuiet DEF Quiet
    <3>2. phase[t] \notin {"none", "failed"}
      BY <1>1, <1>2, BeforeQuiet
    <3> QED
      BY <1>1, <3>1, <3>2 DEF RunState
  <2>3. t \in Serial => LiveCommands \cap ({t} \X Jobs) = {}
    <3> SUFFICES ASSUME t \in Serial, NEW u \in Plain, u[1] = t
                 PROVE  child[u] # "running"
      BY DEF LiveCommands
    <3> QED
      BY <1>2, SerialAlone
  <2>4. w \in {t} \X Jobs
    BY <1>1
  <2> HIDE DEF t
  <2>5. Promise!Start(t, w)
    BY <1>3, <2>1, <2>2, <2>3 DEF Promise!Start, Promise!Commands
  <2> QED
    BY <1>1, <2>4, <2>5 DEF Promise!Next, Promise!Commands
<1> QED
  BY <1>4, <1>5 DEF Fork

LEMMA ThreadsArePromise ==
    ASSUME PromiseInv, NEW w \in Workers,
           WorkerStep(w) \/ SchedulerWait(w) \/ CommandExits(w)
    PROVE  [Promise!Next]_(Promise!vars)
<1>0. TypeOK /\ child \in [Workers -> {"none", "running", "zombie", "gone"}]
  BY DEF PromiseInv, IInv, TypeOK
<1>1. UNCHANGED phase
  BY DEF WorkerStep, StartWorker, StopCycle, NextCycle, Fork, WaitEnds, EndWorker,
         FinishWorker, SchedulerWait, CommandExits, taskVars
<1>2. RunState' = RunState
  BY <1>1, SeenUnchanged DEF Past
<1>3. CASE Fork(w) /\ w \in Plain
  BY <1>3, ForkIsPromise
<1>4. CASE Fork(w) /\ w \notin Plain
  <2>1. \A u \in Plain : child'[u] = child[u]
    BY <1>0, <1>4 DEF Fork, Plain
  <2> QED
    BY <1>0, <1>2, <2>1, CommandsEnd, EndsIsPromise
<1>5. CASE ~Fork(w)
  <2>1. \A u \in Workers : \/ child'[u] = child[u]
                           \/ child[u] # "none" /\ child'[u] \in {"zombie", "gone"}
    BY <1>0, <1>5 DEF WorkerStep, StartWorker, StopCycle, NextCycle, WaitEnds, EndWorker,
                      FinishWorker, SchedulerWait, CommandExits
  <2> QED
    BY <1>0, <1>2, <2>1, CommandsEnd, EndsIsPromise DEF Plain
<1> QED
  BY <1>3, <1>4, <1>5

LEMMA StepIsPromise ==
    ASSUME Prompt, PromiseInv, [Next]_vars
    PROVE  [Promise!Next]_(Promise!vars)
<1>0. TypeOK /\ phase \in [Tasks -> Phases]
  BY DEF PromiseInv, IInv, TypeOK
<1>1. CASE UNCHANGED <<phase, child>>
  <2>1. RunState' = RunState
    BY <1>1, SeenUnchanged DEF Past
  <2> QED
    BY <1>0, <1>1, <2>1, CommandsEnd, EndsIsPromise
<1>2. CASE UNCHANGED vars
  BY <1>1, <1>2 DEF vars
<1>3. ASSUME NEW t \in Tasks, SpawnCollector(t)
      PROVE  [Promise!Next]_(Promise!vars)
  <2>1. /\ UNCHANGED child
        /\ phase[t] = "none" /\ phase'[t] = "created"
        /\ \A u \in Tasks \ {t} : phase'[u] = phase[u]
    BY <1>0, <1>3 DEF SpawnCollector, workerVars
  <2>2. RunState[t] = "idle" /\ RunState' = [RunState EXCEPT ![t] = "open"]
    BY <2>1 DEF RunState, Past
  <2>3. LiveCommands' = LiveCommands /\ StartedCommands' = StartedCommands
    BY <2>1 DEF LiveCommands, StartedCommands
  <2> QED
    BY <2>2, <2>3 DEF Promise!Next, Promise!Open
<1>4. CASE \E t \in Tasks : ListCollector(t) \/ Tick(t)
  BY <1>1, <1>4 DEF ListCollector, Tick, workerVars
<1>5. ASSUME NEW t \in Tasks, CollectorStep(t)
      PROVE  [Promise!Next]_(Promise!vars)
  BY <1>5, CollectorIsPromise
<1>6. ASSUME NEW w \in Workers, WorkerStep(w) \/ SchedulerWait(w) \/ CommandExits(w)
      PROVE  [Promise!Next]_(Promise!vars)
  BY <1>6, ThreadsArePromise
<1> QED
  BY <1>2, <1>3, <1>4, <1>5, <1>6 DEF Next, SchedulerStep

\* The agent's threads implement RunPromise: for any number of collectors and
\* jobs, failing forks and lost directories, a command that is not repeated is
\* started once, while its run is open, and alone if the collector is serial;
\* when the output of the run is handed on, none of them is alive. Threads get
\* going within five seconds, and the ids of threads are not used again.
THEOREM RunsKeepPromise ==
    ASSUME Prompt, IdReuse = FALSE
    PROVE  Spec => PromiseKept
<1>1. Init => Promise!Init
  <2> SUFFICES ASSUME Init PROVE Promise!Init
    OBVIOUS
  <2>1. RunState = [t \in Tasks |-> "idle"]
    BY DEF Init, RunState
  <2>2. LiveCommands = {} /\ StartedCommands = {}
    BY DEF Init, LiveCommands, StartedCommands, Plain
  <2> QED
    BY <2>1, <2>2 DEF Promise!Init
<1>2. PromiseInv /\ [Next]_vars => PromiseInv'
  BY PromiseInductive
<1>3. PromiseInv /\ [Next]_vars => [Promise!Next]_(Promise!vars)
  BY StepIsPromise
<1> QED
  BY InitPromise, <1>1, <1>2, <1>3, PTL DEF Spec, PromiseKept, Promise!Spec

-----------------------------------------------------------------------------
(* The stop of the agent.                                                   *)

\* A task whose thread runs is in the table, or about to be; a worker in a
\* table is one whose job has been spawned and left behind; and a command is
\* one of a thread.
OnePending == \A t, u \in pending : t = u
TableKnown == \A t \in Tasks : phase[t] \notin {"none", "freed"} => t \in listed \cup pending
TrackedBelow == \A w \in tracked : w[2] < next[w[1]]
CommandsStarted == \A w \in Workers : thread[w] = "none" => child[w] = "none"

Tables == OnePending /\ TableKnown /\ FirstJob /\ TrackedBelow /\ CommandsStarted

AgentInv == IInv /\ Tables

LEMMA InitTables == Init => Tables
  BY DEF Init, Tables, OnePending, TableKnown, FirstJob, TrackedBelow, CommandsStarted

\* The tables change with the steps of the scheduler and of the collector
\* threads.
LEMMA SchedulerKeepsTables ==
    ASSUME AgentInv, SchedulerStep
    PROVE  Tables'
<1> USE DEF AgentInv, IInv, TypeOK
<1>1. OnePending' /\ TableKnown' /\ FirstJob'
  <2>1. ASSUME NEW t \in Tasks, SpawnCollector(t)
        PROVE  OnePending' /\ TableKnown' /\ FirstJob'
    BY <2>1 DEF SpawnCollector, Tables, OnePending, TableKnown, FirstJob
  <2>2. ASSUME NEW t \in Tasks, ListCollector(t)
        PROVE  OnePending' /\ TableKnown' /\ FirstJob'
    BY <2>2 DEF ListCollector, Tables, OnePending, TableKnown, FirstJob
  <2> QED
    BY <2>1, <2>2 DEF SchedulerStep
<1>2. TrackedBelow' /\ CommandsStarted'
  BY DEF SchedulerStep, SpawnCollector, ListCollector, workerVars, Tables, TrackedBelow,
         CommandsStarted
<1> QED
  BY <1>1, <1>2 DEF Tables

LEMMA CollectorKeepsTables ==
    ASSUME AgentInv, NEW t \in Tasks, CollectorStep(t)
    PROVE  Tables'
<1> USE DEF AgentInv, IInv, TypeOK
<1>1. /\ phase[t] \notin {"none", "freed", "failed"}
      /\ phase'[t] \notin {"none", "created"}
      /\ phase'[t] = "failed" => phase[t] = "created"
      /\ \A u \in Tasks \ {t} : phase'[u] = phase[u]
  <2> DEFINE Goes == {"spawn", "insert", "watch", "drain", "publish", "unlist", "freed"}
  <2>1. CASE StartCollector(t)
    <3>1. /\ phase[t] = "created"
          /\ \E p \in Goes \cup {"failed"} : phase' = [phase EXCEPT ![t] = p]
      BY <2>1 DEF StartCollector, Go
    <3> QED
      BY <3>1
  <2>2. CASE CheckWorkers(t) \/ TimeoutWorkers(t)
    <3>1. /\ phase[t] = "watch"
          /\ phase' = phase \/ \E p \in Goes : phase' = [phase EXCEPT ![t] = p]
      BY <2>2 DEF CheckWorkers, TimeoutWorkers, Go
    <3> QED
      BY <3>1
  <2>3. CASE \/ SpawnWorker(t) \/ InsertWorker(t) \/ JobsSpawned(t)
             \/ Drain(t) \/ Publish(t) \/ FreeTask(t)
    <3>1. /\ phase[t] \in Goes \ {"freed"}
          /\ \E p \in Goes : phase' = [phase EXCEPT ![t] = p]
      BY <2>3 DEF SpawnWorker, InsertWorker, JobsSpawned, Drain, Publish, FreeTask, Go
    <3> QED
      BY <3>1
  <2> QED
    BY <2>1, <2>2, <2>3 DEF CollectorStep
<1>2. /\ UNCHANGED pending
      /\ \A u \in Tasks \ {t} : u \in listed' <=> u \in listed
      /\ t \in listed' \/ t \notin listed \/ phase'[t] = "freed"
  BY DEF CollectorStep, StartCollector, SpawnWorker, InsertWorker, JobsSpawned, CheckWorkers,
         TimeoutWorkers, Drain, Publish, FreeTask, Go, workerVars
<1>3. OnePending' /\ TableKnown'
  BY <1>1, <1>2 DEF Tables, OnePending, TableKnown
<1>4. CASE InsertWorker(t)
  <2>1. /\ next' = [next EXCEPT ![t] = @ + 1]
        /\ tracked' \subseteq tracked \cup {<<t, next[t]>>}
        /\ UNCHANGED <<thread, child>>
        /\ next[t] \in Nat
    BY <1>4, CollectorAssumption DEF InsertWorker, Worker
  <2>2. FirstJob' /\ CommandsStarted'
    BY <1>1, <1>4, <2>1 DEF InsertWorker, Tables, FirstJob, CommandsStarted
  <2>3. TrackedBelow'
    <3> SUFFICES ASSUME NEW w \in tracked' PROVE w[2] < next'[w[1]]
      BY DEF TrackedBelow
    <3>1. CASE w = <<t, next[t]>>
      BY <2>1, <3>1
    <3>2. CASE w \in tracked
      <4>1. w[1] \in Tasks /\ w[2] \in Nat /\ w[2] < next[w[1]] /\ next[w[1]] \in Nat
        BY <3>2, WorkerParts, CollectorAssumption DEF Tables, TrackedBelow, Jobs
      <4> QED
        BY <2>1, <4>1
    <3> QED
      BY <2>1, <3>1, <3>2
  <2> QED
    BY <1>3, <2>2, <2>3 DEF Tables
<1>5. CASE ~InsertWorker(t)
  <2>1. /\ UNCHANGED <<next, tracked>>
        /\ \A w \in Workers : thread'[w] = "none" => thread[w] = "none"
        /\ \A w \in Workers : child[w] = "none" => child'[w] = "none"
    <3>1. CASE SpawnWorker(t)
      BY <3>1 DEF SpawnWorker
    <3>2. CASE CheckWorkers(t) \/ TimeoutWorkers(t)
      BY <3>2 DEF CheckWorkers, TimeoutWorkers, Reap
    <3> QED
      BY <1>5, <3>1, <3>2 DEF CollectorStep, StartCollector, JobsSpawned, Drain, Publish,
                              FreeTask, workerVars
  <2>2. FirstJob'
    BY <1>1, <2>1 DEF Tables, FirstJob
  <2>3. TrackedBelow' /\ CommandsStarted'
    BY <2>1 DEF Tables, TrackedBelow, CommandsStarted
  <2> QED
    BY <1>3, <2>2, <2>3 DEF Tables
<1> QED
  BY <1>4, <1>5

LEMMA NextKeepsTables ==
    ASSUME AgentInv, [Next]_vars
    PROVE  AgentInv'
<1>0. TypeOK /\ IInv'
  BY NextInductive DEF AgentInv, IInv
<1>1. CASE UNCHANGED <<phase, next, pending, listed, tracked, thread, child>>
  BY <1>0, <1>1
     DEF AgentInv, Tables, OnePending, TableKnown, FirstJob, TrackedBelow, CommandsStarted
<1>2. CASE UNCHANGED vars
  BY <1>1, <1>2 DEF vars
<1>3. CASE \E t \in Tasks : Tick(t)
  BY <1>1, <1>3 DEF Tick, workerVars
<1>4. ASSUME NEW w \in Workers, WorkerStep(w) \/ SchedulerWait(w) \/ CommandExits(w)
      PROVE  Tables'
  <2>1. UNCHANGED <<phase, next, pending, listed, tracked>>
    BY <1>4 DEF WorkerStep, StartWorker, StopCycle, NextCycle, Fork, WaitEnds, EndWorker,
                FinishWorker, SchedulerWait, CommandExits, taskVars
  <2>2. \A u \in Workers : thread'[u] = "none" =>
           thread[u] = "none" /\ (child[u] = "none" => child'[u] = "none")
    BY <1>0, <1>4 DEF TypeOK, WorkerStep, StartWorker, StopCycle, NextCycle, Fork, WaitEnds,
                      EndWorker, FinishWorker, SchedulerWait, CommandExits, At, CycleDone
  <2>3. CommandsStarted'
    BY <2>2 DEF AgentInv, Tables, CommandsStarted
  <2>4. OnePending' /\ TableKnown' /\ FirstJob' /\ TrackedBelow'
    BY <2>1 DEF AgentInv, Tables, OnePending, TableKnown, FirstJob, TrackedBelow
  <2> QED
    BY <2>3, <2>4 DEF Tables
<1> QED
  BY <1>0, <1>1, <1>2, <1>3, <1>4, SchedulerKeepsTables, CollectorKeepsTables
     DEF AgentInv, Next

\* What a step of the threads does to a worker that is in its task's table. Its
\* mode is not set to RUN again, and if the mode is END and no reap declared
\* the worker finished, it does not come to a fork again.
TrackedEffect(w) ==
    /\ w \in tracked'
    /\ w \in marked => w \in marked'
    /\ ended[w] => ended'[w]
    /\ ~running[w[1]] => ~running'[w[1]]
    /\ child'[w] = "running" => child[w] = "running" \/ (thread[w] = "fork" /\ thread'[w] # "fork")
    /\ thread'[w] = "start" => thread[w] = "start"
    /\ ~running[w[1]] /\ w \notin marked /\ thread'[w] = "fork" => thread[w] \in {"start", "fork"}

LEMMA WorkerTracked ==
    ASSUME AgentInv, NEW w \in tracked, NEW u \in Workers,
           WorkerStep(u) \/ SchedulerWait(u) \/ CommandExits(u)
    PROVE  TrackedEffect(w)
<1>0. TypeOK /\ w \in Workers /\ w[1] \in Tasks
  BY WorkerParts DEF AgentInv, IInv, TypeOK
<1>1. UNCHANGED <<running, tracked, marked>> /\ (ended[w] => ended'[w])
  BY <1>0 DEF TypeOK, WorkerStep, StartWorker, StopCycle, NextCycle, Fork, WaitEnds, EndWorker,
              FinishWorker, SchedulerWait, CommandExits, taskVars
<1>2. CASE thread'[w] = thread[w]
  <2>1. child'[w] = "running" => child[w] = "running"
    BY <1>0, <1>2 DEF TypeOK, WorkerStep, StartWorker, StopCycle, NextCycle, Fork, WaitEnds,
                      EndWorker, FinishWorker, SchedulerWait, CommandExits, taskVars, At,
                      CycleDone
  <2> QED
    BY <1>1, <1>2, <2>1 DEF TrackedEffect
<1>3. CASE w # u \/ SchedulerWait(u) \/ CommandExits(u)
  <2>1. thread'[w] = thread[w]
    BY <1>0, <1>3 DEF TypeOK, WorkerStep, StartWorker, StopCycle, NextCycle, Fork, WaitEnds,
                      EndWorker, FinishWorker, SchedulerWait, CommandExits, taskVars, At,
                      CycleDone
  <2> QED
    BY <1>2, <2>1
<1>4. CASE w = u /\ WorkerStep(u)
  <2>1. thread'[w] # "start"
    BY <1>0, <1>4 DEF TypeOK, WorkerStep, StartWorker, StopCycle, NextCycle, Fork, WaitEnds,
                      EndWorker, FinishWorker, At, CycleDone
  <2>2. child'[w] = "running" => child[w] = "running" \/ (thread[w] = "fork" /\ thread'[w] # "fork")
    BY <1>0, <1>4 DEF TypeOK, WorkerStep, StartWorker, StopCycle, NextCycle, Fork, WaitEnds,
                      EndWorker, FinishWorker, At, CycleDone
  <2>3. CASE thread'[w] = "fork" /\ thread[w] # "start"
    <3>1. NextCycle(w)
      BY <1>0, <1>4, <2>3 DEF TypeOK, WorkerStep, StartWorker, StopCycle, NextCycle, Fork, WaitEnds,
                      EndWorker, FinishWorker, At, CycleDone
    <3>2. w \in Live /\ (running[w[1]] \/ Past(w[1]))
      BY <1>0, <3>1 DEF NextCycle, Live, Past
    <3>3. running[w[1]] \/ w \in marked
      BY <3>2 DEF AgentInv, IInv, OnlyMarkedOutlive
    <3> QED
      BY <1>1, <2>1, <2>2, <3>3 DEF TrackedEffect
  <2>4. CASE ~(thread'[w] = "fork" /\ thread[w] # "start")
    BY <1>1, <2>1, <2>2, <2>4 DEF TrackedEffect
  <2> QED
    BY <2>3, <2>4
<1> QED
  BY <1>3, <1>4

LEMMA CollectorTracked ==
    ASSUME AgentInv, NEW w \in tracked, NEW t \in Tasks, CollectorStep(t)
    PROVE  TrackedEffect(w)
<1>0. /\ TypeOK /\ w \in Workers /\ w[1] \in Tasks /\ w[2] \in Jobs /\ w = <<w[1], w[2]>>
      /\ w[2] < next[w[1]] /\ w[2] \in Nat
  <2>1. TypeOK /\ w \in Workers /\ w[2] < next[w[1]]
    BY DEF AgentInv, IInv, TypeOK, Tables, TrackedBelow
  <2>2. w[1] \in Tasks /\ w[2] \in Jobs /\ w = <<w[1], w[2]>>
    BY <2>1, WorkerParts DEF Workers
  <2> QED
    BY <2>1, <2>2, CollectorAssumption DEF Jobs
<1>1. CASE StartCollector(t)
  <2>1. w[1] # t
    BY <1>0, <1>1, CollectorAssumption DEF StartCollector, AgentInv, Tables, FirstJob, Jobs
  <2>2. running'[w[1]] = running[w[1]]
    BY <1>0, <1>1, <2>1 DEF StartCollector, TypeOK
  <2> QED
    BY <1>1, <2>2 DEF StartCollector, workerVars, TrackedEffect
<1>2. CASE SpawnWorker(t)
  <2>1. next[t] \in Nat /\ w # Worker(t)
    BY <1>0, CollectorAssumption DEF TypeOK, Worker
  <2>2. thread'[w] = thread[w] /\ UNCHANGED <<running, ended, tracked, marked, child>>
    BY <1>0, <1>2, <2>1 DEF SpawnWorker, TypeOK
  <2> QED
    BY <2>2 DEF TrackedEffect
<1>3. CASE CheckWorkers(t) \/ TimeoutWorkers(t)
  <2>1. PICK killAll \in BOOLEAN : Reap(t, killAll)
    BY <1>3 DEF CheckWorkers, TimeoutWorkers
  <2>2. UNCHANGED <<thread, tracked>> /\ marked \subseteq marked' /\ (ended[w] => ended'[w])
    BY <1>0, <2>1 DEF Reap
  <2>3. child'[w] = "running" => child[w] = "running"
    BY <1>0, <2>1 DEF Reap
  <2>4. ~running[w[1]] => ~running'[w[1]]
    <3>1. running' = running \/ running' = [running EXCEPT ![t] = FALSE]
      BY <1>3 DEF CheckWorkers, TimeoutWorkers
    <3> QED
      BY <1>0, <3>1 DEF TypeOK
  <2> QED
    BY <2>2, <2>3, <2>4 DEF TrackedEffect
<1>4. CASE InsertWorker(t) \/ JobsSpawned(t) \/ Drain(t) \/ Publish(t) \/ FreeTask(t)
  <2>1. UNCHANGED <<thread, ended, marked, child>> /\ tracked \subseteq tracked'
    BY <1>4 DEF InsertWorker, JobsSpawned, Drain, Publish, FreeTask, workerVars
  <2>2. ~running[w[1]] => ~running'[w[1]]
    BY <1>0, <1>4 DEF InsertWorker, JobsSpawned, Drain, Publish, FreeTask, TypeOK
  <2> QED
    BY <2>1, <2>2 DEF TrackedEffect
<1> QED
  BY <1>1, <1>2, <1>3, <1>4 DEF CollectorStep

LEMMA NextTracked ==
    ASSUME AgentInv, NEW w \in tracked, [Next]_vars
    PROVE  TrackedEffect(w)
<1>1. CASE UNCHANGED <<running, thread, ended, tracked, marked, child>>
  BY <1>1 DEF TrackedEffect
<1>2. CASE SchedulerStep \/ (\E t \in Tasks : Tick(t)) \/ UNCHANGED vars
  BY <1>1, <1>2 DEF SchedulerStep, SpawnCollector, ListCollector, Tick, workerVars, vars
<1> QED
  BY <1>2, CollectorTracked, WorkerTracked DEF Next

StopTypes ==
    /\ stop \in {"no", "walk", "visit", "exited"}
    /\ at \subseteq Tasks
    /\ seen \subseteq Tasks
    /\ met \subseteq Workers
    /\ late \in [Workers -> Nat]

\* The process ends when the walk has come by every task in the table.
Walked == stop = "exited" /\ ~broken => listed \subseteq seen

\* The walk stands on a task it has not visited; what a worker forks counts as
\* late from the visit on.
NotYet ==
    /\ stop = "visit" => at \cap seen = {}
    /\ \A w \in Workers : w[1] \notin seen => late[w] = 0

\* What the visit leaves behind: a worker that it found in the table, and that
\* no reap declares finished, has no command any more but the one that it was
\* about to fork.
Settling(w) ==
    /\ w \in tracked /\ w[1] \in seen /\ ~running[w[1]]
    /\ w \in marked \/ ended[w] \/ late[w] > 0 \/ child[w] # "running"
    /\ w \in marked \/ late[w] = 0 \/ (late[w] = 1 /\ thread[w] \notin {"start", "fork"})

Visited == \A w \in met : Settling(w)

StopInv == AgentInv /\ StopTypes /\ Walked /\ NotYet /\ Visited

LEMMA InitStop == StopInit => StopInv
<1> SUFFICES ASSUME StopInit PROVE StopInv
  OBVIOUS
<1>1. AgentInv
  BY InitIInv, InitTables DEF StopInit, AgentInv
<1>2. StopTypes
  BY DEF StopInit, StopTypes
<1>3. Walked /\ NotYet /\ Visited
  BY DEF StopInit, Walked, NotYet, Visited
<1> QED
  BY <1>1, <1>2, <1>3 DEF StopInv

LEMMA VisitKeepsAgent ==
    ASSUME AgentInv, NEW t \in Tasks,
           running' = EndMode(t), Reap(t, KillAll),
           UNCHANGED <<phase, next, clock, pending, listed>>
    PROVE  AgentInv'
<1> USE DEF AgentInv, IInv
<1>1. /\ TypeOK /\ KillAll \in BOOLEAN
  BY DEF KillAll
<1>2. TypeOK'
  <2>1. running' \in [Tasks -> BOOLEAN]
    BY DEF EndMode, TypeOK
  <2>2. /\ status' \in [Workers -> {"INIT", "RUN", "END", "ERROR"}]
        /\ ended' \in [Workers -> BOOLEAN]
        /\ marked' \subseteq Workers
        /\ child' \in [Workers -> {"none", "running", "zombie", "gone"}]
        /\ exit' \in [Workers -> {"ok", "failed", "killed"}]
        /\ UNCHANGED <<thread, loops, tracked, code>>
    BY <1>1, ReapTypes
  <2> QED
    BY <1>1, <2>1, <2>2 DEF TypeOK
<1>3. CountedUntilMarked' /\ marked \subseteq marked' /\ UNCHANGED <<thread, tracked>>
  BY <1>1, ReapEffect
<1>4. InsertInRange' /\ SpawnedInOrder'
  BY <1>3 DEF InsertInRange, SpawnedInOrder
<1>5. OnlyMarkedOutlive'
  BY <1>3 DEF OnlyMarkedOutlive, Live, Past
<1>6. \A w \in Workers : child[w] = "none" => child'[w] = "none"
  BY DEF Reap
<1>7. Tables'
  BY <1>3, <1>6 DEF Tables, OnePending, TableKnown, FirstJob, TrackedBelow, CommandsStarted
<1> QED
  BY <1>2, <1>3, <1>4, <1>5, <1>7

\* What the visit does to the workers of its task, and to the others.
LEMMA VisitEffect ==
    ASSUME TypeOK, NEW t \in Tasks, Reap(t, KillAll), NEW w \in tracked
    PROVE  /\ w \in tracked'
           /\ w \in marked => w \in marked'
           /\ ended[w] => ended'[w]
           /\ child'[w] = "running" => child[w] = "running"
           /\ thread'[w] = thread[w]
           /\ w \in Of(t) => w \in marked' \/ ended'[w] \/ child'[w] # "running"
<1>1. w \in Workers /\ ended[w] \in BOOLEAN
  BY DEF TypeOK
<1>2. UNCHANGED <<thread, tracked>> /\ marked \subseteq marked'
  BY DEF Reap
<1>3. (ended[w] => ended'[w]) /\ (child'[w] = "running" => child[w] = "running")
  BY <1>1 DEF Reap
<1>4. ASSUME w \in Of(t), ~ended[w], ~Alive(w)
      PROVE  w \in marked'
  BY <1>4 DEF Reap
<1>5. ASSUME w \in Of(t), ~ended[w], Alive(w)
      PROVE  child'[w] # "running"
  BY <1>1, <1>5 DEF Reap, KillAll
<1> QED
  BY <1>1, <1>2, <1>3, <1>4, <1>5

LEMMA VisitKeepsStop ==
    ASSUME StopInv, VisitTask
    PROVE  StopInv'
<1> USE DEF StopInv
<1>1. PICK t \in at :
         /\ IF phase[t] = "freed"
            THEN broken' = TRUE /\ UNCHANGED <<vars, met>>
            ELSE /\ running' = EndMode(t)
                 /\ Reap(t, KillAll)
                 /\ met' = met \cup (Of(t) \cap tracked)
                 /\ UNCHANGED <<phase, next, clock, pending, listed, broken>>
         /\ seen' = seen \cup {t}
  BY DEF VisitTask
<1>2. /\ stop = "visit" /\ stop' = "walk"
      /\ UNCHANGED <<at, late>>
      /\ t \in Tasks /\ t \notin seen
  BY DEF VisitTask, StopTypes, NotYet
<1>3. Walked' /\ NotYet'
  BY <1>1, <1>2 DEF Walked, NotYet
<1>4. CASE phase[t] = "freed"
  <2>1. AgentInv'
    BY <1>1, <1>4, NextKeepsTables
  <2>2. StopTypes'
    BY <1>1, <1>2, <1>4 DEF StopTypes, vars
  <2>3. Visited'
    BY <1>1, <1>2, <1>4 DEF Visited, Settling, vars
  <2> QED
    BY <1>3, <2>1, <2>2, <2>3
<1>5. CASE phase[t] # "freed"
  <2>0. TypeOK
    BY DEF AgentInv, IInv
  <2>1. AgentInv'
    BY <1>1, <1>2, <1>5, VisitKeepsAgent
  <2>2. StopTypes'
    BY <1>1, <1>2, <1>5 DEF StopTypes, Of
  <2>3. Visited'
    <3> SUFFICES ASSUME NEW w \in met' PROVE Settling(w)'
      BY DEF Visited
    <3>1. w \in met \/ w \in Of(t) \cap tracked
      BY <1>1, <1>5
    <3>2. w \in tracked /\ w \in Workers /\ w[1] \in Tasks
      BY <2>0, <3>1, WorkerParts DEF Visited, Settling, TypeOK
    <3>3. /\ w \in tracked'
          /\ w \in marked => w \in marked'
          /\ ended[w] => ended'[w]
          /\ child'[w] = "running" => child[w] = "running"
          /\ thread'[w] = thread[w]
          /\ w \in Of(t) => w \in marked' \/ ended'[w] \/ child'[w] # "running"
      BY <1>1, <1>2, <1>5, <2>0, <3>2, VisitEffect
    <3>4. /\ ~running[w[1]] => ~running'[w[1]]
          /\ ~running'[t]
      BY <1>1, <1>2, <1>5, <2>0, <3>2 DEF EndMode, TypeOK
    <3>5. CASE w \in met
      BY <1>1, <1>2, <3>3, <3>4, <3>5 DEF Visited, Settling
    <3>6. CASE w \in Of(t)
      <4>1. w[1] = t /\ late[w] = 0
        BY <1>2, <3>2, <3>6 DEF Of, NotYet
      <4> QED
        BY <1>1, <1>2, <3>3, <3>4, <3>6, <4>1 DEF Settling
    <3> QED
      BY <3>1, <3>5, <3>6
  <2> QED
    BY <1>3, <2>1, <2>2, <2>3
<1> QED
  BY <1>4, <1>5

\* The threads while the stop is under way.
LEMMA ThreadKeepsStop ==
    ASSUME StopInv, ThreadStep \/ CommandStep
    PROVE  StopInv'
<1> USE DEF StopInv
<1>0. TypeOK /\ StopTypes
  BY DEF AgentInv, IInv
<1>1. [Next]_vars
  BY DEF ThreadStep, CommandStep, Next
<1>2. AgentInv'
  BY <1>1, NextKeepsTables
<1>3. UNCHANGED <<stop, at, seen, met, broken>>
  BY DEF ThreadStep, CommandStep, stopVars
<1>4. Walked'
  <2>1. CASE stop # "exited"
    BY <1>3, <2>1 DEF Walked
  <2>2. CASE stop = "exited"
    <3>1. UNCHANGED listed
      BY <2>2 DEF ThreadStep, CommandStep, CommandExits, taskVars
    <3> QED
      BY <1>3, <3>1 DEF Walked
  <2> QED
    BY <2>1, <2>2
<1>5. \A w \in Workers :
         \/ late'[w] = late[w] /\ ~(/\ w[1] \in seen /\ thread[w] = "fork" /\ thread'[w] # "fork"
                                    /\ child'[w] = "running")
         \/ /\ late'[w] = late[w] + 1
            /\ w[1] \in seen /\ thread[w] = "fork" /\ thread'[w] # "fork"
  <2>1. CASE ThreadStep
    BY <1>0, <2>1 DEF ThreadStep, StopTypes
  <2>2. CASE CommandStep
    BY <1>0, <2>2 DEF CommandStep, CommandExits, stopVars
  <2> QED
    BY <2>1, <2>2
<1>6. late' \in [Workers -> Nat]
  <2>1. CASE ThreadStep
    BY <1>0, <2>1 DEF ThreadStep, StopTypes
  <2>2. CASE CommandStep
    BY <1>0, <2>2 DEF CommandStep, stopVars, StopTypes
  <2> QED
    BY <2>1, <2>2
<1>7. StopTypes'
  BY <1>0, <1>3, <1>6 DEF StopTypes
<1>8. NotYet'
  BY <1>3, <1>5 DEF NotYet
<1>9. Visited'
  <2> SUFFICES ASSUME NEW w \in met PROVE Settling(w)'
    BY <1>3 DEF Visited
  <2>1. Settling(w) /\ w \in tracked /\ w \in Workers /\ late[w] \in Nat
    BY <1>0 DEF Visited, Settling, StopTypes
  <2>2. TrackedEffect(w)
    BY <1>1, <2>1, NextTracked
  <2>3. w \in tracked' /\ w[1] \in seen' /\ ~running'[w[1]]
    BY <1>3, <2>1, <2>2 DEF TrackedEffect, Settling
  <2>4. w \in marked' \/ ended'[w] \/ late'[w] > 0 \/ child'[w] # "running"
    BY <1>5, <2>1, <2>2 DEF TrackedEffect, Settling
  <2>5. w \in marked' \/ late'[w] = 0 \/ (late'[w] = 1 /\ thread'[w] \notin {"start", "fork"})
    BY <1>5, <2>1, <2>2 DEF TrackedEffect, Settling
  <2> QED
    BY <2>3, <2>4, <2>5 DEF Settling
<1> QED
  BY <1>2, <1>4, <1>7, <1>8, <1>9

LEMMA StopInductive == StopInv /\ [StopNext]_allVars => StopInv'
<1> SUFFICES ASSUME StopInv, [StopNext]_allVars PROVE StopInv'
  OBVIOUS
<1> USE DEF StopInv
<1>1. CASE BeginStop \/ NextTask \/ UNCHANGED allVars
  <2>1. UNCHANGED <<vars, seen, met, late>>
    BY <1>1 DEF BeginStop, NextTask, allVars, stopVars
  <2>2. AgentInv'
    BY <2>1, NextKeepsTables
  <2>3. Visited'
    BY <2>1 DEF Visited, Settling, vars
  <2>4. StopTypes' /\ Walked' /\ NotYet'
    <3>1. CASE BeginStop
      BY <2>1, <3>1 DEF BeginStop, StopTypes, Walked, NotYet
    <3>2. CASE NextTask
      <4>1. listed \subseteq Tasks
        BY DEF AgentInv, IInv, TypeOK
      <4>2. stop' = "visit" \/ (stop' = "exited" /\ (listed \subseteq seen \/ broken'))
        BY <3>2 DEF NextTask
      <4>3. stop' = "visit" => at' \cap seen = {}
        BY <3>2 DEF NextTask
      <4>4. at' \subseteq Tasks
        BY <3>2, <4>1 DEF NextTask
      <4> QED
        BY <2>1, <4>2, <4>3, <4>4 DEF StopTypes, Walked, NotYet, vars
    <3>3. CASE UNCHANGED allVars
      BY <3>3 DEF allVars, vars, stopVars, StopTypes, Walked, NotYet
    <3> QED
      BY <1>1, <3>1, <3>2, <3>3
  <2> QED
    BY <2>2, <2>3, <2>4
<1> QED
  BY <1>1, VisitKeepsStop, ThreadKeepsStop DEF StopNext

\* With the stop under way too, only a worker that a reap declared finished or
\* that never got into workerPids outlives the run it belongs to.
THEOREM StopOnlyMarkedOutlive == StopSpec => []OnlyMarkedOutlive
<1>1. StopInv => OnlyMarkedOutlive
  BY DEF StopInv, AgentInv, IInv
<1> QED
  BY InitStop, StopInductive, <1>1, PTL DEF StopSpec

\* Whatever the threads do while gpfRunExit walks through collectorPids: when
\* the agent has stopped, a command that is still running is one of a worker
\* that a reap had declared finished, one that nobody waits for, one that was
\* forked after the visit, or one of a worker that was in no table when the
\* walk came by, unless the walk stood on an entry that was removed under it.
THEOREM StopLeavesExplainedOrphans == StopSpec => []OrphansExplained
<1>1. StopInv => OrphansExplained
  <2> SUFFICES ASSUME StopInv, stop = "exited", ~broken, NEW w \in Workers, child[w] = "running",
                      ~(w \in marked \/ ended[w] \/ late[w] > 0)
               PROVE  w \notin met /\ (w[1] \in seen \cup pending \/ phase[w[1]] = "freed")
    BY DEF OrphansExplained
  <2> USE DEF StopInv
  <2>1. w \notin met
    BY DEF Visited, Settling
  <2>2. w[1] \in Tasks /\ w[2] \in Jobs /\ w = <<w[1], w[2]>>
    BY WorkerParts DEF Workers
  <2>3. CASE phase[w[1]] = "none"
    <3>1. next[w[1]] = 1 /\ ~(w[2] < 1)
      BY <2>2, <2>3, CollectorAssumption DEF AgentInv, Tables, FirstJob, Jobs
    <3>2. thread[w] = "none"
      BY <2>2, <2>3, <3>1 DEF AgentInv, IInv, SpawnedInOrder
    <3> QED
      BY <3>2 DEF AgentInv, Tables, CommandsStarted
  <2>4. CASE phase[w[1]] \notin {"none", "freed"}
    BY <2>1, <2>2, <2>4 DEF AgentInv, Tables, TableKnown, Walked
  <2> QED
    BY <2>1, <2>3, <2>4
<1> QED
  BY InitStop, StopInductive, <1>1, PTL DEF StopSpec

\* For any collectors and jobs: after the visit to its task a worker that was
\* in its table and that no reap declares finished starts at most one command.
THEOREM StopEndsCycles == StopSpec => []VisitStopsCycles
<1>1. StopInv => VisitStopsCycles
  BY DEF StopInv, StopTypes, VisitStopsCycles, Visited, Settling
<1> QED
  BY InitStop, StopInductive, <1>1, PTL DEF StopSpec

=============================================================================
