------------------------------ MODULE Collector ------------------------------
(***************************************************************************)
(* The running half of the getperf agent (gpf_agent.c, gpf_process.c):     *)
(* the scheduler thread spawns a collector thread per run of a collector,  *)
(* the collector thread spawns a worker thread per job, and a worker forks *)
(* the job's command and waits for it. Everything is shared: tasks and     *)
(* task jobs live on the heap, threads are detached, and the scheduler     *)
(* waits for any child of the process.                                     *)
(*                                                                         *)
(* The critical sections under taskAccessFlag are single actions. gpfReap- *)
(* TimeoutWorkers visits the workers one after the other, but what it does *)
(* to one of them does not depend on the others, so the visit is one step. *)
(* Time is the order of events: the end time of a run comes at some point  *)
(* after its collector thread has started. A worker that outlives its task *)
(* reads freed memory: what it reads there may be anything.                *)
(***************************************************************************)
EXTENDS Integers, FiniteSets

CONSTANTS
    Tasks,     \* runs of collectors, each spawned at most once
    MaxRuns,   \* bound on the runs that are spawned
    Serial,    \* those whose collector has STAT_MODE serial
    NumJobs,   \* number of STAT_CMD lines of a collector
    Cyclic,    \* jobs with an interval: they repeat their command
    Step,      \* Step[j]: how often; 0 when the configuration leaves it out
    MaxLoops,  \* bound on the repetitions of a job without a count
    Prompt,    \* TRUE: threads get going within the poller's five seconds
    IdReuse,   \* TRUE: a new worker may get the thread id of one that has ended
    DirLost    \* TRUE: chdir and mkdir may fail

Jobs == 1..NumJobs
Workers == Tasks \X Jobs

ASSUME CollectorAssumption ==
    /\ Serial \subseteq Tasks
    /\ NumJobs \in Nat
    /\ Cyclic \subseteq Jobs
    /\ Step \in [Jobs -> Nat]
    /\ {MaxRuns, MaxLoops} \subseteq Nat
    /\ {Prompt, IdReuse, DirLost} \subseteq BOOLEAN

VARIABLES
    phase,    \* phase[t]: where the collector thread of t is
    next,     \* next[t]: the job it spawns next
    clock,    \* clock[t]: before, at or past the end time of the run
    running,  \* running[t]: task->mode is GPF_PROCESS_RUN
    pending,  \* the task whose thread the scheduler has created but not listed
    listed,   \* the tasks in collectorPids
    thread,   \* thread[w]: where the worker thread is
    status,   \* taskJob->status
    ended,    \* taskJob->endTime is set
    loops,    \* taskJob->loopCount
    tracked,  \* the workers in the workerPids of their task
    marked,   \* the workers a reap declared finished
    child,    \* child[w]: the latest command of w
    exit,     \* exit[w]: how that command ended
    code      \* taskJob->exitCode

taskVars == <<phase, next, clock, running, pending, listed>>
workerVars == <<thread, status, ended, loops, tracked, marked, child, exit, code>>
vars == <<phase, next, clock, running, pending, listed, thread, status, ended, loops,
          tracked, marked, child, exit, code>>

Phases == {"none", "created", "spawn", "insert", "watch", "drain", "publish",
           "unlist", "freed", "failed"}
ThreadStates == {"none", "start", "loop", "fork", "wait", "leave", "tail", "done"}

TypeOK ==
    /\ phase \in [Tasks -> Phases]
    /\ next \in [Tasks -> 1..(NumJobs + 1)]
    /\ clock \in [Tasks -> {"before", "at", "past"}]
    /\ running \in [Tasks -> BOOLEAN]
    /\ pending \subseteq Tasks
    /\ listed \subseteq Tasks
    /\ thread \in [Workers -> ThreadStates]
    /\ status \in [Workers -> {"INIT", "RUN", "END", "ERROR"}]
    /\ ended \in [Workers -> BOOLEAN]
    /\ loops \in [Workers -> Nat]
    /\ tracked \subseteq Workers
    /\ marked \subseteq Workers
    /\ child \in [Workers -> {"none", "running", "zombie", "gone"}]
    /\ exit \in [Workers -> {"ok", "failed", "killed"}]
    /\ code \in [Workers -> {0, 1}]

Init ==
    /\ phase = [t \in Tasks |-> "none"]
    /\ next = [t \in Tasks |-> 1]
    /\ clock = [t \in Tasks |-> "before"]
    /\ running = [t \in Tasks |-> FALSE]
    /\ pending = {}
    /\ listed = {}
    /\ thread = [w \in Workers |-> "none"]
    /\ status = [w \in Workers |-> "INIT"]
    /\ ended = [w \in Workers |-> FALSE]
    /\ loops = [w \in Workers |-> 0]
    /\ tracked = {}
    /\ marked = {}
    /\ child = [w \in Workers |-> "none"]
    /\ exit = [w \in Workers |-> "ok"]
    /\ code = [w \in Workers |-> 0]

-----------------------------------------------------------------------------
(* Reading the worker table.                                                *)

Of(t) == {w \in Workers : w[1] = t}
Worker(t) == <<t, next[t]>>

\* gpfCountWorkerPids: tracked workers whose status is RUN or INIT.
Counted(t) == {w \in Of(t) \cap tracked : status[w] \in {"INIT", "RUN"}}

\* Mutant: the comparison of the status leaves RUN out.
AliveOffByOne(w) ==
    IF w[2] \in Cyclic
    THEN loops[w] < Step[w[2]]
    ELSE status[w] = "INIT" /\ child[w] \in {"running", "zombie"}

\* Does the reap take the worker for alive? A cyclic one by its count, another
\* by its process, which is still there as a zombie.
Alive(w) ==
    IF w[2] \in Cyclic
    THEN loops[w] < Step[w[2]]
    ELSE status[w] \in {"INIT", "RUN"} /\ child[w] \in {"running", "zombie"}

\* gpfReapTimeoutWorkers: a worker without an end time is declared finished
\* if it does not look alive, and otherwise its command is killed if so asked.
Reap(t, killAll) ==
    LET fresh == {w \in Of(t) \cap tracked : ~ended[w]}
        dead  == {w \in fresh : ~Alive(w)}
        slain == {w \in fresh : killAll /\ Alive(w) /\ child[w] = "running"}
    IN  /\ status' = [w \in Workers |-> IF w \in dead THEN "END" ELSE status[w]]
        /\ ended' = [w \in Workers |-> w \in dead \/ ended[w]]
        /\ marked' = marked \cup dead
        /\ child' = [w \in Workers |-> IF w \in slain THEN "zombie" ELSE child[w]]
        /\ exit' = [w \in Workers |-> IF w \in slain THEN "killed" ELSE exit[w]]
        /\ UNCHANGED <<thread, loops, tracked, code>>

\* By the time of a five-second check the workers have forked what they fork
\* at once.
Settled(t) ==
    Prompt => \A w \in Of(t) : /\ thread[w] # "start"
                               /\ w[2] \notin Cyclic => thread[w] # "fork"

-----------------------------------------------------------------------------
(* Scheduler thread.                                                        *)

\* gpfSpawnCollector up to pthread_create.
SpawnCollector(t) ==
    /\ phase[t] = "none"
    /\ Cardinality({u \in Tasks : phase[u] # "none"}) < MaxRuns
    /\ pending = {}
    /\ phase' = [phase EXCEPT ![t] = "created"]
    /\ pending' = {t}
    /\ UNCHANGED <<next, clock, running, listed, workerVars>>

\* The rest of it: the thread id goes into the task and the task into
\* collectorPids, whether or not the collector thread is through by now. An id
\* that is still in the table, which keeps the task out, is left aside.
ListCollector(t) ==
    /\ t \in pending
    /\ pending' = {}
    /\ listed' = listed \cup {t}
    /\ UNCHANGED <<phase, next, clock, running, workerVars>>

\* waitpid(-1, WNOHANG) of the scheduler loop takes any zombie of the process.
SchedulerWait(w) ==
    /\ pending = {}
    /\ child[w] = "zombie"
    /\ child' = [child EXCEPT ![w] = "gone"]
    /\ UNCHANGED <<taskVars, thread, status, ended, loops, tracked, marked, exit, code>>

-----------------------------------------------------------------------------
(* Collector thread.                                                        *)

Go(t, p) == phase' = [phase EXCEPT ![t] = p]

\* gpfRunCollector begins; without its output directory it returns at once
\* and leaves the task where the scheduler put it.
StartCollector(t) ==
    /\ phase[t] = "created"
    /\ \/ /\ Go(t, IF t \in Serial /\ NumJobs = 0 THEN "drain" ELSE "spawn")
          /\ running' = [running EXCEPT ![t] = ~(t \in Serial /\ NumJobs = 0)]
       \/ DirLost /\ Go(t, "failed") /\ UNCHANGED running
    /\ UNCHANGED <<next, clock, pending, listed, workerVars>>

\* Mutant: one job too many.
SpawnWorkerPastEnd(t) ==
    /\ phase[t] = "spawn"
    /\ next[t] <= NumJobs + 1
    /\ thread' = [thread EXCEPT ![Worker(t)] = "start"]
    /\ Go(t, "insert")
    /\ UNCHANGED <<next, clock, running, pending, listed, status, ended, loops,
                   tracked, marked, child, exit, code>>

\* gpfCreateTaskJob and gpfSpawnWorker.
SpawnWorker(t) ==
    /\ phase[t] = "spawn"
    /\ next[t] <= NumJobs
    /\ thread' = [thread EXCEPT ![Worker(t)] = "start"]
    /\ Go(t, "insert")
    /\ UNCHANGED <<next, clock, running, pending, listed, status, ended, loops,
                   tracked, marked, child, exit, code>>

\* The worker goes into workerPids. A concurrent collector uses its thread id
\* as the key, and the insertion fails if a worker of the run had that id.
InsertWorker(t) ==
    /\ phase[t] = "insert"
    /\ \/ tracked' = tracked \cup {Worker(t)}
       \/ /\ IdReuse /\ t \notin Serial
          /\ \E u \in Of(t) \cap tracked : thread[u] = "done"
          /\ UNCHANGED tracked
    /\ next' = [next EXCEPT ![t] = @ + 1]
    /\ Go(t, IF t \in Serial THEN "watch" ELSE "spawn")
    /\ UNCHANGED <<clock, running, pending, listed, thread, status, ended, loops,
                   marked, child, exit, code>>

\* No job is left to spawn: a concurrent collector starts to watch, a serial
\* one is done.
JobsSpawned(t) ==
    /\ phase[t] = "spawn"
    /\ next[t] > NumJobs
    /\ IF t \in Serial
       THEN Go(t, "drain") /\ running' = [running EXCEPT ![t] = FALSE]
       ELSE Go(t, "watch") /\ UNCHANGED running
    /\ UNCHANGED <<next, clock, pending, listed, workerVars>>

\* The five-second check of the loop: reap, count, and leave if none is left.
\* A serial collector goes on to its next job unless the end time has come.
CheckWorkers(t) ==
    /\ phase[t] = "watch"
    /\ clock[t] # "past"
    /\ Settled(t)
    /\ Reap(t, FALSE)
    /\ IF Counted(t)' # {}
       THEN UNCHANGED <<phase, running>>
       ELSE IF t \in Serial /\ clock[t] = "before"
            THEN Go(t, "spawn") /\ UNCHANGED running
            ELSE Go(t, "drain") /\ running' = [running EXCEPT ![t] = FALSE]
    /\ UNCHANGED <<next, clock, pending, listed>>

\* Mutant: the reap at the end time does not kill.
TimeoutWorkersNoKill(t) ==
    /\ phase[t] = "watch"
    /\ clock[t] = "past"
    /\ Settled(t)
    /\ Reap(t, FALSE)
    /\ running' = [running EXCEPT ![t] = FALSE]
    /\ Go(t, "drain")
    /\ UNCHANGED <<next, clock, pending, listed>>

\* The end time has passed: the mode tells the workers so, their commands are
\* killed, and no further job is spawned.
TimeoutWorkers(t) ==
    /\ phase[t] = "watch"
    /\ clock[t] = "past"
    /\ Settled(t)
    /\ Reap(t, TRUE)
    /\ running' = [running EXCEPT ![t] = FALSE]
    /\ Go(t, "drain")
    /\ UNCHANGED <<next, clock, pending, listed>>

\* Mutant: it does not wait.
DrainAtOnce(t) ==
    /\ phase[t] = "drain"
    /\ Go(t, "publish")
    /\ UNCHANGED <<next, clock, running, pending, listed, workerVars>>

\* gpfRunCollector waits until no worker is counted.
Drain(t) ==
    /\ phase[t] = "drain"
    /\ Counted(t) = {}
    /\ Go(t, "publish")
    /\ UNCHANGED <<next, clock, running, pending, listed, workerVars>>

\* Report, archive, transfer and purge of what the commands have written.
Publish(t) ==
    /\ phase[t] = "publish"
    /\ Go(t, "unlist")
    /\ UNCHANGED <<next, clock, running, pending, listed, workerVars>>

\* The task leaves collectorPids, if it is there, and is freed with its
\* task jobs.
FreeTask(t) ==
    /\ phase[t] = "unlist"
    /\ listed' = listed \ {t}
    /\ Go(t, "freed")
    /\ UNCHANGED <<next, clock, running, pending, workerVars>>

-----------------------------------------------------------------------------
(* Worker thread.                                                           *)

At(w, s) == thread' = [thread EXCEPT ![w] = s]

\* gpfRunWorker up to its first command; without the script directory it
\* returns and keeps the status INIT.
StartWorker(w) ==
    /\ thread[w] = "start"
    /\ \/ /\ status' = [status EXCEPT ![w] = "RUN"]
          /\ At(w, IF w[2] \in Cyclic THEN "loop" ELSE "fork")
       \/ DirLost /\ At(w, "done") /\ UNCHANGED status
    /\ UNCHANGED <<taskVars, ended, loops, tracked, marked, child, exit, code>>

\* The loop of a cyclic job stops on the task's mode or its own timeout ...
StopCycle(w) ==
    /\ thread[w] = "loop"
    /\ ~running[w[1]] \/ clock[w[1]] = "past" \/ phase[w[1]] = "freed"
    /\ At(w, "leave")
    /\ UNCHANGED <<taskVars, status, ended, loops, tracked, marked, child, exit, code>>

\* ... and otherwise goes on to its next command.
NextCycle(w) ==
    /\ thread[w] = "loop"
    /\ running[w[1]] \/ phase[w[1]] = "freed"
    /\ Step[w[2]] = 0 => loops[w] < MaxLoops
    /\ At(w, "fork")
    /\ UNCHANGED <<taskVars, status, ended, loops, tracked, marked, child, exit, code>>

\* A cyclic worker after a command that counts as successful.
CycleDone(w) ==
    /\ loops' = [loops EXCEPT ![w] = @ + 1]
    /\ At(w, IF Step[w[2]] > 0 /\ loops[w] + 1 >= Step[w[2]] THEN "leave" ELSE "loop")

\* gpfExecCommand forks the command and waits for it, except that a cyclic
\* job whose time is up to the second does not wait; fork may also fail.
Fork(w) ==
    /\ thread[w] = "fork"
    /\ \/ /\ child' = [child EXCEPT ![w] = "running"]
          /\ \/ At(w, "wait") /\ UNCHANGED loops
             \/ /\ w[2] \in Cyclic
                /\ clock[w[1]] # "before"
                /\ CycleDone(w)
       \/ /\ At(w, "leave")
          /\ UNCHANGED <<child, loops>>
    /\ UNCHANGED <<taskVars, status, ended, tracked, marked, exit, code>>

\* waitpid returns. The exit status of a killed command reads as 0; if the
\* scheduler took the zombie, waitpid fails and the code is 1.
WaitEnds(w) ==
    /\ thread[w] = "wait"
    /\ child[w] \in {"zombie", "gone"}
    /\ LET failed == child[w] = "gone" \/ exit[w] = "failed"
       IN  /\ code' = [code EXCEPT ![w] = IF failed THEN 1 ELSE 0]
           /\ IF w[2] \in Cyclic /\ ~failed
              THEN CycleDone(w)
              ELSE At(w, "leave") /\ UNCHANGED loops
    /\ child' = [child EXCEPT ![w] = "gone"]
    /\ UNCHANGED <<taskVars, status, ended, tracked, marked, exit>>

\* The end time is set; without the agent's directory to go back to, the
\* worker returns and keeps the status RUN.
EndWorker(w) ==
    /\ thread[w] = "leave"
    /\ ended' = [ended EXCEPT ![w] = TRUE]
    /\ \/ At(w, "tail")
       \/ DirLost /\ At(w, "done")
    /\ UNCHANGED <<taskVars, status, loops, tracked, marked, child, exit, code>>

\* Mutant: the last status is not written.
FinishWorkerStaysRun(w) ==
    /\ thread[w] = "tail"
    /\ At(w, "done")
    /\ UNCHANGED <<taskVars, status, ended, loops, tracked, marked, child, exit, code>>

\* The last writes into the task job.
FinishWorker(w) ==
    /\ thread[w] = "tail"
    /\ status' = [status EXCEPT ![w] = IF code[w] = 0 THEN "END" ELSE "ERROR"]
    /\ At(w, "done")
    /\ UNCHANGED <<taskVars, ended, loops, tracked, marked, child, exit, code>>

-----------------------------------------------------------------------------
(* Commands and time.                                                       *)

CommandExits(w) ==
    /\ child[w] = "running"
    /\ child' = [child EXCEPT ![w] = "zombie"]
    /\ exit' \in {[exit EXCEPT ![w] = e] : e \in {"ok", "failed"}}
    /\ UNCHANGED <<taskVars, thread, status, ended, loops, tracked, marked, code>>

Tick(t) ==
    /\ phase[t] \notin {"none", "created", "failed"}
    /\ clock[t] # "past"
    /\ clock' = [clock EXCEPT ![t] = IF @ = "before" THEN "at" ELSE "past"]
    /\ UNCHANGED <<phase, next, running, pending, listed, workerVars>>

-----------------------------------------------------------------------------
SchedulerStep == \E t \in Tasks : SpawnCollector(t) \/ ListCollector(t)

CollectorStep(t) ==
    \/ StartCollector(t) \/ SpawnWorker(t) \/ InsertWorker(t) \/ JobsSpawned(t)
    \/ CheckWorkers(t) \/ TimeoutWorkers(t)
    \/ Drain(t) \/ Publish(t) \/ FreeTask(t)

WorkerStep(w) ==
    \/ StartWorker(w) \/ StopCycle(w) \/ NextCycle(w) \/ Fork(w)
    \/ WaitEnds(w) \/ EndWorker(w) \/ FinishWorker(w)

Next ==
    \/ SchedulerStep
    \/ \E t \in Tasks : CollectorStep(t) \/ Tick(t)
    \/ \E w \in Workers : WorkerStep(w) \/ SchedulerWait(w) \/ CommandExits(w)

Spec == Init /\ [][Next]_vars

\* Threads are scheduled and time passes. Commands may hang.
Fairness ==
    /\ \A t \in Tasks : /\ WF_vars(ListCollector(t))
                        /\ WF_vars(CollectorStep(t))
                        /\ WF_vars(Tick(t))
    /\ \A w \in Workers : WF_vars(WorkerStep(w))

FairSpec == Spec /\ Fairness

-----------------------------------------------------------------------------
(* Properties.                                                              *)

Live == {w \in Workers : thread[w] \notin {"none", "done"}}
Past(t) == phase[t] \in {"publish", "unlist", "freed"}

\* A worker thread that is still running when the results of its run are
\* published, or when its task has been freed under it, is one that a reap
\* had declared finished or that never got into workerPids: the wait of
\* gpfRunCollector covers every other worker, however the threads interleave.
OnlyMarkedOutlive ==
    \A w \in Live : Past(w[1]) => w \in marked \/ w \notin tracked

\* A repeating worker was between two commands when the kill came: the one it
\* has forked since is still running, and nobody will kill it.
MissedTheKill(t) ==
    /\ phase[t] = "drain"
    /\ \E w \in Of(t) : w[2] \in Cyclic /\ thread[w] = "wait" /\ child[w] = "running"

\* A spawned run comes to an end, with the kill at the end time if need be,
\* unless a command that missed the kill hangs for ever.
EveryRunEnds ==
    \A t \in Tasks : (phase[t] = "created")
                       ~> (phase[t] \in {"freed", "failed"} \/ []MissedTheKill(t))

\* The jobs that run their command once.
Plain == {w \in Workers : w[2] \notin Cyclic}

\* What RunPromise sees of the runs and of the commands that are not repeated.
RunState ==
    [t \in Tasks |-> IF phase[t] = "none" THEN "idle"
                     ELSE IF Past(t) \/ phase[t] = "failed" THEN "closed" ELSE "open"]
LiveCommands == {w \in Plain : child[w] = "running"}
StartedCommands == {w \in Plain : child[w] # "none"}

Promise == INSTANCE RunPromise WITH
    Runs <- Tasks, OneAtATime <- Serial,
    state <- RunState, live <- LiveCommands, started <- StartedCommands

\* The steps of a run keep the promise of RunPromise: a command that is not
\* repeated is started once, while its run is open and, if the collector is
\* serial, while no other is alive; the output is handed on when all are gone.
PromiseKept == Promise!Spec

\* The exit code recorded for a command is the command's own.
ExitCodeIsOwn ==
    \A w \in Workers : thread[w] \in {"leave", "tail", "done"} /\ child[w] = "gone"
                         => (code[w] = 0 <=> exit[w] = "ok")

=============================================================================
