# Formal verification of getperf

getperf is a monitoring framework. An **agent** (C, `src/module/getperf-agent`)
runs commands on the monitored host at fixed intervals and sends their zipped
output to a **web service** (Java, `src/module/getperf-ws`), which keeps it in a
staging directory. An **aggregator** (Perl, `src/lib/Getperf`) watches that
directory, or copies it with rsync from another host, extracts the archives and
turns them into time series.

This directory holds TLA+ models of the parts of this pipeline that are
concurrent, share state or have to survive failures, the TLC configurations that
check them, and TLAPS proofs. `PROJECT.json` lists for every definition the lines
it models, for every run its question, and for every hazard the properties that
cover it.

Abbreviations below: `gpf_agent.c` is
`src/module/getperf-agent/src/gpf_agent.c`, and so on.

## 1 Inventory

### The pipeline

    scheduler thread --5 s poll--> collector thread (one per run)
                                      |  one worker thread per job, each forks
                                      |  a command and waits for it
                                      v
                              output directory -> zip archive
                                      |  getperfsoap: reserveSender, sendData
                                      v
    web service:  reservation table      staging directory + list of archives
                  + purge thread              |                    |
                                        SumUp daemon          sitesync (cron)
                                        watches the list      lock, rsync
                                              v                    v
                                      extract, aggregate (RRD, InfluxDB, Zabbix)

### Components

| Component | State it keeps | Operations | What is hard |
|---|---|---|---|
| Scheduler and timer (`gpf_agent.c` 640-830) | per collector: `nextTimestamp`, `status`, `odir`; `checkTime` | poll, checks (HA, license, disk), spawn | wall clock and local time may go back; failed checks leave collectors waiting; restart forgets the timer |
| Collector and worker threads (`gpf_agent.c` 840-1500, `gpf_process.c`) | tasks and task jobs on the heap, `collectorPids`, `workerPids`, child processes | spawn, run, reap, kill, wait, report, free | detached threads over shared records; two `waitpid`s for one child; reused thread ids; the end time against everything else |
| Archive and transfer (`gpf_agent.c` 1990-2240, `getperfsoap.c`) | archive directory, `gpfSoapAccessFlag` | zip, list, reserve, send, unlink, expire | overlapping runs over one directory, a timeout while the server goes on |
| Reservation table (`ReserveManager.java`) | static `HashMap` | `regist`, `remove`, purge thread | test-then-put, unsynchronised map, modification under an iterator |
| Staging (`StagingData.java`, `StagingFileHandler.java`) | staging directory, list, temporary and backup file | `sendData`, `circulate` | several handlers over one list; failed attachment listed all the same |
| SumUp daemon (`SumUp.pm`, `Extractor.pm`) | check point, list read at wake-up | watch, `sync`, `unzip`, `aggrigate`, `save_lastzips` | files change between reading the list and opening them; crash before the check point is saved |
| Site synchronisation (`Sync.pm`, `src/script/sitesync`) | lock file, mirror, `zips`, `staging_files` | `lock_process`, `rsync`, `unzip`, `aggrigate`, turns | stale locks, rsync that is cut off, lists that are or are not reset |
| Agent stop and control (`getperfctl.c`, `gpf_daemon.c`, `getperf.c`, `gpfRunExit`) | exit flag, pid file | start, stop, signals, `getperf -s` | files that nothing locks, reused pids, a time-out; `gpfRunExit` walks `collectorPids` without its mutex and ends the process under the other threads |
| Mutexes (`mutexs.c`) | System V semaphores | create (forced), lock, unlock, destroy | a second process removes the semaphores of the first; the signal handler takes mutexes on the stack it interrupts |
| Log retrieval (`gpf_logrt.c`) and logging (`gpf_log.c`) | saved offset (inode and position); log files | read what is new, limit it, rotate | files are known by inode and opened by name; rotation in the middle of a call, a call killed between its offset and its output |
| Configuration, setup, certificates, data loaders, views, deployment, third-party code | files | parsing, conversion, requests | sequential; listed in `PROJECT.json` with the reason they are not modelled |

### How they interact

* The scheduler gives the collector thread a task (copy of `odir`); the collector
  thread removes it from `collectorPids` and frees it. Both do so under
  `taskAccessFlag`; the thread id that serves as the key is known only after
  `pthread_create`.
* The scheduler's `waitpid(-1)` takes children that belong to worker threads and
  to transfers.
* Archives of all runs of a collector share one directory; only the start of
  getperfsoap is serialised.
* The web service answers the agent after `circulate`; the agent may be gone by
  then. The reservation of a key is released by `sendData`.
* The web service and the daemon share the list file and the staging directory
  without a lock; so do the web service and rsync.
* `getperfctl stop` writes the exit flag; the scheduler thread, or the handler of
  SIGTERM on whatever thread it interrupts, runs `gpfRunExit` and removes it.
* All agents that are started in one directory, the short-lived `getperf -s` and
  a start that finds another agent running included, share one set of semaphores.
* logretrieve is a command of a collector, and killed like one at the end time.

### What makes each part correct

* Scheduler: a run gets a directory of its own, in order, and the rest of the
  pipeline sorts by name and relies on it. It is late by what the checks take and
  by the polls it is held over, no more, and runs that were missed are not made up
  for.
* Collector: a run ends although commands hang; its output is handed on when
  nobody writes to it any more; exit codes are those of the commands; `serial`
  means one at a time.
* Delivery: nothing leaves the agent unsent; what is received is listed, and
  counted by one synchronisation.
* Reservation table: a bounded number of entries, and room again when clients
  vanish.
* Stop and control: one scheduler per work directory; a request to stop ends the
  agent it was meant for; no command is left running that the agent knows of.
* Mutexes: mutual exclusion among the threads of an agent, and no thread waits
  for ever, whatever other agents do to the common key.
* Log retrieval: every line put out once, the newest ones if there are too many.
* Site synchronisation: one at work per site; what rsync reported is aggregated,
  for it is reported only once.

## 2 Modules and plan

| # | Module | Specification | Abstract specification / proofs |
|---|---|---|---|
| 1 | `ReserveManager` | reservation table and purge thread | `ReserveManagerProofs` |
| 2 | `Collector` | scheduler, collector and worker threads, commands | `RunPromise` (refined), `CollectorProofs` |
| 3 | `Delivery` | agent transfer, staging, SumUp, composed | `DeliveryProofs` |
| 4 | `Scheduler` | timer, clock, checks, restart | `SchedulerProofs` |
| 5 | `SiteSync` | lock, rsync, turns, staging directory | `SiteSyncProofs` |
| 6 | `AgentStop` | `gpfRunExit` against the threads of `Collector`, which it extends | `CollectorProofs` |
| 7 | `AgentControl` | agent processes, `getperfctl`, exit flag, pid file | `AgentControlProofs` |
| 8 | `LogRetrieve` | rotating writer and logretrieve | `LogCursor` (refined), `LogRetrieveProofs` |
| 9 | `Semaphores` | the mutexes of several agents under one key | `SemaphoresProofs` |

`MC*` modules give constants that a configuration cannot write down.

The order follows importance: the races that can lose or spoil monitoring data
came first (2, 3), the reservation table before them as the smallest complete
component, the scheduler next because `Delivery` rests on the order of names that
it establishes; then the stop, which walks the tables of `Collector`, and the
parts that stand by themselves. `AgentStop` is the second composition: its
actions are `Collector`'s until the process ends, and its own around them. What
the mutexes give, and when, is `Semaphores`; the other modules take a section
under a mutex for one step. What is left of the plan is in section 6.

`Delivery` is a composition in itself: its three sections are the three programs,
and it is their interleaving that is of interest. It takes two things from
outside. Archive names are run numbers, which ascend: that is `DirectoriesAscend`
of `Scheduler`. `Overlap = FALSE`, where it is stated, is an assumption: that each
run of a collector, transfer included, is over when the next one is spawned. The
interval does not imply it. With the defaults (interval 300 s, timeout 340 s) a
run may last longer than its interval, and a slow check may have two runs spawned
at the same moment, which is why `NoBurst` of `Scheduler` speaks of three; section
4 says what happens then.

## 3 Model and code

### ReserveManager

`reserves` is the key set of the HashMap (values are never read) and `size` its
own counter. `regist` is two steps, `RegistCheck` (`containsKey`, `size()`) and
`RegistPut` (`put`), because nothing synchronises them; `remove` has a start and
an end so that it can overlap others. `SweepStart`, `SweepFails` and
`SweepRemoves` are the purge thread: `next()` fails if the map was changed, and
nobody catches that. `AtomicMap = FALSE` is the real `HashMap`: an overlapped
write may be undone or lose its count. `AtomicMap = TRUE` assumes each single
call to be atomic; the runs use it to show what goes wrong even then. Lookups
that change nothing and entries' ages, which the purge ignores, are left out.

### Collector

One collector thread per task, one worker per task and job. `phase[t]` follows
`gpfRunCollector` and the two `gpfManageWorker` loops, `thread[w]` follows
`gpfRunWorker` with `gpfExecCommand`. A section under `taskAccessFlag` is one
action. `Reap` is `gpfReapTimeoutWorkers`, which treats each worker
independently, so that the order of its loop does not matter; mode TIMEOUT is
merged with END, as readers only ask for RUN. `pending` is the window between
`pthread_create` and the insertion into `collectorPids`. `SchedulerWait` is
`waitpid(-1, WNOHANG)`. A worker whose task has been freed reads anything for
`running`: both `StopCycle` and `NextCycle` are possible. Time is the order of
events: `Tick` moves the clock of a run to its end time and past it. `Prompt`
says that a five-second check finds the worker threads created before it under
way; about the scheduler thread, which inserts the collector thread after it has
created it, it says nothing, and no property is about that order. Left out:
failing `pthread_create`, an insertion into `collectorPids` that fails because an
entry has the same thread id (it is logged, `gpf_agent.c:922`; that of a worker
is modelled), and processes that a killed shell leaves behind. `gpfRunExit` is in
`AgentStop`.

`RunPromise` says what a run promises without threads: it opens, starts each
command at most once while it is open, one at a time if serial, and closes when
none is alive. `Collector` maps its state to it for the commands that are not
repeated; `PromiseKept` is the refinement, checked and proved. Repeated commands
make no such promise (section 4).

### Delivery

Agent: `pass[r]` follows run r through `gpfArchiveData` (`Archive`, `Archived`:
the zip is written under its final name) and `gpfSendCollectorDataAll`
(`ListArchives`, then per archive `DropExpired` or `Reserve`/`Post` and
`SendSucceeds`, or `SendFails`). zipDir may fail, and its result is only logged
(`gpf_agent.c:2016`, 977): for a run in `ZipFails` the file may stay away, or be
left incomplete under its final name, and an incomplete one is sent, answered OK
and removed like any other. Web service: `OpenStaging`, `Store` are
`extractAttachment`, and `ReadList`, `WriteTmp`, `MoveAway`, `MoveIn` are the file
operations of `circulate`, each of which another handler may come between.
Aggregator: `Wake` is the watcher, which reports up to `MaxPaths` paths; `ReadZips`
reads the list once for each and appends what is past the check point; `Extract`,
`Aggregate` and `Save` work through that; `Crash` comes at any moment at which
there is something to lose. `work` and `got` are bags, for nothing drops the
duplicates: an archive is extracted and counted as often as its name was read.

Abstractions: names are run numbers and an hour is the distance of two runs; the
lists of the agent and of the web service are sets, since the one reads a
directory and the other drops duplicates; the three tries of getperfsoap are one
reservation that succeeds or not; all ways a transfer can fail for the agent are
`SendFails`, and the request goes on at the web service. An agent that is killed
and started again is a run with an archive left incomplete, or a transfer that
fails. Left out: the branch of an external transfer command, `recover` and
`fastrecover`, a getperfsoap killed by a signal, an exception when the purge
cannot delete, an extraction that ends early because it cannot make a directory.

### Scheduler

`Poll` is `gpfCheckTimer` with `Due`, `NextTime` and the directory `NewDir`;
`CheckFails`/`CheckPasses` are `gpfPrepareCollector`; `Spawn` and `AllSpawned`
are the spawning loop of `gpfRunScheduler`. The clock has actions of its own:
forward, back, and a shift of local time. `Name(d)` is the value the directory's
digits stand for. The clock may move between a poll and the spawning, too:
`took` is the time the checks have taken. `held`, `fresh`, `took`, `last`, `ran`
and `before` are history the properties need; `Elapsed` is the time that has
really passed, which a clock set back does not show. A disabled collector has interval 0. What
the checks look at is a choice; the exit flag belongs to `AgentControl`.

### AgentStop

`BeginStop` is the scheduler thread that leaves its loop, or its handler that
interrupts it: from then on it schedules nothing. `NextTask` is `ght_first` and
`ght_next`, without the mutex; `broken` says that the entry the iterator stood on
was removed or its task freed, after which C allows anything and the properties
say nothing. `VisitTask` sets the mode END and reaps. `ThreadStep` are the other
threads, which go on until `exit`; `CommandStep` outlives it. `met` and `late`
are history: the workers the walk found, and the commands forked after the visit.
A walk that meets a thread creating a task is covered, since `BeginStop` may fall between any two steps of
`Collector`.

### AgentControl

`pc[p]` follows an agent process from `getperfctl start` through the check and
the write of the pid file (`CheckService`, `WritePid`, `getperf.c` 179-190), the
loop, and `gpfRunExit`, reached by the exit file or by a signal. `StopService`,
`WriteFlag`, `Poll` and `StopReturns` are `getperfctl stop` with its loop
`while ( timeout-- > 0 )`: `left` is what that leaves in `timeout`. `ReusePid`
gives the pid of an ended agent to a process that is none, which
`gpfCheckProcess` cannot tell from one. `SignalHangs` is a handler that never
returns, because the thread it interrupts is inside a mutex it takes itself (see
`Semaphores`): the process is `stuck`. `InterruptStat` is a `getperf -s` that is
interrupted; it removes the flag like any agent. `asked`, `stale`, `raced` and
`stolen` are history. Left out: the Windows service.

### LogRetrieve

The writer is `_gpfLog`: `BeginRotate`, one `Rename` per generation, and the line
(`Log`, `LogAfterRotate`), which creates a log that is not there under any free
inode. The reader is `gpfRetrieveLog`: `StartCall` (offset and `stat`),
`FindRotated` (the generation modified last; that the code compares whole seconds,
and among equals takes the first of the directory, is left out), `TailOld` and `TailCur` with the
limits, `ClearOffset`/`SaveOffset` (the offset file is truncated, then written) and
`Output`. `Kill` is the collector's end time. Lines are numbered and positions
count them: a limit in KB is a number of lines, and the ring of results is the
set of its rows. `cause` records what may cost or repeat lines: a rename in the
middle of a call, more than one rotation between two calls, a call killed after
or while it saved an offset, an inode used again. `LogCursor` says what that
comes to for one who sees neither files nor offsets: a call looks how far the log
goes, fetches a stretch of lines that reaches there, and puts it out, or it is
interrupted; `CursorKept` is the refinement, with the four causes no call can make
up for as its exceptions, and a kill, which is none of them, as `Interrupt`. Left out: the regular
expression filter, lines cut by a limit in the middle, the Windows event log.

### Semaphores

`live` is the set of semaphores under the key, named by the process and round
that made it; `mine[p]` is what p holds as `ZBX_SEM_LIST_ID`. `Create`, `Exists`,
`Find`, `Remove` and `SetValues` are the system calls of
`zbx_mutex_create_ext(..., 1)`, which `main` calls once per mutex. `Want`, `Enter`
and `Leave` are lock and unlock; a semaphore call on a set that is gone fails and
the caller goes on, since nobody looks at the result. `Signal`, `HandlerLock` and
`HandlerExit` are the handler of SIGTERM, which logs, may reap, destroys the set
and exits, on the stack of the thread it interrupts. The mutex of the transfers,
which is never held together with the others, behaves like `task` and is left out.

### SiteSync

`ReadLock`, `MakeLock`, `TestOwner`, `RemoveStaleLock` and `RemakeLock` are the
system calls of `lock_process`, `StartTurn`, `SkipTurn`, `Rsync`/`RsyncCutOff`,
`Unzip`, `Aggregate` and `Unlock` the turns of `run`. The versions of an archive
are numbers: odd while the web service writes it, even when it is whole. rsync
compares when it begins and copies when it ends; one that is cut off has named
what it copied and perhaps one file more. `zips` is reset after each turn,
`staging_files` is not. `botched` records a takeover that removed somebody
else's lock or overlooked that its own symlink was refused. Left out: reuse of
process ids, the correction of directory names, the purge of the analysis area,
and an `unzip` that returns early because it cannot make a directory
(`Sync.pm:172`), with the archives after it not extracted; time
appears only as turns that are skipped.

## 4 Runs

Every property of a passing run is broken by a mutant: a definition of the
model changed the way a bug would change the code (in the modules, each with a
comment `Mutant`).

| Run | States | Bounds | What it shows |
|---|---|---|---|
| `reserve_bound` | 5 800 | 3 threads, 4 keys, 2 places | the limit is overrun by at most the other threads (`OvershootBounded`) |
| `reserve_purge_dies` | violation | 1 thread, 2 keys, 2 places | the purge thread dies, a full table stays full (`FullTableDrains`) |
| `collector_hands_on` | 59 600 | a parallel and a serial collector, one run each, a plain job and one that repeats twice | the refinement of `RunPromise`; every run ends, unless a repeating worker missed the kill and what it forked hangs for ever (`EveryRunEnds`) |
| `collector_exit_code` | violation | 2 jobs | a successful command gets exit code 1 |
| `delivery_in_turn` | 692 000 | 3 runs, recovery 2, keep 1, one archive that may fail, one attachment that may, 2 paths, 1 crash | what is removed was stored as far as there was any, what is answered OK is listed, listed archives are reached, skipped only if resent, counted by one sync |
| `scheduler` | 4.19 M | collectors of 2, 3 and 0 ticks, clock to 6, set back by 2, two offsets, restarts | directories ascend, a run is late by the checks and a held interval at most, three runs take an interval (`NoBurst`) |
| `site_sync` | 1.69 M | 3 processes of 2 turns, 1 archive sent twice, 1 cut, 1 crash | one at work but for botched takeovers; no whole copy is forgotten; once per turn |
| `log_retrieve` | 1.79 M | 7 lines, rotation at 2, 2 generations, 3 inodes, limits 2 and 1, 1 kill | no line twice, none lost, the newest ones read, each but for named causes; the refinement of `LogCursor`; the reader catches up |
| `agent_stop` | 1.54 M | the two collectors of `collector_hands_on`, slow threads, reused ids, lost directories, a stop at any moment | which workers may outlive a run (`OnlyMarkedOutlive`), which commands a stop leaves running, repeating workers stop |
| `agent_control` | 263 000 | 3 processes, time-out 2, signals that hang | one scheduler, a stop meets the agent it was meant for, and ends it unless a signal has hung it up |
| `stop_never_kills` | violation | 3 processes, time-out 2 | after the time-out nothing is killed |
| `semaphores` | 19 700 | 2 processes with 2 and 1 threads, 2 creations each, 2 attempts | mutual exclusion while the set exists, no deadlock among the threads (`NeverStuck`), waiters get in, a stop ends |

Why the bounds are enough for the cases that matter:

* `reserve_bound`: two threads can wait in `put` while a third fills the table,
  and a fourth key remains to be refused.
* Collector: two jobs show every pair of workers, a plain one and one that
  repeats both branches of the reap. Runs of different collectors share nothing
  but `collectorPids` and `waitpid`; `MaxRuns = 1` with one parallel and one serial
  collector covers both loops. That runs do not disturb each other is what the
  theorem on `OnlyMarkedOutlive` adds. `agent_stop` has the
  same threads without `Prompt`, so that a stop meets every window between them.
* Delivery: with three runs one archive can expire while another is being sent and
  a third is the newest; `Keep = 1` makes the first drop out of the list. The
  second archive may be left incomplete between two that are whole, the first
  attachment may break off and be sent again with later ones; with two paths an
  archive may be read twice, and the list be replaced between the two readings.
* Scheduler: intervals 2 and 3 with a poll of 1 give collectors that are due
  together and apart, and one whose held run comes with the other's; six ticks
  from any start, and two more that the clock is set back by, are three runs of
  the faster one, and a shift by 2 moves a directory by a slot.
* Site synchronisation: three processes are needed for the takeover in which one
  dies, one takes over and a third still holds what it read; one archive is
  enough since archives meet only in the sets of one process.
* Log retrieval: seven lines with rotation at two are three rotations, so that a
  call can miss one and a file can fall out of the generations; three inodes are
  one fewer than the files of a history, so that one is used again.
* Control: three processes are two that overlap and one that comes after them,
  which meets a flag or a pid left behind. A time-out of two polls separates a
  flag found gone at the last poll from a time-out.
* Semaphores: two threads compete in one agent while a second one starts in every
  order against its creation, its stop and its death; two creations are enough for
  the set of the first round to be removed by the second.

`CHECK_DEADLOCK FALSE` stands where the bounds let the modelled system come to
its end (all runs or processes over).

### Fairness

* `Collector`: threads are scheduled and time passes. Commands are not fair, they
  may hang; the scheduler's `waitpid` is not either.
* `Delivery`: the web service finishes requests it has begun (a servlet thread
  runs without waiting for the client) and the aggregator's daemon goes on. The
  agent may stop anywhere, and is not fair.
* `ReserveManager`: calls that have begun end, and the purge thread runs while it
  lives. Agents need not call.
* `LogRetrieve`: the collector calls again and again, and a rotation that has
  begun ends. New lines need not come.
* `AgentControl`: processes go on (the loop polls the exit file, `gpfRunExit`
  ends), and a stop, once asked for, polls and returns. Nobody has to start, stop,
  signal or kill. A handler need not end: from `stuck` there is no step but a
  kill.
* `Semaphores`: strong fairness for entering, since the kernel serves the waiters
  of a semaphore in the order they came; sections under a mutex are finite, which
  is weak fairness for the innermost and strong for the outer one, inside which
  the thread logs. The handler goes on when it can.
* `Scheduler`, `SiteSync` and `AgentStop` are checked for safety only.

### Findings

Three runs are expected to fail; each states what a
comment, a test or the manual says.

1. `reserve_purge_dies`: the purge thread removes from the map it iterates over
   and dies of the exception (`ReserveManager.java:121`).
2. `collector_exit_code`: the scheduler's `waitpid(-1)` takes a worker's child,
   whose exit code becomes 1 (`gpf_agent.c:816`).
3. `stop_never_kills`: after the time-out of `getperfctl stop` its counter is -1,
   the test for 0 fails, and an agent that does not react is not killed, although
   the stop returns success (`getperfctl.c:232`).

More observations are built into properties that hold, as their exceptions, and
can be made visible by changing a constant of the run:

* The limit of the class comment of `ReserveManager` is overrun, by a bounded
  number (`OvershootBounded`).
* A repeating job without a count is taken for finished while it runs
  (`gpf_agent.c:1473`); a serial collector then starts the next command beside it
  (`gpf_agent.c:1177`), and the worker goes on with a freed task. `Step` of
  `<<0, 0>>` with `Cyclic = {2}` in `AgentStop.cfg` is that job; it is what the
  marked workers of `OnlyMarkedOutlive` are.
* A repeating worker that is between two commands when the end time comes forks a
  command that nobody kills, and the run waits for it, for ever if it hangs
  (`EveryRunEnds`).
* A failing zipDir costs the run's data: the incomplete archive is sent and
  removed, for nobody looks at the result (`gpf_agent.c:2016`); hence
  `UnsentArchivesStay` says that the staging directory has as much as the agent
  had, not that it has a whole archive.
* The aggregator counts an archive once for each path that its watcher reports
  for the same change (`SumUp.pm:589`); hence the `MaxPaths` in
  `CountedByOneSync`.
* A check that takes longer than an interval has two runs of a collector spawned
  at the same moment (`gpf_agent.c:784`): hence `NoBurst` compares a run with the
  one before the previous, and `RunInItsSlot` adds `took`.
* With the default interval (300 s) and timeout (340 s) two runs of a collector
  may overlap; then one sends, and on success removes, the archive that the other
  is still writing (`gpf_agent.c:2190`). `Overlap = TRUE` in `DeliveryInTurn.cfg`
  violates `UnsentArchivesStay`.
* An archive that is resent is emptied first, and if the aggregator comes by just
  then it passes over it for good (`SumUp.pm:715`): the exception of
  `SkippedOnlyIfResent`.
* `circulate` lists no archive whose name sorts before the newest listed one
  (`StagingFileHandler.java:146`): `Late = TRUE`, where an abandoned request ends
  after later ones, violates `NewFileListed`, `SkippedOnlyIfResent`,
  `UnsentArchivesStay` and `ListedIsReached`, and `CountedByOneSync`, too: the list
  may go back between two readings of one sync, whose check point then names the
  older one.
  The archive the agent loses is then one that it sent more than once (theorem
  `LateAnswersLoseOnlyResent`): an abandoned transfer empties the staging file that
  a second one has filled.
* Two sitesyncs may work at once after a botched takeover (`OneAtWork`).
* Lines of a log are lost or repeated when a rotation falls into a call, when a
  call is killed around its offset, and when more than one rotation comes between
  two calls (`NoRepeat`, `Complete`).
* The exit flag of an agent that died is taken by the next one
  (`RequestStopsTarget`); an interrupted `getperf -s` takes anybody's,
  and a signal may hang an agent that was asked to stop (`StopsInTheEnd`);
  two agents that start together both run (`OneScheduler`).
* Any agent that starts in the directory removes the semaphores of the one that
  runs (`mutexs.c:104`), whose mutexes are without effect from then on
  (`Exclusive`); SIGTERM on a thread that is inside a mutex waits for ever
  (`StopEnds`).

## 5 Proofs

All theorems hold for every value of the constants that satisfies the module's
named assumption; further assumptions are in the statement. Every one is an
instance of the same argument: an inductive invariant, preserved action by
action.

| Theorem | Invariant, and why it is needed |
|---|---|
| `OvershootIsBounded` (`AtomicMap`) | the counter equals the number of entries, so that the test against `size` says something about the table; the iterator stands on an entry, so that the removal by the purge thread keeps the two equal |
| `ReserveTypeCorrect` | types alone; holds for the racing map, too |
| `OnlyMarkedWorkersOutlive` | `InsertInRange`, `SpawnedInOrder`: a worker that is alive, and not being inserted, had its turn to be inserted; `CountedUntilMarked`: a live tracked worker is counted unless a reap marked it. Then the empty count in `Drain` leaves only marked and untracked ones |
| `RunsKeepPromise` (`Prompt`, `IdReuse = FALSE`) | the refinement `Spec => PromiseKept`. `CommandOnce`: a plain job forks once and its worker waits as long as the command runs; `AllTracked`: what is spawned is in `workerPids`; `MarkedQuiet`: a reap of settled workers gives up only what has ended, so that with `OnlyMarkedOutlive` nothing plain is alive when the run is handed on; `OneByOne`: a serial collector spawns a job when those before it are quiet |
| `CollectorTypeCorrect` | types with `InsertInRange` |
| `StopOnlyMarkedOutlive`, `StopLeavesExplainedOrphans`, `StopEndsCycles` | `AgentInv`: what a stop relies on in `Collector`, that a task whose thread runs is in the table or about to be (`TableKnown`, `FirstJob`), that a tracked worker has been spawned (`TrackedBelow`), that commands belong to threads (`CommandsStarted`). `Walked`: when the process ends, the walk has come by every task in the table; `NotYet`: what a worker forks counts as late only from the visit on; `Visited`: a worker that a visit found in the worker table stays there, its task in mode END, and has no command that is alive but one that a reap gave up or that it was about to fork (`Settling`), so that it forks once at most |
| `DeliveryTypeCorrect` | `Requested`, `ToSend`, `FileOfRun`: a request has an archive, a run that sends has a target, and its file exists once it has begun |
| `NothingUnsentIsRemoved` (`Overlap = FALSE`, `Late = FALSE`) | `InTurn`, `Written`, `OneRequest`, `Answered`: the only request at work is the one the run waits for, it read all there is of its archive, whole or left incomplete, and once it is OK the staging file has the same and nobody opens it again |
| `CountedOnce` (`Overlap = FALSE`, `Late = FALSE`) | with the invariants of `AnsweredIsListed`, since what a sync reads twice depends on the web service. `GoalListed`, `Earlier`: in turn the list only grows at its end, so that a later reading never has an older last name and a sync's goal covers all it has read; `Counting`: what a sync has counted of an archive, has extracted (`Taken`), has yet to extract and may still read again (`paths`) stays within `MaxPaths` beyond what killed syncs have counted |
| `LateAnswersLoseOnlyResent` (`Overlap = FALSE`) | `OnlyResentIsLost` (`DeliveryProofs`), which leaves requests of earlier runs at work. `AskedOnce`: an archive sent once has one request, so that no late handler opens its staging file again; `InOrder`: what is older than a request is gone from the agent, so that no late purge removes what a run waits for; `AwaitedAll`: what the run waits for is its own request, read whole |
| `AnsweredIsListed`, `OnlyResentIsSkipped` (`Overlap = FALSE`, `Late = FALSE`) | `PlaceInv` says where every archive is between agent, web service and aggregator. `OrderInv`: what is sent is older than all the agent still has; `BusyIsNewest`, `FirstUnknown`: so the one request at work is for the newest archive ever sent, of which list and aggregator know nothing if it is sent for the first time; `ZipKept`: hence its name goes through draft and temporary file into the list; `Shelved`, `InSync`: what was sent once is listed, or about to be, until it is counted, so that a sync that ends past it had it |
| `SchedulerTypeCorrect`, `RunsGetNewDirectories`, `RunsDoNotBurst`, `RunsStartInTheirSlot` | `Kept(c)`: the next time of c, with what the clock was set back by, lies an interval or more after the start of its latest directory, and after the spawning of the latest run while the next waits, of the one before it while none does; between polls only a collector held by a failed check waits; and the clock is ahead of the poll by `took` at most. `SlotBounds` is the arithmetic of `Interval * (t \div Interval)` |
| `DelayedByTheClockOnly` | inductive as it stands, with the types |
| `SyncTypeCorrect` | types |
| `TwoAtWorkOnlyAfterTakeover` | `Owner`: unless a takeover was botched, whoever works owns the lock; `FoundDead`: who is about to remove a lock has seen its owner dead |
| `ControlOneScheduler` | `Named`, `Alone`: unless two starts overlapped, the pid file names the process that runs the loop or leaves it, and a process about to write its pid is alone |
| `ControlRequestStopsTarget` | `Awaited`: a flag that is not stale still has its process in the loop or on its way out; `Targeted`: a stop past its check has a target |
| `ControlTypeCorrect` | types with `Targeted` |
| `SemaphoresExclude` | `Named`: a process that has made its set knows it under its own name, so that no two work with one set; `Held`: a mutex somebody is inside of has the value 0, and nobody else of the process is; `Begun`, `Quiet` for the processes that are not up |
| `SemaphoresNeverStuck` | deadlock freedom, the part of `WaitersEnter` that needs no fairness. `TakenInside`: a mutex of an agent that has its set is taken only if one of its own threads is inside, because the creation by force sets every value and a dead agent's set is not the living one's; `Waiting`: who waits inside a mutex waits for that of the log, so that a chain of waiters has two links at most |
| `SemaphoreTypeCorrect` | types with the same, since a value is at most 1 only because it was 0 inside |
| `LogNoRepeat` | `FilesInv`: every file has one name, files hold consecutive lines and the log ends with the last one written; `OffsetsInv`, `NamesInv`: while no rename falls into a call, offsets cover no more than their position and names stand for the files that were looked at; `LinesInv`: what has been put out lies below the offset, what the call has read above it |
| `LogComplete`, `LogNewestRead` | `GensInv`: no file is empty, higher numbers are older, the lowest generation ends where the log begins, and a rotation never overwrites one it has not moved. `WhereInv`: an offset is a place in its file, which has a name or a newer generation; so one not older than the newest generation is in that or in the log. `BatchInv`: what is read is exactly the lines from the limit to where the reading goes on. `CoverInv` is `Complete` in the middle of a call |
| `LogKeepsCursor` | the refinement `Spec => CursorKept`: with `WhereInv` and `BatchInv`, which hold while calls are killed, too, the save of the offset of the log is one `Fetch`, everything before it a stutter, and `KeptLines` says what the ring of results makes of a stretch |
| `LogTypeCorrect` | types with `FilesInv` |
| `NoVersionTooOften` | `Charged`: an amortised count, because the sum over processes and turns is not itself inductive: the aggregations of an archive so far, and those a process at work may still do (`Debt`: the copies it has files of or is about to unzip, times the turns it has `Left`), stay within the versions fetched and the cut-off syncs, times the turns of a process. `Versions`: which version a copy is; `Fresh`: a process has no files before its first turn; `Planned`: what rsync has planned is not copied yet, so that a copy is of a version not charged before |
| `NoCopyIsForgotten` | `Extracted`: a whole copy has been extracted, or a process that was told of it is about to extract it, unless one was killed |

`Late = FALSE` says that the web service is through with abandoned requests
before the agent begins its next transfer.

Every invariant and action property of the passing runs has a theorem. Only
model-checked, because they are out of the prover's reach, are the liveness
properties (`EveryRunEnds`, `ListedIsReached`, `FullTableDrains`, `CatchesUp`,
`StopsInTheEnd`, `WaitersEnter`, `StopEnds`), which need fairness and ENABLED. No module uses a
RECURSIVE operator, and no theorem claims anything about data that would need
induction over it.

The proofs cite the assumptions on the constants in the form of lemmas
(`Constants`, `JobNumbers`) and type every variable in a step of its own, which
keeps each obligation within a second or two.

## 6 Not modelled

* The purge hour of the web service: `purge_hour * 3600 * 1000` is an int product
  that overflows from 597 hours on (`StagingFileInfo.java:103`). `Keep` of
  `Delivery` is the hour that results, so that nothing there depends on the width.
* The working directory, which the worker threads of one process share, and which
  each sets before it forks.
* Two collectors of which one name is the prefix of the other, whose archives are
  found by that prefix (`gpf_agent.c:2036`), and a getperfsoap that dies of a
  signal, which counts as a success (`gpf_process.c:519`).
* A run whose output directory cannot be made ends without being unlisted
  (`gpf_agent.c:952`): `DirLost` of `Collector` has it, with the workers' side
  only; the list keeps an entry that nobody uses again but the stop.
* Windows: service, events, the log of events, named mutexes.
* `recover` and `fastrecover` of SumUp, external transfer commands, the regular
  expression filter of logretrieve.
* Parsing, conversion and storage of measurements, certificates, deployment,
  views, third-party code: sequential code over external programs and stores, or
  not the project's own.
* Security, performance, and what the commands themselves do.

## 7 Running the checks

    tlc -config ReserveBound.cfg MCReserveManager.tla
    tlapm CollectorProofs.tla

Each run's module and configuration are in `PROJECT.json`; none takes more than
two minutes.
