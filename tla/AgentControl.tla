---------------------------- MODULE AgentControl ----------------------------
(***************************************************************************)
(* The start and the stop of the agent (getperfctl.c, getperf.c,           *)
(* gpf_process.c, gpf_agent.c). Processes meet in two files of the work    *)
(* directory: _pid_getperf, written by an agent that is about to run the   *)
(* scheduler and never removed, and _exitFlag, written by `getperfctl      *)
(* stop' and removed by whoever runs gpfRunExit. Nothing locks either.     *)
(***************************************************************************)
EXTENDS Integers, FiniteSets

CONSTANTS
    Procs,    \* the agent processes of a history, named by their pid
    None,     \* no pid
    Timeout   \* EXIT_TIMEOUT_SCHEDULER

ASSUME NoneAssumption == None \notin Procs
ASSUME TimeoutAssumption == Timeout \in Nat \ {0}

VARIABLES
    pc,        \* where each process is
    pidFile,   \* the pid in _pid_getperf
    flag,      \* _exitFlag exists
    reused,    \* pids that a process which is no agent has now
    ctl,       \* where `getperfctl stop' is
    target,    \* the pid it read
    left,      \* its count of the seconds to wait
    asked,     \* the pid the last exit flag was written for
    stale,     \* that process cannot take it any more
    raced,     \* two agents passed the check before either wrote its pid
    stolen     \* a process that was not asked removed the flag

procVars == <<pc, pidFile>>
ctlVars == <<ctl, target, left>>
history == <<asked, stale, raced, stolen>>
vars == <<procVars, flag, reused, ctlVars, history>>

\* none: not started. start: initialised, before its check. write: past it.
\* loop: gpfRunScheduler. walk: gpfRunExit from there; abort: from before it.
\* exit: gpfRunExit done, still in /proc. stuck: the handler of a signal waits
\* for a mutex that the thread under it holds.
States == {"none", "start", "write", "loop", "walk", "abort", "exit", "stuck", "gone"}

TypeOK ==
    /\ pc \in [Procs -> States]
    /\ pidFile \in Procs \cup {None}
    /\ flag \in BOOLEAN
    /\ reused \in SUBSET {p \in Procs : pc[p] = "gone"}
    /\ ctl \in {"idle", "ask", "wait", "check"}
    /\ target \in Procs \cup {None}
    /\ left \in -1 .. Timeout
    /\ asked \in Procs \cup {None}
    /\ stale \in BOOLEAN /\ raced \in BOOLEAN /\ stolen \in BOOLEAN

Init ==
    /\ pc = [p \in Procs |-> "none"]
    /\ pidFile = None
    /\ flag = FALSE
    /\ reused = {}
    /\ ctl = "idle" /\ target = None /\ left = 0
    /\ asked = None
    /\ stale = FALSE /\ raced = FALSE /\ stolen = FALSE

-----------------------------------------------------------------------------
(* The processes.                                                           *)

\* gpfCheckProcess: /proc/<pid> is there. The keyword is not looked at here.
InProc(p) == pc[p] \notin {"none", "gone"} \/ p \in reused

\* gpfCheckServiceExist.
ServiceExist == pidFile # None /\ InProc(pidFile)

Goto(p, state) == pc' = [pc EXCEPT ![p] = state]

\* getperfctl start: the check, then gpfDaemonStart.
StartService(p) ==
    /\ pc[p] = "none"
    /\ ~ServiceExist
    /\ Goto(p, "start")
    /\ UNCHANGED <<pidFile, flag, reused, ctlVars, history>>

\* Mutant: getperfctl's check is thought to be enough.
Trusting(p) == Goto(p, "write")

Checked(p) == Goto(p, IF ServiceExist THEN "gone" ELSE "write")

\* main of getperf checks for itself.
CheckService(p) ==
    /\ pc[p] = "start"
    /\ Checked(p)
    /\ raced' = (raced \/ (~ServiceExist /\ \E q \in Procs : pc[q] = "write"))
    /\ UNCHANGED <<pidFile, flag, reused, ctlVars, asked, stale, stolen>>

\* ... writes its pid and runs the scheduler.
WritePid(p) ==
    /\ pc[p] = "write"
    /\ pidFile' = p
    /\ Goto(p, "loop")
    /\ UNCHANGED <<flag, reused, ctlVars, history>>

\* gpfCheckExitFile in the loop.
CatchExit(p) ==
    /\ pc[p] = "loop"
    /\ flag
    /\ Goto(p, "walk")
    /\ UNCHANGED <<pidFile, flag, reused, ctlVars, history>>

\* SIGTERM or SIGINT: the handler runs gpfRunExit wherever the process is.
Signal(p) ==
    /\ pc[p] \in {"start", "write", "loop"}
    /\ Goto(p, IF pc[p] = "loop" THEN "walk" ELSE "abort")
    /\ UNCHANGED <<pidFile, flag, reused, ctlVars, history>>

\* The handler logs and reaps. If the thread that it interrupts is inside a mutex
\* it needs for that, neither goes on, and the process stays where it is.
SignalHangs(p) ==
    /\ pc[p] \in {"start", "write", "loop", "walk", "abort"}
    /\ Goto(p, "stuck")
    /\ stale' = (stale \/ p = asked)
    /\ UNCHANGED <<pidFile, flag, reused, ctlVars, asked, raced, stolen>>

\* Mutant: gpfRunExit keeps the exit flag.
FlagKept == TRUE

FlagAfterExit == FALSE

\* The unlink at the end of gpfRunExit.
RunExit(p) ==
    /\ pc[p] \in {"walk", "abort"}
    /\ flag' = (flag /\ FlagAfterExit)
    /\ Goto(p, "exit")
    /\ stolen' = (stolen \/ (flag /\ p # asked))
    /\ UNCHANGED <<pidFile, reused, ctlVars, asked, stale, raced>>

End(p) ==
    /\ pc[p] = "exit"
    /\ Goto(p, "gone")
    /\ UNCHANGED <<pidFile, flag, reused, ctlVars, history>>

\* SIGKILL from elsewhere, a crash, or a second SIGTERM during gpfRunExit.
Crash(p) ==
    /\ pc[p] \notin {"none", "gone"}
    /\ Goto(p, "gone")
    /\ stale' = (stale \/ p = asked)
    /\ UNCHANGED <<pidFile, flag, reused, ctlVars, asked, raced, stolen>>

\* An interrupted `getperf -s <category>', which makes no check and writes no
\* pid, runs gpfRunExit as well.
InterruptStat ==
    /\ flag' = (flag /\ FlagAfterExit)
    /\ stolen' = (stolen \/ flag)
    /\ UNCHANGED <<procVars, reused, ctlVars, asked, stale, raced>>

\* The system gives the pid of an agent that has ended to another process.
ReusePid(p) ==
    /\ pc[p] = "gone"
    /\ reused' = IF p \in reused THEN reused \ {p} ELSE reused \cup {p}
    /\ UNCHANGED <<procVars, flag, ctlVars, history>>

-----------------------------------------------------------------------------
(* getperfctl stop.                                                         *)

StopService ==
    /\ ctl = "idle"
    /\ ServiceExist
    /\ ctl' = "ask"
    /\ target' = pidFile
    /\ UNCHANGED <<procVars, flag, reused, left, history>>

\* Mutant: the flag goes to getperfctl's own work directory.
FlagElsewhere == flag

FlagWritten == TRUE

WriteFlag ==
    /\ ctl = "ask"
    /\ flag' = FlagWritten
    /\ ctl' = "wait"
    /\ left' = Timeout
    /\ asked' = target
    /\ stale' = (pc[target] \notin {"loop", "walk"})
    /\ UNCHANGED <<procVars, reused, target, raced, stolen>>

\* Mutant: the count is not looked at.
WaitingForFlag == flag

Waiting == left > 0 /\ flag

\* while ( timeout-- > 0 ) { if the flag is gone break; sleep( 1 ); }
Poll ==
    /\ ctl = "wait"
    /\ left' = left - 1
    /\ ctl' = IF Waiting THEN "wait" ELSE "check"
    /\ UNCHANGED <<procVars, flag, reused, target, history>>

\* if ( timeout == 0 && gpfCheckProcess ) gpfKill: the count is 0 when the flag
\* was found gone at the last poll, and -1 after the time-out.
Killed == IF left = 0 /\ InProc(target) THEN {target} ELSE {}

StopReturns ==
    /\ ctl = "check"
    /\ ctl' = "idle"
    /\ pc' = [p \in Procs |-> IF p \in Killed THEN "gone" ELSE pc[p]]
    /\ reused' = reused \ Killed
    /\ stale' = (stale \/ (asked \in Killed /\ pc[asked] # "gone"))
    /\ UNCHANGED <<pidFile, flag, target, left, asked, raced, stolen>>

-----------------------------------------------------------------------------
Step(p) ==
    \/ CheckService(p) \/ WritePid(p) \/ CatchExit(p) \/ RunExit(p) \/ End(p)

Control == StopService \/ WriteFlag \/ Poll \/ StopReturns

Next ==
    \/ \E p \in Procs :
          \/ StartService(p) \/ Step(p)
          \/ Signal(p) \/ SignalHangs(p) \/ Crash(p) \/ ReusePid(p)
    \/ InterruptStat
    \/ Control

Spec == Init /\ [][Next]_vars

\* A process goes on unless it is stuck, and so does a stop once it has been
\* asked for. Nobody has to start, stop, signal or kill anything.
FairSpec ==
    /\ Spec
    /\ \A p \in Procs : WF_vars(Step(p))
    /\ WF_vars(WriteFlag \/ Poll \/ StopReturns)

-----------------------------------------------------------------------------
(* Properties.                                                              *)

\* One agent runs the scheduler and the pid file names it, unless two starts
\* overlapped between the check and the write of getperf.c:179-190.
OneScheduler ==
    ~raced => \A p \in Procs : pc[p] = "loop" =>
        pidFile = p /\ \A q \in Procs \ {p} : pc[q] \notin {"loop", "walk"}

\* An agent that leaves its loop on the exit flag is the one the flag was
\* written for, unless that one had ended otherwise and left the flag behind
\* for the next (getperf does not remove it when it starts).
RequestStopsTarget ==
    [][\A p \in Procs : pc[p] = "loop" /\ pc'[p] = "walk" /\ flag =>
           p = asked \/ stale \/ raced]_vars

\* Each request to stop is followed by the end of its agent, unless a signal
\* has hung it up, a process that was not asked removes the flag, or one of two
\* running agents does.
StopsInTheEnd ==
    \A p \in Procs : (ctl = "ask" /\ target = p)
                         ~> (pc[p] \in {"stuck", "gone"} \/ stolen \/ raced)

\* What test/getperfctl.c:224 says: after the time-out the agent is stopped by
\* force with kill.
KilledAtTimeout ==
    [][ctl = "check" /\ ctl' = "idle" /\ flag => ~(pc'[target] = "loop")]_vars

=============================================================================
