------------------------------ MODULE AgentStop ------------------------------
(***************************************************************************)
(* The stop of the agent (gpf_process.c, gpf_agent.c) against the threads  *)
(* of Collector. The scheduler thread finds the exit file, or the handler  *)
(* of SIGTERM interrupts it; either way it leaves its loop for gpfRunExit, *)
(* which walks through collectorPids without the mutex, kills the commands *)
(* it finds, and ends the process under the other threads. The commands    *)
(* are processes of their own: those it missed go on.                      *)
(***************************************************************************)
EXTENDS Collector

VARIABLES
    stop,    \* "no", then where gpfRunExit is
    at,      \* the task its iterator points to, if any
    seen,    \* the tasks it has visited
    met,     \* the workers that were in the tables it visited
    late,    \* late[w]: commands that w has forked since the visit
    broken   \* the iterator led into freed memory

stopVars == <<stop, at, seen, met, late, broken>>
allVars == <<vars, stopVars>>

StopInit ==
    /\ Init
    /\ stop = "no"
    /\ at = {}
    /\ seen = {}
    /\ met = {}
    /\ late = [w \in Workers |-> 0]
    /\ broken = FALSE

-----------------------------------------------------------------------------
\* gpfStopProcess, from the loop of the scheduler or from its handler, which
\* may cut in between the creation of a thread and the listing of its task.
BeginStop ==
    /\ stop = "no"
    /\ stop' = "walk"
    /\ UNCHANGED <<vars, at, seen, met, late, broken>>

\* ght_first and ght_next. The entry the iterator stands on may be gone, and
\* then it may lead anywhere, even to the end of the process.
NextTask ==
    /\ stop = "walk"
    /\ broken' = (broken \/ ~(at \subseteq listed))
    /\ \/ \E t \in listed \ seen : at' = {t} /\ stop' = "visit"
       \/ /\ listed \subseteq seen \/ broken'
          /\ at' = {} /\ stop' = "exited"
    /\ UNCHANGED <<vars, seen, met, late>>

\* Mutants: the mode stays; the commands are left alone.
ModeKept(t) == running
KillNone == FALSE

EndMode(t) == [running EXCEPT ![t] = FALSE]
KillAll == TRUE

\* The task gets the mode END and its commands are killed; it may have been
\* freed since the iterator came to it.
VisitTask ==
    /\ stop = "visit"
    /\ \E t \in at :
          /\ IF phase[t] = "freed"
             THEN broken' = TRUE /\ UNCHANGED <<vars, met>>
             ELSE /\ running' = EndMode(t)
                  /\ Reap(t, KillAll)
                  /\ met' = met \cup (Of(t) \cap tracked)
                  /\ UNCHANGED <<phase, next, clock, pending, listed, broken>>
          /\ seen' = seen \cup {t}
    /\ stop' = "walk"
    /\ UNCHANGED <<at, late>>

\* Until the process ends its other threads go on.
ThreadStep ==
    /\ stop # "exited"
    /\ \/ stop = "no" /\ (SchedulerStep \/ \E w \in Workers : SchedulerWait(w))
       \/ \E t \in Tasks : CollectorStep(t) \/ Tick(t)
       \/ \E w \in Workers : WorkerStep(w)
    /\ late' = [w \in Workers |->
                   late[w] + IF w[1] \in seen /\ thread[w] = "fork" /\ thread'[w] # "fork"
                                  /\ child'[w] = "running"
                             THEN 1 ELSE 0]
    /\ UNCHANGED <<stop, at, seen, met, broken>>

CommandStep == (\E w \in Workers : CommandExits(w)) /\ UNCHANGED stopVars

StopNext == BeginStop \/ NextTask \/ VisitTask \/ ThreadStep \/ CommandStep

StopSpec == StopInit /\ [][StopNext]_allVars

-----------------------------------------------------------------------------
(* Properties.                                                              *)

\* A command that is left running when the agent has stopped is one of a
\* worker that a reap had declared finished, one that was started without a
\* wait, one that was forked after the visit to its task, or one of a worker
\* that was in no table when the walk came by, or whose task was in none: the
\* stop kills every other one, whatever the threads do meanwhile, unless a
\* collector removed the entry the walk stood on.
OrphansExplained ==
    stop = "exited" /\ ~broken =>
        \A w \in Workers : child[w] = "running" =>
            \/ w \in marked \/ ended[w] \/ late[w] > 0
            \/ w \notin met /\ (w[1] \in seen \cup pending \/ phase[w[1]] = "freed")

\* After the visit to its task a repeating worker starts no more than the one
\* command it was about to start, unless it had been given up before or was in
\* no table: a collector thread that begins after the visit sets the mode back,
\* but none of its workers can have been in one.
VisitStopsCycles ==
    \A w \in Workers : late[w] > 1 => w \in marked \/ w \notin met

=============================================================================
