----------------------------- MODULE Semaphores -----------------------------
(***************************************************************************)
(* The mutexes of the agent (mutexs.c), built of System V semaphores. One  *)
(* set of semaphores exists under a key that all processes started in the  *)
(* same directory share, whichever agent created it, and nothing but       *)
(* IPC_RMID removes it. Every agent creates by force, once for each of its *)
(* mutexes: it removes the set it finds, then makes one. No caller of      *)
(* zbx_mutex_lock looks at its result.                                     *)
(***************************************************************************)
EXTENDS Integers, FiniteSets

CONSTANTS
    Procs,
    Threads,
    Owner,         \* the process of each thread
    None,          \* no set, no thread, no lock
    Rounds,        \* creations by force at a start: task, soap, log
    MaxAttempts    \* ZBX_MAX_ATTEMPTS

Locks == {"task", "log"}

ASSUME SemaphoreAssumption ==
    /\ Owner \in [Threads -> Procs]
    /\ Rounds \in Nat \ {0} /\ MaxAttempts \in Nat \ {0}
    /\ None \notin Threads
    /\ None \notin Procs \X (1 .. Rounds)
    /\ None \notin Locks

VARIABLES
    live,       \* the set that exists under the key
    val,        \* the values of its semaphores
    pc,         \* where each process is
    round,      \* the creations it has begun
    tries,      \* its attempts at the present one
    mine,       \* its ZBX_SEM_LIST_ID
    holds,      \* the mutexes each thread is inside of
    wants,      \* the mutex it waits for
    handler,    \* the thread whose stack the handler of SIGTERM runs on
    stage       \* what the handler does next

setVars == <<live, val>>
procVars == <<pc, round, tries, mine>>
threadVars == <<holds, wants>>
handlerVars == <<handler, stage>>
vars == <<setVars, procVars, threadVars, handlerVars>>

Sets == (Procs \X (1 .. Rounds)) \cup {None}

TypeOK ==
    /\ live \in Sets
    /\ val \in [Locks -> {0, 1}]
    /\ pc \in [Procs -> {"none", "get", "find", "remove", "set", "up", "gone"}]
    /\ round \in [Procs -> 0 .. Rounds]
    /\ tries \in [Procs -> 0 .. MaxAttempts]
    /\ mine \in [Procs -> Sets]
    /\ holds \in [Threads -> SUBSET Locks]
    /\ wants \in [Threads -> Locks \cup {None}]
    /\ handler \in [Procs -> Threads \cup {None}]
    /\ stage \in [Procs -> {"none", "log", "task", "exit"}]

Init ==
    /\ live = None
    /\ val = [l \in Locks |-> 0]
    /\ pc = [p \in Procs |-> "none"]
    /\ round = [p \in Procs |-> 0]
    /\ tries = [p \in Procs |-> 0]
    /\ mine = [p \in Procs |-> None]
    /\ holds = [t \in Threads |-> {}]
    /\ wants = [t \in Threads |-> None]
    /\ handler = [p \in Procs |-> None]
    /\ stage = [p \in Procs |-> "none"]

Goto(p, state) == pc' = [pc EXCEPT ![p] = state]

\* The threads of a process that ends go with it; the set does not.
Vanish(p) ==
    /\ Goto(p, "gone")
    /\ holds' = [t \in Threads |-> IF Owner[t] = p THEN {} ELSE holds[t]]
    /\ wants' = [t \in Threads |-> IF Owner[t] = p THEN None ELSE wants[t]]
    /\ handler' = [handler EXCEPT ![p] = None]
    /\ stage' = [stage EXCEPT ![p] = "none"]

-----------------------------------------------------------------------------
(* zbx_mutex_create_ext with force, before the process has other threads.   *)

Start(p) ==
    /\ pc[p] = "none"
    /\ Goto(p, "get")
    /\ round' = [round EXCEPT ![p] = 1]
    /\ UNCHANGED <<setVars, tries, mine, threadVars, handlerVars>>

\* semget with IPC_CREAT and IPC_EXCL; the values of a new set are 0.
Create(p) ==
    /\ pc[p] = "get"
    /\ live = None
    /\ live' = <<p, round[p]>>
    /\ mine' = [mine EXCEPT ![p] = live']
    /\ val' = [l \in Locks |-> 0]
    /\ Goto(p, "set")
    /\ UNCHANGED <<round, tries, threadVars, handlerVars>>

Exists(p) ==
    /\ pc[p] = "get"
    /\ live # None
    /\ Goto(p, "find")
    /\ UNCHANGED <<setVars, round, tries, mine, threadVars, handlerVars>>

\* Mutant: the set is used as it is, as without force.
Adopt == "set"

Forced == "remove"

\* semget without IPC_CREAT. The set may be gone by now.
Find(p) ==
    /\ pc[p] = "find"
    /\ mine' = [mine EXCEPT ![p] = live]
    /\ Goto(p, Forced)
    /\ UNCHANGED <<setVars, round, tries, threadVars, handlerVars>>

\* Mutant: the attempts are not counted against the limit.
NoLimit(p) == FALSE

TooMany(p) == tries[p] >= MaxAttempts

\* IPC_RMID wakes whoever waits. A set that another process has removed in the
\* meantime, or one attempt too many, and the process exits.
Remove(p) ==
    /\ pc[p] = "remove"
    /\ IF mine[p] # live \/ live = None
       THEN Goto(p, "gone") /\ UNCHANGED <<live, tries, mine>>
       ELSE /\ live' = None
            /\ IF TooMany(p)
               THEN Goto(p, "gone") /\ UNCHANGED tries
               ELSE Goto(p, "get") /\ tries' = [tries EXCEPT ![p] = @ + 1]
            /\ mine' = [mine EXCEPT ![p] = None]
    /\ UNCHANGED <<val, round, threadVars, handlerVars>>

\* The values of a set that the process has made itself.
Initial(p) == IF mine[p] = <<p, round[p]>> THEN [l \in Locks |-> 1] ELSE val

\* SETVAL of every semaphore, then the creation of the next mutex, if any. A
\* set that has been removed is fatal.
SetValues(p) ==
    /\ pc[p] = "set"
    /\ IF mine[p] # live
       THEN Goto(p, "gone") /\ UNCHANGED <<val, round, tries>>
       ELSE /\ val' = Initial(p)
            /\ IF round[p] < Rounds
               THEN Goto(p, "get") /\ round' = [round EXCEPT ![p] = @ + 1]
               ELSE Goto(p, "up") /\ UNCHANGED round
            /\ tries' = [tries EXCEPT ![p] = 0]
    /\ UNCHANGED <<live, mine, threadVars, handlerVars>>

\* A start that finds an agent running ends here, after all this; the end of
\* `getperf -s' and a crash look the same. The set stays as it is.
Vanishes(p) ==
    /\ pc[p] = "up"
    /\ Vanish(p)
    /\ UNCHANGED <<setVars, round, tries, mine>>

-----------------------------------------------------------------------------
(* The threads.                                                             *)

Valid(p) == mine[p] = live

\* A thread whose stack the handler runs on does not go on itself.
Runs(t) == pc[Owner[t]] = "up" /\ handler[Owner[t]] # t

\* Mutant: a section of the log takes another mutex.
AnyOrder(t, l) == l \notin holds[t]

\* The mutex of the log is the innermost one: every message takes it, and
\* inside its section nothing else is taken.
InOrder(t, l) == IF l = "log" THEN "log" \notin holds[t] ELSE holds[t] = {}

Want(t, l) ==
    /\ Runs(t)
    /\ wants[t] = None
    /\ InOrder(t, l)
    /\ wants' = [wants EXCEPT ![t] = l]
    /\ UNCHANGED <<setVars, procVars, holds, handlerVars>>

\* Mutant: semop with IPC_NOWAIT.
NoWait(p, l) == TRUE

\* semop by -1 waits for the value 1; without its set it fails at once, and the
\* caller goes on as if it had the mutex.
Passes(p, l) == ~Valid(p) \/ val[l] = 1

Taken(p, l) == IF Valid(p) THEN [val EXCEPT ![l] = 0] ELSE val
Given(p, l) == IF Valid(p) THEN [val EXCEPT ![l] = @ + 1] ELSE val

Enter(t) ==
    /\ Runs(t)
    /\ wants[t] # None
    /\ Passes(Owner[t], wants[t])
    /\ val' = Taken(Owner[t], wants[t])
    /\ holds' = [holds EXCEPT ![t] = @ \cup {wants[t]}]
    /\ wants' = [wants EXCEPT ![t] = None]
    /\ UNCHANGED <<live, procVars, handlerVars>>

\* zbx_mutex_unlock of the innermost mutex.
Leave(t, l) ==
    /\ Runs(t)
    /\ wants[t] = None
    /\ l \in holds[t] /\ (l = "task" => holds[t] = {"task"})
    /\ val' = Given(Owner[t], l)
    /\ holds' = [holds EXCEPT ![t] = @ \ {l}]
    /\ UNCHANGED <<live, procVars, wants, handlerVars>>

-----------------------------------------------------------------------------
(* The end of a process.                                                    *)

\* SIGTERM interrupts any thread, wherever it is; it also ends its wait, but
\* the handler never returns to it. The exit flag comes to the same: the
\* scheduler thread runs gpfStopProcess outside of any mutex.
Signal(p, t) ==
    /\ pc[p] = "up" /\ Owner[t] = p
    /\ handler[p] = None
    /\ handler' = [handler EXCEPT ![p] = t]
    /\ stage' = [stage EXCEPT ![p] = "log"]
    /\ wants' = [wants EXCEPT ![t] = None]
    /\ UNCHANGED <<setVars, procVars, holds>>

\* Mutant: the reap is called with its mutex taken.
TakenTwice(p) == ~Valid(p)

HandlerPasses(p) == Passes(p, stage[p])

\* gpfWarn and gpfNotice first, then gpfReapTimeoutWorkers if there are tasks.
\* Each takes its mutex and returns it, which is one step here.
HandlerLock(p) ==
    /\ pc[p] = "up"
    /\ stage[p] \in Locks
    /\ HandlerPasses(p)
    /\ \/ stage[p] = "log" /\ stage' = [stage EXCEPT ![p] = "task"]
       \/ stage' = [stage EXCEPT ![p] = "exit"]
    /\ UNCHANGED <<setVars, procVars, threadVars, handler>>

\* zbx_mutex_destroy and exit.
HandlerExit(p) ==
    /\ pc[p] = "up"
    /\ stage[p] = "exit"
    /\ live' = IF Valid(p) THEN None ELSE live
    /\ Vanish(p)
    /\ UNCHANGED <<val, round, tries, mine>>

-----------------------------------------------------------------------------
CreateStep(p) ==
    Start(p) \/ Create(p) \/ Exists(p) \/ Find(p) \/ Remove(p) \/ SetValues(p)

ThreadStep(t) ==
    (\E l \in Locks : Want(t, l) \/ Leave(t, l)) \/ Enter(t)

Next ==
    \/ \E p \in Procs :
          \/ CreateStep(p) \/ Vanishes(p) \/ HandlerLock(p) \/ HandlerExit(p)
          \/ \E t \in Threads : Signal(p, t)
    \/ \E t \in Threads : ThreadStep(t)

Spec == Init /\ [][Next]_vars

\* What threads do inside a mutex is finite, and the kernel serves the waiters of
\* a semaphore in the order they came, so that none waits for ever while the
\* mutex is freed again and again.
FairSpec ==
    /\ Spec
    /\ \A t \in Threads :
          SF_vars(Enter(t)) /\ SF_vars(Leave(t, "task")) /\ WF_vars(Leave(t, "log"))
    /\ \A p \in Procs : SF_vars(HandlerLock(p)) /\ WF_vars(HandlerExit(p))

-----------------------------------------------------------------------------
(* Properties.                                                              *)

\* While its set exists no two threads of an agent are inside a mutex, whatever
\* other agents, started and ended in between, have done to the key.
Exclusive ==
    \A p \in Procs : pc[p] = "up" /\ Valid(p) =>
        \A t, u \in Threads : t # u /\ Owner[t] = p /\ Owner[u] = p =>
            holds[t] \cap holds[u] = {}

Blocks(u, t) == u # t /\ Owner[u] = Owner[t] /\ wants[t] \in holds[u]

GoesOn(t) == Runs(t) /\ (wants[t] = None \/ Passes(Owner[t], wants[t]))

\* As long as no handler runs in it, an agent is never stuck: behind a thread
\* that waits for a mutex is another one, or one behind that, which is inside the
\* mutex and can go on. A mutex that a dead agent left taken, or one that is taken
\* with nobody inside, would leave a waiter without one, and taking mutexes in
\* another order would close a circle.
NeverStuck ==
    \A t \in Threads : wants[t] # None /\ handler[Owner[t]] = None =>
        \/ GoesOn(t)
        \/ \E u \in Threads : /\ Blocks(u, t)
                              /\ GoesOn(u) \/ \E v \in Threads : Blocks(v, u) /\ GoesOn(v)

\* Whoever waits for a mutex gets in, even if an earlier agent died inside it,
\* until the agent is told to stop.
WaitersEnter ==
    \A t \in Threads : (wants[t] # None) ~> (wants[t] = None \/ handler[Owner[t]] # None)

\* An agent that is told to stop ends, unless the handler runs on the stack of
\* a thread that is inside a mutex and waits for itself (gpf_process.c:575).
StopEnds ==
    \A t \in Threads :
        (handler[Owner[t]] = t /\ holds[t] = {}) ~> (pc[Owner[t]] = "gone")

=============================================================================
