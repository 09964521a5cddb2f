------------------------------ MODULE Scheduler ------------------------------
(***************************************************************************)
(* The timer of the getperf agent's scheduler (gpf_agent.c): every poll    *)
(* makes the collectors that are due WAIT and names the output directory   *)
(* of their next run, checks whether the agent may run at all, and spawns  *)
(* what WAITs. When the check fails the collectors stay in WAIT, their     *)
(* next time already moved on, until a poll finds any collector due.       *)
(*                                                                         *)
(* The wall clock may be set back and the local time may shift: an output  *)
(* directory is the start of the interval in LOCAL time. A disabled        *)
(* collector is one with interval 0. What the checks look at (HA service,  *)
(* license, free space) is a choice; the time they take is the clock's.    *)
(***************************************************************************)
EXTENDS Integers

CONSTANTS
    Collectors,
    Interval,  \* Interval[c]: STAT_INTERVAL of c, 0 if it is not to run
    Poller,    \* GPF_POLLER_INTERVAL
    Offsets,   \* the distances of local time from UTC
    Restarts,  \* TRUE: the agent may be stopped and started again
    MaxTime,   \* bound on the clock
    MaxBack    \* bound on the time the clock is set back by, all in all

ASSUME SchedulerAssumption ==
    /\ Interval \in [Collectors -> Nat]
    /\ Poller \in Nat \ {0}
    /\ Offsets \subseteq Int /\ Offsets # {}
    /\ Restarts \in BOOLEAN
    /\ {MaxTime, MaxBack} \subseteq Nat

VARIABLES
    now,        \* what time() returns
    offset,     \* what localtime() adds to it
    back,       \* how far the clock has been set back so far
    pc,         \* where the scheduler is in its loop
    current,    \* the currentTime of the latest poll
    checkTime,  \* when it polls next
    nextTimestamp, status, dir,  \* of each collector; dir stands for odir
    held,       \* collectors that WAIT since a check that failed
    fresh,      \* collectors not run since the agent was started
    took,       \* the time that the latest poll has taken so far (history)
    last,       \* the directory of each collector's latest run (history)
    ran,        \* when it was spawned, on a clock that nobody sets back (history)
    before      \* and the run before it (history)

clockVars == <<now, offset, back>>
timerVars == <<current, checkTime, nextTimestamp, status, dir>>
runVars == <<fresh, last, ran, before>>
vars == <<now, offset, back, pc, current, checkTime, nextTimestamp, status, dir,
          held, took, fresh, last, ran, before>>

NoDir == [slot |-> -1, offset |-> 0]
Dirs == [slot : Nat, offset : Offsets]
Waiting(c) == status[c] = "WAIT"

\* The time that has passed, whatever the clock was set back to.
Elapsed == now + back

\* Type invariant; a collector that has been due has a directory.
TypeOK ==
    /\ now \in Nat /\ back \in Nat /\ offset \in Offsets
    /\ pc \in {"loop", "check", "spawn"}
    /\ current \in Nat /\ checkTime \in Nat
    /\ nextTimestamp \in [Collectors -> Nat]
    /\ status \in [Collectors -> {"INIT", "WAIT", "RUN"}]
    /\ dir \in [Collectors -> Dirs \cup {NoDir}]
    /\ \A c \in Collectors : status[c] # "INIT" => dir[c] \in Dirs
    /\ held \subseteq Collectors /\ fresh \subseteq Collectors
    /\ took \in Nat
    /\ last \in [Collectors -> Dirs \cup {NoDir}]
    /\ ran \in [Collectors -> Int] /\ before \in [Collectors -> Int]

\* No run yet: as good as one that was over long ago.
LongAgo == [c \in Collectors |-> -Interval[c]]

Init ==
    /\ now \in 0..MaxTime /\ offset \in Offsets /\ back = 0
    /\ pc = "loop" /\ current = 0 /\ checkTime = now
    /\ nextTimestamp = [c \in Collectors |-> 0]
    /\ status = [c \in Collectors |-> "INIT"]
    /\ dir = [c \in Collectors |-> NoDir]
    /\ held = {} /\ fresh = Collectors /\ took = 0
    /\ last = [c \in Collectors |-> NoDir]
    /\ ran = LongAgo /\ before = LongAgo

-----------------------------------------------------------------------------
(* The clock of the machine.                                                *)

ClockForward ==
    /\ now < MaxTime
    /\ now' = now + 1
    /\ took' = IF pc = "loop" THEN took ELSE took + 1
    /\ UNCHANGED <<offset, back, pc, held, timerVars, runVars>>

ClockBack(d) ==
    /\ d <= now /\ back + d <= MaxBack
    /\ now' = now - d /\ back' = back + d
    /\ UNCHANGED <<offset, pc, held, took, timerVars, runVars>>

ZoneShifts(z) ==
    /\ z # offset
    /\ offset' = z
    /\ UNCHANGED <<now, back, pc, held, took, timerVars, runVars>>

-----------------------------------------------------------------------------
(* The loop of gpfRunScheduler.                                             *)

\* Mutants: no look at nextTimestamp; a second early; aligned, one too far.
DueAlways(c) == Interval[c] > 0
DueEarly(c) == Interval[c] > 0 /\ nextTimestamp[c] <= now + 1

\* gpfCheckTimer: is the collector due at this poll?
Due(c) == Interval[c] > 0 /\ nextTimestamp[c] <= now

\* The start of the interval of c that time t is in.
Slot(c, t) == Interval[c] * (t \div Interval[c])

NextTimeAligned(c, t) == Slot(c, t) + 2 * Interval[c]
NextTime(c, t) == t + Interval[c]

\* gpfGetTimeString: the name of an output directory is a local time.
Name(d) == d.slot + d.offset

\* Mutants: odir is not replaced while it waits; not set at all.
NewDirKept(c) ==
    IF Waiting(c) THEN dir[c] ELSE [slot |-> Slot(c, now), offset |-> offset]
NewDirForgotten(c) == dir[c]

NewDir(c) == [slot |-> Slot(c, now), offset |-> offset]

\* A poll. The timer moves every collector that is due.
Poll ==
    /\ pc = "loop" /\ checkTime <= now
    /\ current' = now
    /\ checkTime' = now + Poller
    /\ pc' = IF \E c \in Collectors : Due(c) THEN "check" ELSE "loop"
    /\ status' = [c \in Collectors |-> IF Due(c) THEN "WAIT" ELSE status[c]]
    /\ nextTimestamp' = [c \in Collectors |->
                            IF Due(c) THEN NextTime(c, now) ELSE nextTimestamp[c]]
    /\ dir' = [c \in Collectors |-> IF Due(c) THEN NewDir(c) ELSE dir[c]]
    /\ held' = {c \in held : ~Due(c)}
    /\ took' = 0
    /\ UNCHANGED <<clockVars, runVars>>

\* gpfPrepareCollector refuses: goto exitLoop, and whoever WAITs goes on waiting.
CheckFails ==
    /\ pc = "check"
    /\ pc' = "loop"
    /\ held' = {c \in Collectors : Waiting(c)}
    /\ UNCHANGED <<took, clockVars, timerVars, runVars>>

\* HA service, license (downloaded again if it has to be) and disk are fine.
CheckPasses ==
    /\ pc = "check"
    /\ pc' = "spawn"
    /\ UNCHANGED <<held, took, clockVars, timerVars, runVars>>

\* The run gets a copy of odir (gpfCreateTask).
Spawn(c) ==
    /\ pc = "spawn" /\ Waiting(c)
    /\ status' = [status EXCEPT ![c] = "RUN"]
    /\ last' = [last EXCEPT ![c] = dir[c]]
    /\ ran' = [ran EXCEPT ![c] = Elapsed]
    /\ before' = [before EXCEPT ![c] = ran[c]]
    /\ held' = held \ {c}
    /\ fresh' = fresh \ {c}
    /\ UNCHANGED <<took, clockVars, pc, current, checkTime, nextTimestamp, dir>>

\* The license is looked at once more, ahead of its end, and the loop goes on.
AllSpawned ==
    /\ pc = "spawn" /\ \A c \in Collectors : ~Waiting(c)
    /\ pc' = "loop"
    /\ UNCHANGED <<held, took, clockVars, timerVars, runVars>>

\* A new agent process: the timer starts from nothing.
Restart ==
    /\ Restarts
    /\ pc' = "loop" /\ current' = 0 /\ checkTime' = now
    /\ nextTimestamp' = [c \in Collectors |-> 0]
    /\ status' = [c \in Collectors |-> "INIT"]
    /\ dir' = [c \in Collectors |-> NoDir]
    /\ held' = {} /\ fresh' = Collectors /\ took' = 0
    /\ ran' = LongAgo /\ before' = LongAgo
    /\ UNCHANGED <<clockVars, last>>

Next ==
    \/ ClockForward
    \/ \E d \in 1..MaxBack : ClockBack(d)
    \/ \E z \in Offsets : ZoneShifts(z)
    \/ Poll
    \/ CheckFails
    \/ CheckPasses
    \/ \E c \in Collectors : Spawn(c)
    \/ AllSpawned
    \/ Restart

Spec == Init /\ [][Next]_vars

-----------------------------------------------------------------------------
(* Properties.                                                              *)

Spawned(c) == status[c] = "WAIT" /\ status'[c] = "RUN"

\* Whatever the clock does, a run gets an output directory, and so an archive,
\* whose name comes after that of the collector's previous run, unless the
\* agent was restarted or local time was set back in between.
DirectoriesAscend ==
    [][\A c \in Collectors : Spawned(c) =>
        \/ c \in fresh
        \/ dir[c].offset < last[c].offset
        \/ Name(last[c]) < Name(dir[c])]_vars

\* A slow check brings a run close to the one that follows: both may be spawned
\* at the same moment. Yet no run is made up for: of three successive runs of a
\* collector the last is spawned an interval after the first, or later, unless
\* the agent was restarted. This holds of held runs too.
NoBurst ==
    [][\A c \in Collectors : Spawned(c) => before[c] + Interval[c] <= Elapsed]_vars

\* A run is spawned before the interval is over that its directory is named
\* after, or, held by a failed check, the interval that follows, but for the
\* time that the scheduler has spent on its checks since the poll.
RunInItsSlot ==
    \A c \in Collectors : pc = "spawn" /\ Waiting(c) =>
        now < dir[c].slot + (IF c \in held THEN 2 ELSE 1) * Interval[c] + took

\* A clock that is set back puts off the polls, and a collector's next run, by
\* as much as it was set back and no more.
DueWithin ==
    /\ checkTime <= now + Poller + back
    /\ \A c \in Collectors : nextTimestamp[c] <= now + Interval[c] + back
=============================================================================
