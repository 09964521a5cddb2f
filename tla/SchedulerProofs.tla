--------------------------- MODULE SchedulerProofs ---------------------------
(***************************************************************************)
(* Proofs about the agent's timer, for any collectors and intervals and    *)
(* for a clock that moves at will: the directories of a collector's runs   *)
(* ascend, no run is made up for, a run is late by the scheduler's checks  *)
(* and, held, by an interval at most, and a clock that is set back delays  *)
(* polls by no more than that.                                             *)
(***************************************************************************)
EXTENDS Scheduler, TLAPS

USE SchedulerAssumption

\* Integer division: t lies in the multiple of i that t \div i names.
LEMMA DivBounds ==
    ASSUME NEW t \in Nat, NEW i \in Nat, i > 0
    PROVE  /\ i * (t \div i) \in Nat
           /\ i * (t \div i) <= t
           /\ t < i * (t \div i) + i
<1>1. t \div i \in Nat
  <2>1. t \div i \in Int /\ t \div i >= 0
    OBVIOUS
  <2>2. QED
    BY <2>1
<1>2. i * (t \div i) <= t
  BY SMTT(30)
<1>3. t < i * (t \div i) + i
  BY SMTT(30)
<1>4. i * (t \div i) \in Nat
  BY <1>1
<1>5. QED
  BY <1>2, <1>3, <1>4

\* A collector's time lies in the interval that starts at its slot.
LEMMA SlotBounds ==
    ASSUME NEW c \in Collectors, NEW t \in Nat, Interval[c] > 0
    PROVE  /\ Slot(c, t) \in Nat
           /\ Slot(c, t) <= t
           /\ t < Slot(c, t) + Interval[c]
<1>1. Interval[c] \in Nat
  OBVIOUS
<1>2. QED
  BY <1>1, DivBounds DEF Slot

\* What is known of one collector: the next run is an interval away from where
\* the latest directory starts, and once it is due, from the run before the
\* latest one; a collector WAITs between polls only if a check has failed; and
\* the clock is as far ahead of the poll as the checks have taken at most.
Kept(c) ==
    /\ status[c] # "INIT" => dir[c].slot + Interval[c] <= nextTimestamp[c]
    /\ c \notin fresh =>
           last[c] \in Dirs /\ last[c].slot + Interval[c] <= nextTimestamp[c]
    /\ c \notin fresh /\ Waiting(c) => last[c].slot < dir[c].slot
    /\ ran[c] <= Elapsed
    /\ Waiting(c) => /\ ran[c] + Interval[c] <= nextTimestamp[c] + back
                     /\ before[c] + Interval[c] <= Elapsed
    /\ ~Waiting(c) => before[c] + Interval[c] <= nextTimestamp[c] + back
    /\ Waiting(c) => nextTimestamp[c] < dir[c].slot + 2 * Interval[c]
    /\ Waiting(c) /\ pc = "loop" => c \in held
    /\ Waiting(c) /\ pc # "loop" /\ c \in held => current < nextTimestamp[c]
    /\ Waiting(c) /\ pc # "loop" /\ c \notin held =>
           nextTimestamp[c] = current + Interval[c]
    /\ pc # "loop" => now <= current + took

IInv == TypeOK /\ \A c \in Collectors : Kept(c)

-----------------------------------------------------------------------------
(* Type correctness.                                                        *)

\* A directory named at a poll is one.
LEMMA NewDirType ==
    ASSUME TypeOK, NEW c \in Collectors, Due(c)
    PROVE  NewDir(c) \in Dirs
<1>1. now \in Nat /\ Interval[c] > 0 /\ offset \in Offsets
  BY DEF TypeOK, Due
<1>2. Slot(c, now) \in Nat
  BY <1>1, SlotBounds
<1>3. QED
  BY <1>1, <1>2 DEF NewDir, Dirs

\* The timer's state starts well-typed.
LEMMA TypeInit == ASSUME Init PROVE TypeOK
BY DEF Init, TypeOK, LongAgo

\* Every step keeps it well-typed.
LEMMA TypeStep == ASSUME TypeOK, [Next]_vars PROVE TypeOK'
<1>1. CASE ClockForward
  BY <1>1 DEF ClockForward, timerVars, runVars, TypeOK
<1>2. ASSUME NEW d \in 1..MaxBack, ClockBack(d) PROVE TypeOK'
  BY <1>2 DEF ClockBack, timerVars, runVars, TypeOK
<1>3. ASSUME NEW z \in Offsets, ZoneShifts(z) PROVE TypeOK'
  BY <1>3 DEF ZoneShifts, timerVars, runVars, TypeOK
<1>4. CASE Poll
  <2>1. \A c \in Collectors : NextTime(c, now) \in Nat
    BY DEF NextTime, TypeOK
  <2>2. dir' \in [Collectors -> Dirs \cup {NoDir}]
    BY <1>4, NewDirType DEF Poll, TypeOK
  <2>3. \A c \in Collectors : status'[c] # "INIT" => dir'[c] \in Dirs
    BY <1>4, NewDirType DEF Poll, TypeOK
  <2>4. nextTimestamp' \in [Collectors -> Nat]
    BY <1>4, <2>1 DEF Poll, TypeOK
  <2>5. status' \in [Collectors -> {"INIT", "WAIT", "RUN"}]
    BY <1>4 DEF Poll, TypeOK
  <2>6. pc' \in {"loop", "check", "spawn"} /\ held' \subseteq Collectors
    BY <1>4 DEF Poll, TypeOK
  <2>7. current' \in Nat /\ checkTime' \in Nat
    BY <1>4 DEF Poll, TypeOK
  <2>8. QED
    BY <1>4, <2>2, <2>3, <2>4, <2>5, <2>6, <2>7 DEF Poll, clockVars, runVars, TypeOK
<1>5. CASE CheckFails
  BY <1>5 DEF CheckFails, clockVars, timerVars, runVars, TypeOK
<1>6. CASE CheckPasses
  BY <1>6 DEF CheckPasses, clockVars, timerVars, runVars, TypeOK
<1>7. ASSUME NEW c \in Collectors, Spawn(c) PROVE TypeOK'
  <2>1. dir[c] \in Dirs
    BY <1>7 DEF Spawn, Waiting, TypeOK
  <2>2. status' \in [Collectors -> {"INIT", "WAIT", "RUN"}]
    BY <1>7 DEF Spawn, TypeOK
  <2>3. last' \in [Collectors -> Dirs \cup {NoDir}]
    BY <1>7, <2>1 DEF Spawn, TypeOK
  <2>4. \A b \in Collectors : status'[b] # "INIT" => dir'[b] \in Dirs
    BY <1>7, <2>1 DEF Spawn, TypeOK
  <2>5. ran' \in [Collectors -> Int] /\ before' \in [Collectors -> Int]
    BY <1>7 DEF Spawn, Elapsed, TypeOK
  <2>6. QED
    BY <1>7, <2>2, <2>3, <2>4, <2>5 DEF Spawn, clockVars, TypeOK
<1>8. CASE AllSpawned
  BY <1>8 DEF AllSpawned, clockVars, timerVars, runVars, TypeOK
<1>9. CASE Restart
  BY <1>9 DEF Restart, clockVars, LongAgo, TypeOK
<1>10. CASE UNCHANGED vars
  BY <1>10 DEF vars, TypeOK
<1>11. QED
  BY <1>1, <1>2, <1>3, <1>4, <1>5, <1>6, <1>7, <1>8, <1>9, <1>10 DEF Next

\* The timer's state stays well-typed for any collectors, intervals and clocks.
THEOREM SchedulerTypeCorrect == Spec => []TypeOK
BY TypeInit, TypeStep, PTL DEF Spec

-----------------------------------------------------------------------------
(* The inductive invariant.                                                 *)

\* Times and directories are numbers.
LEMMA Numbers ==
    ASSUME TypeOK, NEW c \in Collectors
    PROVE  /\ Interval[c] \in Nat /\ now \in Nat /\ current \in Nat
           /\ back \in Nat /\ took \in Nat
           /\ nextTimestamp[c] \in Nat /\ ran[c] \in Int /\ before[c] \in Int
           /\ dir[c].slot \in Int /\ last[c].slot \in Int
           /\ dir[c] \in Dirs => dir[c].offset \in Int
           /\ last[c] \in Dirs => last[c].offset \in Int
<1>1. dir[c] \in Dirs \cup {NoDir} /\ last[c] \in Dirs \cup {NoDir}
  BY DEF TypeOK
<1>2. ASSUME NEW d \in Dirs PROVE d.slot \in Int /\ d.offset \in Int
  <2>1. d.slot \in Nat /\ d.offset \in Offsets
    BY DEF Dirs
  <2>2. Offsets \subseteq Int
    BY SchedulerAssumption
  <2>3. d.slot \in Int
    BY <2>1
  <2>4. d.offset \in Int
    BY <2>1, <2>2, Zenon
  <2>5. QED
    BY <2>3, <2>4
<1>3. NoDir.slot \in Int
  BY DEF NoDir
<1>4. /\ Interval[c] \in Nat /\ now \in Nat /\ current \in Nat
      /\ back \in Nat /\ took \in Nat
      /\ nextTimestamp[c] \in Nat /\ ran[c] \in Int /\ before[c] \in Int
  BY DEF TypeOK
<1>5. QED
  BY <1>1, <1>2, <1>3, <1>4

\* A poll finds a collector due only an interval after its latest run, and so
\* names a later directory.
LEMMA PollKeeps ==
    ASSUME TypeOK, NEW c \in Collectors, Kept(c), Poll
    PROVE  Kept(c)'
<1> USE Numbers
<1>1. /\ current' = now /\ fresh' = fresh /\ last' = last /\ ran' = ran /\ before' = before
      /\ now' = now /\ back' = back /\ took' = 0
  BY DEF Poll, runVars, clockVars
<1>2. pc = "loop"
  BY DEF Poll
<1>3. CASE Due(c)
  <2>1. status'[c] = "WAIT" /\ nextTimestamp'[c] = now + Interval[c] /\ c \notin held'
    BY <1>3 DEF Poll, NextTime
  <2>2. dir'[c].slot = Slot(c, now)
    BY <1>3 DEF Poll, NewDir
  <2>3. Slot(c, now) \in Nat /\ Slot(c, now) <= now /\ now < Slot(c, now) + Interval[c]
    BY <1>3, SlotBounds DEF Due
  <2>4. nextTimestamp[c] <= now
    BY <1>3 DEF Due
  <2>5. c \notin fresh =>
            last[c] \in Dirs /\ last[c].slot + Interval[c] <= nextTimestamp'[c]
    BY <2>1, <2>4 DEF Kept
  <2>6. c \notin fresh => last[c].slot < dir'[c].slot
    BY <2>2, <2>3, <2>4 DEF Kept
  <2>7. /\ ran'[c] <= Elapsed'
        /\ ran'[c] + Interval[c] <= nextTimestamp'[c] + back'
        /\ before'[c] + Interval[c] <= Elapsed'
    BY <1>1, <2>1, <2>4 DEF Kept, Elapsed
  <2>8. nextTimestamp'[c] < dir'[c].slot + 2 * Interval[c]
    BY <2>1, <2>2, <2>3
  <2>9. dir'[c].slot + Interval[c] <= nextTimestamp'[c]
    BY <2>1, <2>2, <2>3
  <2>10. /\ pc' = "check" /\ Waiting(c)' /\ c \notin held'
         /\ nextTimestamp'[c] = current' + Interval[c]
    BY <1>1, <1>3, <2>1 DEF Poll, Waiting
  <2>11. QED
    BY <1>1, <2>5, <2>6, <2>7, <2>8, <2>9, <2>10 DEF Kept
<1>4. CASE ~Due(c)
  <2>1. status'[c] = status[c] /\ dir'[c] = dir[c] /\ nextTimestamp'[c] = nextTimestamp[c]
    BY <1>4 DEF Poll, TypeOK
  <2>2. Waiting(c) => c \in held'
    BY <1>2, <1>4 DEF Poll, Kept
  <2>3. pc' # "loop" /\ Waiting(c) => now < nextTimestamp[c]
    <3>1. Waiting(c) => Interval[c] > 0
      BY DEF Kept, Waiting
    <3>2. QED
      BY <1>4, <3>1 DEF Due
  <2>4. QED
    BY <1>1, <2>1, <2>2, <2>3 DEF Kept, Waiting, Elapsed
<1>5. QED
  BY <1>3, <1>4

\* A run starts: its directory is the one the timer went on from, and the run
\* before it started when the next one was not yet due.
LEMMA SpawnKeeps ==
    ASSUME TypeOK, NEW c \in Collectors, Kept(c), NEW b \in Collectors, Spawn(b)
    PROVE  Kept(c)'
<1> USE Numbers
<1>1. /\ pc' = pc /\ current' = current /\ took' = took
      /\ nextTimestamp' = nextTimestamp /\ dir' = dir
      /\ now' = now /\ back' = back /\ Elapsed' = Elapsed
  BY DEF Spawn, clockVars, Elapsed
<1>2. CASE b = c
  <2>1. /\ status'[c] = "RUN" /\ last'[c] = dir[c]
        /\ ran'[c] = Elapsed /\ before'[c] = ran[c]
    BY <1>2 DEF Spawn, TypeOK
  <2>2. Waiting(c) /\ pc # "loop" /\ dir[c] \in Dirs
    BY <1>2 DEF Spawn, Waiting, TypeOK
  <2>3. before'[c] + Interval[c] <= nextTimestamp'[c] + back'
    BY <1>1, <2>1, <2>2 DEF Kept
  <2>4. ran'[c] <= Elapsed'
    BY <1>1, <2>1 DEF Elapsed
  <2>5. dir[c].slot + Interval[c] <= nextTimestamp[c]
    BY <2>2 DEF Kept, Waiting
  <2>6. QED
    BY <1>1, <2>1, <2>2, <2>3, <2>4, <2>5 DEF Kept, Waiting
<1>3. CASE b # c
  <2>1. /\ status'[c] = status[c] /\ last'[c] = last[c]
        /\ ran'[c] = ran[c] /\ before'[c] = before[c]
    BY <1>3 DEF Spawn, TypeOK
  <2>2. (c \in held' <=> c \in held) /\ (c \in fresh' <=> c \in fresh)
    BY <1>3 DEF Spawn
  <2>3. QED
    BY <1>1, <2>1, <2>2 DEF Kept, Waiting
<1>4. QED
  BY <1>2, <1>3

\* The invariant holds at the start.
LEMMA InvInit == ASSUME Init PROVE IInv
<1>1. TypeOK
  BY TypeInit
<1>2. ASSUME NEW c \in Collectors PROVE Kept(c)
  BY <1>1, Numbers DEF Init, Kept, Waiting, LongAgo, Elapsed
<1> QED
  BY <1>1, <1>2 DEF IInv

\* Every step keeps it.
LEMMA InvStep == ASSUME IInv, [Next]_vars PROVE IInv'
<1> USE DEF IInv
<1>1. TypeOK'
  BY TypeStep
<1>2. SUFFICES ASSUME NEW c \in Collectors PROVE Kept(c)'
  BY <1>1
<1>3. Kept(c)
  OBVIOUS
<1>4. CASE ClockForward
  BY <1>3, <1>4, Numbers DEF ClockForward, timerVars, runVars, Kept, Waiting, Elapsed
<1>5. ASSUME NEW d \in 1..MaxBack, ClockBack(d) PROVE Kept(c)'
  BY <1>3, <1>5, Numbers DEF ClockBack, timerVars, runVars, Kept, Waiting, Elapsed
<1>6. ASSUME NEW z \in Offsets, ZoneShifts(z) PROVE Kept(c)'
  BY <1>3, <1>6, Numbers DEF ZoneShifts, timerVars, runVars, Kept, Waiting, Elapsed
<1>7. CASE Poll
  BY <1>3, <1>7, PollKeeps
<1>8. CASE CheckFails
  BY <1>3, <1>8 DEF CheckFails, clockVars, timerVars, runVars, Kept, Waiting,
                     Elapsed
<1>9. CASE CheckPasses
  BY <1>3, <1>9 DEF CheckPasses, clockVars, timerVars, runVars, Kept, Waiting,
                     Elapsed
<1>10. ASSUME NEW b \in Collectors, Spawn(b) PROVE Kept(c)'
  BY <1>3, <1>10, SpawnKeeps
<1>11. CASE AllSpawned
  BY <1>3, <1>11 DEF AllSpawned, clockVars, timerVars, runVars, Kept, Waiting,
                     Elapsed
<1>12. CASE Restart
  BY <1>1, <1>12, Numbers DEF Restart, clockVars, Kept, Waiting, LongAgo, Elapsed, TypeOK
<1>13. CASE UNCHANGED vars
  BY <1>3, <1>13 DEF vars, Kept, Waiting, Elapsed
<1>14. QED
  BY <1>4, <1>5, <1>6, <1>7, <1>8, <1>9, <1>10, <1>11, <1>12, <1>13 DEF Next

\* The invariant, for every behaviour.
LEMMA Invariant == Spec => []IInv
BY InvInit, InvStep, PTL DEF Spec

-----------------------------------------------------------------------------
(* What follows.                                                            *)

\* The output directories of a collector, and with them the archives that the
\* transfer sorts by name, ascend whatever intervals and clock: only a restart
\* or a local time that goes back lets a name come again.
THEOREM RunsGetNewDirectories == Spec => DirectoriesAscend
<1>1. ASSUME IInv, [Next]_vars, NEW c \in Collectors, Spawned(c), c \notin fresh,
             ~(dir[c].offset < last[c].offset)
      PROVE  Name(last[c]) < Name(dir[c])
  <2>1. TypeOK /\ Kept(c) /\ Waiting(c)
    BY <1>1 DEF IInv, Spawned, Waiting
  <2>2. last[c] \in Dirs /\ last[c].slot < dir[c].slot
    BY <1>1, <2>1 DEF Kept
  <2>3. dir[c] \in Dirs
    BY <2>1 DEF TypeOK, Waiting
  <2>4. last[c].offset \in Int /\ dir[c].offset \in Int
          /\ last[c].slot \in Int /\ dir[c].slot \in Int
    BY <2>1, <2>2, <2>3, Numbers
  <2>5. QED
    BY <1>1, <2>2, <2>4 DEF Name
<1>2. IInv /\ [Next]_vars => [\A c \in Collectors : Spawned(c) =>
                                 \/ c \in fresh
                                 \/ dir[c].offset < last[c].offset
                                 \/ Name(last[c]) < Name(dir[c])]_vars
  BY <1>1
<1>3. QED
  BY <1>2, Invariant, PTL DEF Spec, DirectoriesAscend

\* Of three successive runs of a collector the last is spawned an interval after
\* the first, or later, for any intervals and checks, and on any clock.
THEOREM RunsDoNotBurst == Spec => NoBurst
<1>1. ASSUME IInv, [Next]_vars, NEW c \in Collectors, Spawned(c)
      PROVE  before[c] + Interval[c] <= Elapsed
  BY <1>1 DEF IInv, Spawned, Waiting, Kept
<1>2. IInv /\ [Next]_vars =>
          [\A c \in Collectors : Spawned(c) => before[c] + Interval[c] <= Elapsed]_vars
  BY <1>1
<1>3. QED
  BY <1>2, Invariant, PTL DEF Spec, NoBurst

\* A run is spawned before the interval is over that its directory is named
\* after, or, held by a failed check, the one that follows, but for the time
\* that the scheduler has spent on its checks since the poll.
THEOREM RunsStartInTheirSlot == Spec => []RunInItsSlot
<1>1. ASSUME IInv, NEW c \in Collectors, pc = "spawn", Waiting(c)
      PROVE  now < dir[c].slot + (IF c \in held THEN 2 ELSE 1) * Interval[c] + took
  <2>1. TypeOK /\ Kept(c)
    BY <1>1 DEF IInv
  <2>2. /\ Interval[c] \in Nat /\ current \in Nat /\ nextTimestamp[c] \in Nat
        /\ dir[c].slot \in Int /\ now \in Nat /\ took \in Nat
    BY <2>1, Numbers
  <2>3. nextTimestamp[c] < dir[c].slot + 2 * Interval[c] /\ now <= current + took
    BY <1>1, <2>1 DEF Kept
  <2>4. CASE c \in held
    BY <1>1, <2>1, <2>2, <2>3, <2>4 DEF Kept
  <2>5. CASE c \notin held
    <3>1. nextTimestamp[c] = current + Interval[c]
      BY <1>1, <2>1, <2>5 DEF Kept
    <3>2. QED
      BY <2>2, <2>3, <2>5, <3>1
  <2>6. QED
    BY <2>4, <2>5
<1>2. IInv => RunInItsSlot
  BY <1>1 DEF RunInItsSlot
<1>3. QED
  BY <1>2, Invariant, PTL

\* Every step moves the clock by what it adds to back, or not at all.
LEMMA DueStep == ASSUME TypeOK, DueWithin, [Next]_vars PROVE DueWithin'
<1> USE DEF TypeOK, DueWithin
<1>1. CASE ClockForward
  BY <1>1 DEF ClockForward, timerVars
<1>2. ASSUME NEW d \in 1..MaxBack, ClockBack(d) PROVE DueWithin'
  BY <1>2 DEF ClockBack, timerVars
<1>3. ASSUME NEW z \in Offsets, ZoneShifts(z) PROVE DueWithin'
  BY <1>3 DEF ZoneShifts, timerVars
<1>4. CASE Poll
  <2>1. now' = now /\ back' = back /\ checkTime' = now + Poller
    BY <1>4 DEF Poll, clockVars
  <2>2. ASSUME NEW c \in Collectors
        PROVE  nextTimestamp'[c] <= now' + Interval[c] + back'
    BY <1>4, <2>1 DEF Poll, NextTime
  <2>3. QED
    BY <2>1, <2>2
<1>5. ASSUME NEW c \in Collectors, Spawn(c) PROVE DueWithin'
  BY <1>5 DEF Spawn, clockVars
<1>6. CASE CheckFails \/ CheckPasses \/ AllSpawned
  BY <1>6 DEF CheckFails, CheckPasses, AllSpawned, clockVars, timerVars
<1>7. CASE Restart
  BY <1>7 DEF Restart, clockVars
<1>8. CASE UNCHANGED vars
  BY <1>8 DEF vars
<1>9. QED
  BY <1>1, <1>2, <1>3, <1>4, <1>5, <1>6, <1>7, <1>8 DEF Next

\* A clock set back delays polls and runs by what it was set back, no more.
THEOREM DelayedByTheClockOnly == Spec => []DueWithin
<1>1. Init => DueWithin
  BY DEF Init, DueWithin
<1>2. QED
  BY <1>1, TypeInit, TypeStep, DueStep, PTL DEF Spec
=============================================================================
