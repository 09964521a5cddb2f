-------------------------- MODULE SemaphoresProofs --------------------------
(***************************************************************************)
(* Mutual exclusion and absence of deadlock by a set of semaphores that    *)
(* any process may remove and make anew: for any number of agents, threads *)
(* and creations.                                                          *)
(***************************************************************************)
EXTENDS Semaphores, TLAPS

\* A process that has made its set knows it under its own name, so that two
\* processes never work with one set.
Named == \A p \in Procs : pc[p] \in {"set", "up"} => mine[p] = <<p, round[p]>>

\* It has begun a creation as long as it lives.
Begun == \A p \in Procs : pc[p] \notin {"none", "gone"} => round[p] \in 1 .. Rounds

\* Only a process that is up has threads inside a mutex or before it.
Quiet == \A t \in Threads : pc[Owner[t]] # "up" => holds[t] = {} /\ wants[t] = None

\* A mutex that a thread is inside of has the value 0, and no other thread of
\* its process is in it.
Held ==
    \A t \in Threads : \A l \in Locks : l \in holds[t] /\ Valid(Owner[t]) =>
        /\ val[l] = 0
        /\ \A u \in Threads \ {t} : Owner[u] = Owner[t] => l \notin holds[u]

IInv == TypeOK /\ Named /\ Begun /\ Quiet /\ Held

USE SemaphoreAssumption DEF SemaphoreAssumption, Locks

-----------------------------------------------------------------------------
LEMMA InitIInv == Init => IInv
<1> SUFFICES ASSUME Init PROVE IInv
  OBVIOUS
<1>1. TypeOK
  BY SMT DEF Init, TypeOK, Sets
<1>2. Named /\ Begun /\ Quiet /\ Held
  BY DEF Init, Named, Begun, Quiet, Held
<1> QED BY <1>1, <1>2 DEF IInv

LEMMA VanishTypes ==
    ASSUME TypeOK, NEW p \in Procs, Vanish(p)
    PROVE  /\ pc' \in [Procs -> {"none", "get", "find", "remove", "set", "up", "gone"}]
           /\ holds' \in [Threads -> SUBSET Locks]
           /\ wants' \in [Threads -> Locks \cup {None}]
           /\ handler' \in [Procs -> Threads \cup {None}]
           /\ stage' \in [Procs -> {"none", "log", "task", "exit"}]
BY DEF TypeOK, Vanish, Goto

LEMMA StepTypes ==
    ASSUME IInv, [Next]_vars
    PROVE  TypeOK'
<1> USE DEF IInv, TypeOK, setVars, procVars, threadVars, handlerVars, Goto
<1>1. ASSUME NEW p \in Procs, Start(p) PROVE TypeOK'
  BY <1>1 DEF Start
<1>2. ASSUME NEW p \in Procs, Create(p) PROVE TypeOK'
  <2>1. <<p, round[p]>> \in Sets
    <3>1. round[p] \in 1 .. Rounds
      BY <1>2 DEF Create, Begun
    <3> QED BY <3>1 DEF Sets
  <2> QED BY <1>2, <2>1 DEF Create
<1>3. ASSUME NEW p \in Procs, Exists(p) PROVE TypeOK'
  BY <1>3 DEF Exists
<1>4. ASSUME NEW p \in Procs, Find(p) PROVE TypeOK'
  BY <1>4 DEF Find, Forced
<1>5. ASSUME NEW p \in Procs, Remove(p) PROVE TypeOK'
  <2>1. tries' \in [Procs -> 0 .. MaxAttempts]
    BY <1>5 DEF Remove, TooMany
  <2>2. mine' \in [Procs -> Sets] /\ live' \in Sets
    BY <1>5 DEF Remove, Sets
  <2> QED BY <1>5, <2>1, <2>2 DEF Remove
<1>6. ASSUME NEW p \in Procs, SetValues(p) PROVE TypeOK'
  BY <1>6 DEF SetValues, Initial
<1>7. ASSUME NEW p \in Procs, Vanishes(p) PROVE TypeOK'
  BY <1>7, VanishTypes DEF Vanishes
<1>8. ASSUME NEW p \in Procs, HandlerLock(p) PROVE TypeOK'
  BY <1>8 DEF HandlerLock
<1>9. ASSUME NEW p \in Procs, HandlerExit(p) PROVE TypeOK'
  BY <1>9, VanishTypes DEF HandlerExit, Sets
<1>10. ASSUME NEW p \in Procs, NEW t \in Threads, Signal(p, t) PROVE TypeOK'
  BY <1>10 DEF Signal
<1>11. ASSUME NEW t \in Threads, NEW l \in Locks, Want(t, l) PROVE TypeOK'
  BY <1>11 DEF Want
<1>12. ASSUME NEW t \in Threads, Enter(t) PROVE TypeOK'
  BY <1>12 DEF Enter, Taken
<1>13. ASSUME NEW t \in Threads, NEW l \in Locks, Leave(t, l) PROVE TypeOK'
  <2>1. val' \in [Locks -> {0, 1}]
    BY <1>13 DEF Leave, Given, Held
  <2>2. holds' \in [Threads -> SUBSET Locks]
    BY <1>13 DEF Leave
  <2> QED BY <1>13, <2>1, <2>2 DEF Leave
<1>14. CASE UNCHANGED vars
  BY <1>14 DEF vars
<1> QED
  BY <1>1, <1>2, <1>3, <1>4, <1>5, <1>6, <1>7, <1>8, <1>9, <1>10, <1>11,
     <1>12, <1>13, <1>14 DEF Next, CreateStep, ThreadStep

LEMMA StepNames ==
    ASSUME IInv, [Next]_vars
    PROVE  Named' /\ Begun' /\ Quiet'
<1> USE DEF IInv, TypeOK, Named, Begun, Quiet, setVars, procVars, threadVars, handlerVars,
            Goto, Runs
<1>1. ASSUME NEW p \in Procs, Start(p) PROVE Named' /\ Begun' /\ Quiet'
  BY <1>1 DEF Start
<1>2. ASSUME NEW p \in Procs, Create(p) PROVE Named' /\ Begun' /\ Quiet'
  BY <1>2 DEF Create
<1>3. ASSUME NEW p \in Procs, Exists(p) PROVE Named' /\ Begun' /\ Quiet'
  BY <1>3 DEF Exists
<1>4. ASSUME NEW p \in Procs, Find(p) PROVE Named' /\ Begun' /\ Quiet'
  BY <1>4 DEF Find, Forced
<1>5. ASSUME NEW p \in Procs, Remove(p) PROVE Named' /\ Begun' /\ Quiet'
  BY <1>5 DEF Remove
<1>6. ASSUME NEW p \in Procs, SetValues(p) PROVE Named' /\ Begun' /\ Quiet'
  <2>1. CASE mine[p] # live
    BY <1>6, <2>1 DEF SetValues
  <2>2. CASE mine[p] = live
    BY <1>6, <2>2 DEF SetValues
  <2> QED BY <2>1, <2>2
<1>7. ASSUME NEW p \in Procs, Vanishes(p) PROVE Named' /\ Begun' /\ Quiet'
  BY <1>7 DEF Vanishes, Vanish
<1>8. ASSUME NEW p \in Procs, HandlerLock(p) PROVE Named' /\ Begun' /\ Quiet'
  BY <1>8 DEF HandlerLock
<1>9. ASSUME NEW p \in Procs, HandlerExit(p) PROVE Named' /\ Begun' /\ Quiet'
  BY <1>9 DEF HandlerExit, Vanish
<1>10. ASSUME NEW p \in Procs, NEW t \in Threads, Signal(p, t) PROVE Named' /\ Begun' /\ Quiet'
  BY <1>10 DEF Signal
<1>11. ASSUME NEW t \in Threads, NEW l \in Locks, Want(t, l) PROVE Named' /\ Begun' /\ Quiet'
  BY <1>11 DEF Want
<1>12. ASSUME NEW t \in Threads, Enter(t) PROVE Named' /\ Begun' /\ Quiet'
  BY <1>12 DEF Enter
<1>13. ASSUME NEW t \in Threads, NEW l \in Locks, Leave(t, l) PROVE Named' /\ Begun' /\ Quiet'
  BY <1>13 DEF Leave
<1>14. CASE UNCHANGED vars
  BY <1>14 DEF vars
<1> QED
  BY <1>1, <1>2, <1>3, <1>4, <1>5, <1>6, <1>7, <1>8, <1>9, <1>10, <1>11,
     <1>12, <1>13, <1>14 DEF Next, CreateStep, ThreadStep

-----------------------------------------------------------------------------
\* A thread inside a mutex belongs to a process that is up and has made the set
\* it works with.
LEMMA HolderUp ==
    ASSUME IInv, NEW t \in Threads, NEW l \in holds[t]
    PROVE  /\ Owner[t] \in Procs
           /\ pc[Owner[t]] = "up"
           /\ mine[Owner[t]] = <<Owner[t], round[Owner[t]]>>
           /\ mine[Owner[t]] # None
<1>1. Owner[t] \in Procs /\ pc[Owner[t]] = "up"
  BY DEF IInv, Quiet
<1>2. mine[Owner[t]] = <<Owner[t], round[Owner[t]]>>
  BY <1>1 DEF IInv, Named
<1>3. <<Owner[t], round[Owner[t]]>> # None
  <2>1. round[Owner[t]] \in 1 .. Rounds
    BY <1>1 DEF IInv, Begun
  <2> QED BY <1>1, <2>1
<1> QED BY <1>1, <1>2, <1>3

\* A step of the set that leaves the threads alone keeps the mutexes if no
\* process that is up keeps a valid set with other values.
LEMMA HeldKept ==
    ASSUME IInv, UNCHANGED <<holds>>,
           \A p \in Procs : pc[p] = "up" /\ mine[p] # None /\ Valid(p)' => Valid(p) /\ val' = val
    PROVE  Held'
<1> SUFFICES ASSUME NEW t \in Threads, NEW l \in Locks, l \in holds[t], Valid(Owner[t])'
             PROVE  /\ val'[l] = 0
                    /\ \A u \in Threads \ {t} : Owner[u] = Owner[t] => l \notin holds[u]
  BY DEF Held
<1>1. Valid(Owner[t]) /\ val' = val
  BY HolderUp
<1> QED BY <1>1 DEF IInv, Held

LEMMA StepHeld ==
    ASSUME IInv, [Next]_vars
    PROVE  Held'
<1> USE DEF setVars, procVars, threadVars, handlerVars, Goto, Valid
<1>1. ASSUME NEW p \in Procs, Start(p) PROVE Held'
  BY <1>1, HeldKept DEF Start
<1>2. ASSUME NEW p \in Procs, Create(p) PROVE Held'
  <2>1. ASSUME NEW q \in Procs, pc[q] = "up" PROVE mine'[q] # live'
    BY <1>2, <2>1 DEF Create, IInv, Named, TypeOK
  <2> QED BY <1>2, <2>1, HeldKept DEF Create
<1>3. ASSUME NEW p \in Procs, Exists(p) PROVE Held'
  BY <1>3, HeldKept DEF Exists
<1>4. ASSUME NEW p \in Procs, Find(p) PROVE Held'
  BY <1>4, HeldKept DEF Find, IInv, TypeOK
<1>5. ASSUME NEW p \in Procs, Remove(p) PROVE Held'
  BY <1>5, HeldKept DEF Remove, IInv, TypeOK
<1>6. ASSUME NEW p \in Procs, SetValues(p) PROVE Held'
  <2>1. CASE mine[p] # live
    BY <1>6, <2>1, HeldKept DEF SetValues
  <2>2. CASE mine[p] = live
    <3>1. ASSUME NEW q \in Procs, pc[q] = "up" PROVE mine[q] # live
      BY <1>6, <2>2, <3>1 DEF SetValues, IInv, Named
    <3> QED BY <1>6, <2>2, <3>1, HeldKept DEF SetValues
  <2> QED BY <2>1, <2>2
<1>7. ASSUME NEW p \in Procs, Vanishes(p) PROVE Held'
  BY <1>7 DEF Vanishes, Vanish, IInv, TypeOK, Held
<1>8. ASSUME NEW p \in Procs, HandlerLock(p) PROVE Held'
  BY <1>8, HeldKept DEF HandlerLock
<1>9. ASSUME NEW p \in Procs, HandlerExit(p) PROVE Held'
  <2> SUFFICES ASSUME NEW t \in Threads, NEW l \in Locks, l \in holds'[t],
                      Valid(Owner[t])'
               PROVE  /\ val'[l] = 0
                      /\ \A u \in Threads \ {t} : Owner[u] = Owner[t] => l \notin holds'[u]
    BY DEF Held
  <2>1. l \in holds[t] /\ \A u \in Threads : holds'[u] \subseteq holds[u]
    BY <1>9 DEF HandlerExit, Vanish, IInv, TypeOK
  <2>2. live' = live
    BY <1>9, <2>1, HolderUp DEF HandlerExit
  <2> QED BY <1>9, <2>1, <2>2 DEF HandlerExit, IInv, Held
<1>10. ASSUME NEW p \in Procs, NEW t \in Threads, Signal(p, t) PROVE Held'
  BY <1>10, HeldKept DEF Signal
<1>11. ASSUME NEW t \in Threads, NEW l \in Locks, Want(t, l) PROVE Held'
  BY <1>11, HeldKept DEF Want
<1>12. ASSUME NEW s \in Threads, Enter(s) PROVE Held'
  <2> SUFFICES ASSUME NEW t \in Threads, NEW l \in Locks, l \in holds'[t],
                      Valid(Owner[t])'
               PROVE  /\ val'[l] = 0
                      /\ \A u \in Threads \ {t} : Owner[u] = Owner[t] => l \notin holds'[u]
    BY DEF Held
  <2> DEFINE w == wants[s]
  <2>1. /\ holds'[s] = holds[s] \cup {w}
        /\ \A u \in Threads \ {s} : holds'[u] = holds[u]
        /\ w \in Locks /\ Valid(Owner[t]) /\ Owner[s] \in Procs
    BY <1>12 DEF Enter, IInv, TypeOK
  <2>2. pc[Owner[s]] = "up" /\ mine[Owner[s]] = <<Owner[s], round[Owner[s]]>>
    BY <1>12, <2>1 DEF Enter, Runs, IInv, Named
  <2>3. CASE Valid(Owner[s])
    <3>1. val[w] = 1 /\ val' = [val EXCEPT ![w] = 0]
      BY <1>12, <2>3 DEF Enter, Passes, Taken
    <3>2. \A u \in Threads : Owner[u] = Owner[s] => w \notin holds[u]
      BY <2>1, <2>3, <3>1 DEF IInv, Held
    <3>3. Owner[t] = Owner[s]
      <4>1. CASE t = s
        BY <4>1
      <4>2. CASE t # s
        <5>1. mine[Owner[t]] = <<Owner[t], round[Owner[t]]>>
          BY <2>1, <4>2, HolderUp
        <5> QED BY <2>1, <2>2, <2>3, <5>1
      <4> QED BY <4>1, <4>2
    <3>4. val' \in [Locks -> {0, 1}] /\ val'[w] = 0
      BY <2>1, <3>1 DEF IInv, TypeOK
    <3>5. CASE l = w
      BY <2>1, <3>2, <3>3, <3>4, <3>5
    <3>6. CASE l # w
      BY <2>1, <3>1, <3>3, <3>6 DEF IInv, Held, TypeOK
    <3> QED BY <3>5, <3>6
  <2>4. CASE ~Valid(Owner[s])
    <3>1. Owner[t] # Owner[s] /\ val' = val
      BY <1>12, <2>1, <2>4 DEF Enter, Taken
    <3> QED BY <2>1, <3>1 DEF IInv, Held
  <2> QED BY <2>3, <2>4
<1>13. ASSUME NEW s \in Threads, NEW k \in Locks, Leave(s, k) PROVE Held'
  <2> SUFFICES ASSUME NEW t \in Threads, NEW l \in Locks, l \in holds'[t],
                      Valid(Owner[t])'
               PROVE  /\ val'[l] = 0
                      /\ \A u \in Threads \ {t} : Owner[u] = Owner[t] => l \notin holds'[u]
    BY DEF Held
  <2>1. /\ \A u \in Threads : holds'[u] \subseteq holds[u]
        /\ l \in holds[t] /\ k \in holds[s] /\ Valid(Owner[t])
        /\ t = s => l # k
    BY <1>13 DEF Leave, IInv, TypeOK
  <2>2. val[l] = 0 /\ \A u \in Threads \ {t} : Owner[u] = Owner[t] => l \notin holds[u]
    BY <2>1 DEF IInv, Held
  <2>3. val'[l] = val[l]
    <3>1. CASE l # k
      BY <1>13, <3>1 DEF Leave, Given, IInv, TypeOK
    <3>2. CASE l = k
      <4>1. Owner[s] # Owner[t]
        BY <2>1, <2>2, <3>2
      <4>2. ~Valid(Owner[s])
        BY <2>1, <4>1, HolderUp
      <4> QED BY <1>13, <4>2 DEF Leave, Given
    <3> QED BY <3>1, <3>2
  <2> QED BY <2>1, <2>2, <2>3
<1>14. CASE UNCHANGED vars
  BY <1>14, HeldKept DEF vars
<1> QED
  BY <1>1, <1>2, <1>3, <1>4, <1>5, <1>6, <1>7, <1>8, <1>9, <1>10, <1>11,
     <1>12, <1>13, <1>14 DEF Next, CreateStep, ThreadStep

-----------------------------------------------------------------------------
\* The invariant holds of every execution.
THEOREM SemaphoreInvariant == Spec => []IInv
<1>1. IInv /\ [Next]_vars => IInv'
  BY StepTypes, StepNames, StepHeld DEF IInv
<1> QED BY <1>1, InitIInv, PTL DEF Spec

\* Every state has its type: no semaphore ever exceeds one, and no process
\* tries to create its set more often than it may.
THEOREM SemaphoreTypeCorrect == Spec => []TypeOK
<1>1. IInv => TypeOK
  BY DEF IInv
<1> QED BY <1>1, SemaphoreInvariant, PTL

\* An agent whose set has not been removed has its mutual exclusion, whatever
\* other agents that share the key create, remove or leave behind.
THEOREM SemaphoresExclude == Spec => []Exclusive
<1>1. IInv => Exclusive
  BY DEF IInv, Held, Exclusive, TypeOK
<1> QED BY <1>1, SemaphoreInvariant, PTL

-----------------------------------------------------------------------------
(* Nobody is stuck.                                                         *)

\* Who waits inside a mutex waits for the mutex of the log, from outside of it.
Waiting == \A t \in Threads : wants[t] # None => InOrder(t, wants[t])

\* A mutex of an agent that has its set is taken only if one of the agent's
\* threads is inside.
TakenInside ==
    \A p \in Procs : pc[p] = "up" /\ Valid(p) =>
        \A l \in Locks : val[l] = 0 => \E t \in Threads : Owner[t] = p /\ l \in holds[t]

StuckInv == IInv /\ Waiting /\ TakenInside

LEMMA StepWaiting ==
    ASSUME IInv, Waiting, [Next]_vars
    PROVE  Waiting'
<1> USE DEF setVars, procVars, threadVars, handlerVars, Goto
<1>1. ASSUME UNCHANGED <<holds, wants>> PROVE Waiting'
  BY <1>1 DEF Waiting, InOrder
<1>2. ASSUME NEW p \in Procs, Vanish(p) PROVE Waiting'
  <2>1. \A t \in Threads : wants'[t] # None => wants'[t] = wants[t] /\ holds'[t] = holds[t]
    BY <1>2 DEF Vanish
  <2> QED BY <2>1 DEF Waiting, InOrder
<1>3. ASSUME NEW p \in Procs, NEW t \in Threads, Signal(p, t) PROVE Waiting'
  <2>1. \A u \in Threads : wants'[u] # None => wants'[u] = wants[u] /\ holds'[u] = holds[u]
    BY <1>3 DEF Signal, IInv, TypeOK
  <2> QED BY <2>1 DEF Waiting, InOrder
<1>4. ASSUME NEW t \in Threads, NEW l \in Locks, Want(t, l) PROVE Waiting'
  <2>1. holds' = holds /\ wants' = [wants EXCEPT ![t] = l] /\ InOrder(t, l)
    BY <1>4 DEF Want
  <2> QED BY <2>1 DEF Waiting, InOrder, IInv, TypeOK
<1>5. ASSUME NEW t \in Threads, Enter(t) PROVE Waiting'
  <2>1. /\ wants' = [wants EXCEPT ![t] = None]
        /\ \A u \in Threads \ {t} : holds'[u] = holds[u]
    BY <1>5 DEF Enter, IInv, TypeOK
  <2>2. \A u \in Threads : wants'[u] # None => wants'[u] = wants[u] /\ holds'[u] = holds[u]
    BY <2>1 DEF IInv, TypeOK
  <2> QED BY <2>2 DEF Waiting, InOrder
<1>6. ASSUME NEW t \in Threads, NEW l \in Locks, Leave(t, l) PROVE Waiting'
  <2>1. wants' = wants /\ wants[t] = None /\ \A u \in Threads \ {t} : holds'[u] = holds[u]
    BY <1>6 DEF Leave, IInv, TypeOK
  <2> QED BY <2>1 DEF Waiting, InOrder
<1>7. ASSUME NEW p \in Procs, CreateStep(p) PROVE Waiting'
  BY <1>1, <1>7 DEF CreateStep, Start, Create, Exists, Find, Remove, SetValues
<1>8. CASE UNCHANGED vars
  BY <1>1, <1>8 DEF vars
<1> QED
  BY <1>1, <1>2, <1>3, <1>4, <1>5, <1>6, <1>7, <1>8
     DEF Next, ThreadStep, Vanishes, HandlerLock, HandlerExit

\* A step that leaves the threads alone keeps it if no agent comes by a set.
LEMMA TakenKept ==
    ASSUME IInv, TakenInside, UNCHANGED holds,
           \A p \in Procs : pc'[p] = "up" /\ Valid(p)' =>
               pc[p] = "up" /\ Valid(p) /\ val' = val
    PROVE  TakenInside'
BY DEF TakenInside

\* An agent that ends takes no other agent's threads with it.
LEMMA TakenVanish ==
    ASSUME IInv, TakenInside, NEW q \in Procs, pc[q] = "up", Vanish(q),
           UNCHANGED <<val, mine>>, live' \in {live, None}
    PROVE  TakenInside'
<1> SUFFICES ASSUME NEW p \in Procs, pc'[p] = "up", Valid(p)', NEW l \in Locks, val[l] = 0
             PROVE  \E t \in Threads : Owner[t] = p /\ l \in holds'[t]
  BY DEF TakenInside
<1>1. p # q /\ pc[p] = "up"
  BY DEF Vanish, Goto, IInv, TypeOK
<1>2. mine[p] # None
  <2>1. mine[p] = <<p, round[p]>> /\ round[p] \in 1 .. Rounds
    BY <1>1 DEF IInv, Named, Begun
  <2> QED BY <2>1
<1>3. Valid(p)
  BY <1>2 DEF Valid
<1>4. PICK t \in Threads : Owner[t] = p /\ l \in holds[t]
  BY <1>1, <1>3 DEF TakenInside
<1> QED BY <1>1, <1>4 DEF Vanish

\* Two agents do not work with one set.
LEMMA OneValid ==
    ASSUME IInv, NEW p \in Procs, NEW q \in Procs, pc[p] = "up", pc[q] = "up",
           Valid(p), Valid(q)
    PROVE  p = q
<1>1. mine[p] = <<p, round[p]>> /\ mine[q] = <<q, round[q]>>
  BY DEF IInv, Named
<1> QED BY <1>1 DEF Valid

LEMMA StepTaken ==
    ASSUME IInv, TakenInside, [Next]_vars
    PROVE  TakenInside'
<1> USE DEF setVars, procVars, threadVars, handlerVars, Goto, Valid
<1>1. ASSUME NEW p \in Procs, Start(p) PROVE TakenInside'
  BY <1>1, TakenKept DEF Start, IInv, TypeOK
<1>2. ASSUME NEW p \in Procs, Create(p) PROVE TakenInside'
  <2>1. ASSUME NEW q \in Procs, pc'[q] = "up" PROVE mine'[q] # live'
    BY <1>2, <2>1 DEF Create, IInv, Named, TypeOK
  <2> QED BY <1>2, <2>1, TakenKept DEF Create
<1>3. ASSUME NEW p \in Procs, Exists(p) PROVE TakenInside'
  BY <1>3, TakenKept DEF Exists, IInv, TypeOK
<1>4. ASSUME NEW p \in Procs, Find(p) PROVE TakenInside'
  BY <1>4, TakenKept DEF Find, Forced, IInv, TypeOK
<1>5. ASSUME NEW p \in Procs, Remove(p) PROVE TakenInside'
  <2>1. holds' = holds /\ val' = val
    BY <1>5 DEF Remove
  <2>2. ASSUME NEW q \in Procs, pc'[q] = "up", mine'[q] = live'
        PROVE  pc[q] = "up" /\ mine[q] = live
    <3>1. q # p /\ pc[q] = "up" /\ mine'[q] = mine[q]
      BY <1>5, <2>2 DEF Remove, IInv, TypeOK
    <3>2. mine[q] = <<q, round[q]>> /\ round[q] \in 1 .. Rounds
      BY <3>1 DEF IInv, Named, Begun
    <3>3. live' = live \/ live' = None
      BY <1>5 DEF Remove
    <3> QED BY <2>2, <3>1, <3>2, <3>3
  <2> QED BY <2>1, <2>2, TakenKept
<1>6. ASSUME NEW p \in Procs, SetValues(p) PROVE TakenInside'
  <2>1. CASE mine[p] # live
    BY <1>6, <2>1, TakenKept DEF SetValues, IInv, TypeOK
  <2>2. CASE mine[p] = live
    <3>1. mine[p] = <<p, round[p]>> /\ pc[p] = "set"
      BY <1>6 DEF SetValues, IInv, Named
    <3>2. val' = [l \in Locks |-> 1]
      BY <1>6, <2>2, <3>1 DEF SetValues, Initial
    <3> QED BY <3>2 DEF TakenInside
  <2> QED BY <2>1, <2>2
<1>7. ASSUME NEW p \in Procs, Vanishes(p) PROVE TakenInside'
  BY <1>7, TakenVanish DEF Vanishes
<1>8. ASSUME NEW p \in Procs, HandlerLock(p) PROVE TakenInside'
  BY <1>8, TakenKept DEF HandlerLock
<1>9. ASSUME NEW p \in Procs, HandlerExit(p) PROVE TakenInside'
  BY <1>9, TakenVanish DEF HandlerExit
<1>10. ASSUME NEW p \in Procs, NEW t \in Threads, Signal(p, t) PROVE TakenInside'
  BY <1>10, TakenKept DEF Signal
<1>11. ASSUME NEW t \in Threads, NEW l \in Locks, Want(t, l) PROVE TakenInside'
  BY <1>11, TakenKept DEF Want
<1>12. ASSUME NEW s \in Threads, Enter(s) PROVE TakenInside'
  <2> SUFFICES ASSUME NEW p \in Procs, pc[p] = "up", Valid(p), NEW l \in Locks, val'[l] = 0
               PROVE  \E t \in Threads : Owner[t] = p /\ l \in holds'[t]
    BY <1>12 DEF TakenInside, Enter
  <2>1. /\ holds'[s] = holds[s] \cup {wants[s]}
        /\ \A u \in Threads : holds[u] \subseteq holds'[u]
    BY <1>12 DEF Enter, IInv, TypeOK
  <2>2. CASE val[l] = 0
    <3>1. PICK t \in Threads : Owner[t] = p /\ l \in holds[t]
      BY <2>2 DEF TakenInside
    <3> QED BY <2>1, <3>1
  <2>3. CASE val[l] # 0
    <3>1. Valid(Owner[s]) /\ l = wants[s]
      BY <1>12, <2>3 DEF Enter, Taken, IInv, TypeOK
    <3>2. Owner[s] \in Procs /\ pc[Owner[s]] = "up"
      BY <1>12 DEF Enter, Runs
    <3>3. Owner[s] = p
      BY <3>1, <3>2, OneValid
    <3> QED BY <2>1, <3>1, <3>3
  <2> QED BY <2>2, <2>3
<1>13. ASSUME NEW s \in Threads, NEW k \in Locks, Leave(s, k) PROVE TakenInside'
  <2> SUFFICES ASSUME NEW p \in Procs, pc[p] = "up", Valid(p), NEW l \in Locks, val'[l] = 0
               PROVE  \E t \in Threads : Owner[t] = p /\ l \in holds'[t]
    BY <1>13 DEF TakenInside, Leave
  <2>1. /\ k \in holds[s] /\ holds'[s] = holds[s] \ {k}
        /\ \A u \in Threads \ {s} : holds'[u] = holds[u]
        /\ val' = Given(Owner[s], k)
    BY <1>13 DEF Leave, IInv, TypeOK
  <2>2. val[l] = 0 /\ (Owner[s] = p => l # k)
    <3>1. CASE Valid(Owner[s])
      <4>1. val[k] = 0
        BY <2>1, <3>1 DEF IInv, Held
      <4>2. val' = [val EXCEPT ![k] = 1]
        BY <2>1, <3>1, <4>1 DEF Given, IInv, TypeOK
      <4> QED BY <4>2 DEF IInv, TypeOK
    <3>2. CASE ~Valid(Owner[s])
      BY <2>1, <3>2 DEF Given
    <3> QED BY <3>1, <3>2
  <2>3. PICK t \in Threads : Owner[t] = p /\ l \in holds[t]
    BY <2>2 DEF TakenInside
  <2> QED BY <2>1, <2>2, <2>3
<1>14. CASE UNCHANGED vars
  BY <1>14, TakenKept DEF vars
<1> QED
  BY <1>1, <1>2, <1>3, <1>4, <1>5, <1>6, <1>7, <1>8, <1>9, <1>10, <1>11,
     <1>12, <1>13, <1>14 DEF Next, CreateStep, ThreadStep

-----------------------------------------------------------------------------
\* A thread that waits in vain waits for another one, inside of the mutex.
LEMMA InVain ==
    ASSUME StuckInv, NEW t \in Threads, wants[t] # None, handler[Owner[t]] = None, ~GoesOn(t)
    PROVE  \E u \in Threads : Blocks(u, t)
<1>1. wants[t] \in Locks /\ Owner[t] \in Procs /\ pc[Owner[t]] = "up"
  BY DEF StuckInv, IInv, TypeOK, Quiet
<1>2. Valid(Owner[t]) /\ val[wants[t]] = 0
  <2>1. t # None
    OBVIOUS
  <2> QED BY <1>1, <2>1 DEF GoesOn, Runs, Passes, StuckInv, IInv, TypeOK
<1>3. PICK u \in Threads : Owner[u] = Owner[t] /\ wants[t] \in holds[u]
  BY <1>1, <1>2 DEF StuckInv, TakenInside
<1>4. wants[t] \notin holds[t]
  BY DEF StuckInv, Waiting, InOrder
<1> QED BY <1>3, <1>4 DEF Blocks

\* However many threads an agent has and whatever other agents do to the key: as
\* long as no handler runs in it, behind every thread that waits is one that goes
\* on, at most two mutexes away.
THEOREM SemaphoresNeverStuck == Spec => []NeverStuck
<1>1. Init => StuckInv
  BY InitIInv DEF Init, StuckInv, Waiting, TakenInside
<1>2. StuckInv /\ [Next]_vars => StuckInv'
  <2>1. IInv /\ [Next]_vars => IInv'
    BY StepTypes, StepNames, StepHeld DEF IInv
  <2> QED BY <2>1, StepWaiting, StepTaken DEF StuckInv
<1>3. StuckInv => NeverStuck
  <2> SUFFICES ASSUME StuckInv, NEW t \in Threads, wants[t] # None,
                      handler[Owner[t]] = None, ~GoesOn(t)
               PROVE  \E u \in Threads : /\ Blocks(u, t)
                                         /\ \/ GoesOn(u)
                                            \/ \E v \in Threads : Blocks(v, u) /\ GoesOn(v)
    BY DEF NeverStuck
  <2>1. PICK u \in Threads : Blocks(u, t)
    BY InVain
  <2>2. CASE GoesOn(u)
    BY <2>1, <2>2
  <2>3. CASE ~GoesOn(u)
    <3>1. Owner[u] = Owner[t] /\ holds[u] # {} /\ u # None
      BY <2>1 DEF Blocks
    <3>2. wants[u] # None
      BY <2>3, <3>1 DEF GoesOn, Runs, StuckInv, IInv, Quiet
    <3>3. PICK v \in Threads : Blocks(v, u)
      BY <2>3, <3>1, <3>2, InVain
    <3>4. Owner[v] = Owner[t] /\ "log" \in holds[v] /\ v # None
      BY <3>1, <3>2, <3>3 DEF Blocks, StuckInv, Waiting, InOrder
    <3>5. wants[v] = None
      BY <3>4 DEF StuckInv, Waiting, InOrder
    <3>6. GoesOn(v)
      BY <3>4, <3>5 DEF GoesOn, Runs, StuckInv, IInv, Quiet
    <3> QED BY <2>1, <3>3, <3>6
  <2> QED BY <2>2, <2>3
<1> QED BY <1>1, <1>2, <1>3, PTL DEF Spec

=============================================================================
