------------------------- MODULE AgentControlProofs -------------------------
(***************************************************************************)
(* What the two files of the work directory guarantee between any number   *)
(* of agent processes: type correctness, one scheduler at a time, and an   *)
(* exit flag that is taken by the process it was written for.              *)
(***************************************************************************)
EXTENDS AgentControl, TLAPS

Active(p) == pc[p] \in {"loop", "walk"}

\* Without a race the pid file names the process that is in its loop or leaves
\* it, and a process that is about to write its pid is alone.
Named == ~raced => \A p \in Procs : Active(p) => pidFile = p
Alone == ~raced => \A p \in Procs : pc[p] = "write" =>
             \A q \in Procs \ {p} : pc[q] # "write" /\ ~Active(q)

\* A flag that is not stale still has its process.
Awaited == flag /\ ~stale => asked \in Procs /\ Active(asked)

\* A stop past its check has a target, and its count is not yet below zero
\* while it waits.
Targeted ==
    /\ ctl # "idle" => target \in Procs
    /\ ctl = "wait" => left >= 0

IInv == TypeOK /\ Named /\ Alone /\ Awaited /\ Targeted

USE NoneAssumption, TimeoutAssumption DEF States, NoneAssumption, TimeoutAssumption

-----------------------------------------------------------------------------
LEMMA InitTypes == Init => TypeOK
<1> SUFFICES ASSUME Init PROVE TypeOK
  OBVIOUS
<1> USE DEF Init
<1>1. flag \in BOOLEAN /\ stale \in BOOLEAN /\ raced \in BOOLEAN /\ stolen \in BOOLEAN
  BY Zenon
<1>2. pc \in [Procs -> States] /\ left \in -1 .. Timeout
  BY SMT
<1>3. reused \in SUBSET {p \in Procs : pc[p] = "gone"}
  OBVIOUS
<1> QED BY <1>1, <1>2, <1>3 DEF TypeOK

\* Without a race the check sees an agent that is active.
LEMMA Seen ==
    ASSUME IInv, ~raced, NEW p \in Procs, Active(p)
    PROVE  ServiceExist
BY DEF IInv, Named, Active, ServiceExist, InProc

LEMMA StepTypes ==
    ASSUME TypeOK, Targeted, [Next]_vars
    PROVE  TypeOK' /\ Targeted'
<1> USE DEF TypeOK, Targeted, procVars, ctlVars, history, Goto
<1>1. ASSUME NEW p \in Procs, StartService(p) PROVE TypeOK' /\ Targeted'
  BY <1>1 DEF StartService
<1>2. ASSUME NEW p \in Procs, CheckService(p) PROVE TypeOK' /\ Targeted'
  BY <1>2 DEF CheckService, Checked
<1>3. ASSUME NEW p \in Procs, WritePid(p) PROVE TypeOK' /\ Targeted'
  BY <1>3 DEF WritePid
<1>4. ASSUME NEW p \in Procs, CatchExit(p) PROVE TypeOK' /\ Targeted'
  BY <1>4 DEF CatchExit
<1>5. ASSUME NEW p \in Procs, Signal(p) PROVE TypeOK' /\ Targeted'
  BY <1>5 DEF Signal
<1>6. ASSUME NEW p \in Procs, RunExit(p) PROVE TypeOK' /\ Targeted'
  BY <1>6 DEF RunExit, FlagAfterExit
<1>7. ASSUME NEW p \in Procs, End(p) PROVE TypeOK' /\ Targeted'
  BY <1>7 DEF End
<1>8. ASSUME NEW p \in Procs, Crash(p) PROVE TypeOK' /\ Targeted'
  BY <1>8 DEF Crash
<1>9. ASSUME NEW p \in Procs, ReusePid(p) PROVE TypeOK' /\ Targeted'
  BY <1>9 DEF ReusePid
<1>10. ASSUME InterruptStat PROVE TypeOK' /\ Targeted'
  BY <1>10 DEF InterruptStat, FlagAfterExit
<1>11. ASSUME StopService PROVE TypeOK' /\ Targeted'
  BY <1>11 DEF StopService, ServiceExist
<1>12. ASSUME WriteFlag PROVE TypeOK' /\ Targeted'
  BY <1>12 DEF WriteFlag, FlagWritten
<1>13. ASSUME Poll PROVE TypeOK' /\ Targeted'
  <2>1. left' \in -1 .. Timeout
    BY <1>13 DEF Poll
  <2> QED BY <1>13, <2>1 DEF Poll, Waiting
<1>14. ASSUME StopReturns PROVE TypeOK' /\ Targeted'
  BY <1>14 DEF StopReturns, Killed
<1>15. CASE UNCHANGED vars
  BY <1>15 DEF vars
<1>16. ASSUME NEW p \in Procs, SignalHangs(p) PROVE TypeOK' /\ Targeted'
  BY <1>16 DEF SignalHangs
<1> QED
  BY <1>1, <1>2, <1>3, <1>4, <1>5, <1>6, <1>7, <1>8, <1>9, <1>10, <1>11,
     <1>12, <1>13, <1>14, <1>15, <1>16 DEF Next, Step, Control

LEMMA StepNames ==
    ASSUME IInv, [Next]_vars
    PROVE  Named' /\ Alone' /\ Awaited'
<1> USE DEF IInv, TypeOK, Named, Alone, Awaited, Targeted, Active,
            procVars, ctlVars, history, Goto
<1>1. ASSUME NEW p \in Procs, StartService(p) PROVE Named' /\ Alone' /\ Awaited'
  BY <1>1 DEF StartService
<1>2. ASSUME NEW p \in Procs, CheckService(p) PROVE Named' /\ Alone' /\ Awaited'
  <2>1. Named' /\ Awaited'
    BY <1>2 DEF CheckService, Checked
  <2>2. CASE ServiceExist
    BY <1>2, <2>2 DEF CheckService, Checked
  <2>3. CASE ~ServiceExist
    <3>1. ~raced => \A q \in Procs : ~Active(q)
      BY <2>3, Seen DEF Active
    <3>2. ~raced' => \A q \in Procs : pc[q] # "write"
      BY <1>2, <2>3 DEF CheckService
    <3>3. ~raced' => ~raced
      BY <1>2 DEF CheckService
    <3> QED BY <1>2, <2>1, <3>1, <3>2, <3>3 DEF CheckService, Checked
  <2> QED BY <2>1, <2>2, <2>3
<1>3. ASSUME NEW p \in Procs, WritePid(p) PROVE Named' /\ Alone' /\ Awaited'
  BY <1>3 DEF WritePid
<1>4. ASSUME NEW p \in Procs, CatchExit(p) PROVE Named' /\ Alone' /\ Awaited'
  BY <1>4 DEF CatchExit
<1>5. ASSUME NEW p \in Procs, Signal(p) PROVE Named' /\ Alone' /\ Awaited'
  BY <1>5 DEF Signal
<1>6. ASSUME NEW p \in Procs, RunExit(p) PROVE Named' /\ Alone' /\ Awaited'
  BY <1>6 DEF RunExit, FlagAfterExit
<1>7. ASSUME NEW p \in Procs, End(p) PROVE Named' /\ Alone' /\ Awaited'
  BY <1>7 DEF End
<1>8. ASSUME NEW p \in Procs, Crash(p) PROVE Named' /\ Alone' /\ Awaited'
  BY <1>8 DEF Crash
<1>9. ASSUME NEW p \in Procs, ReusePid(p) PROVE Named' /\ Alone' /\ Awaited'
  BY <1>9 DEF ReusePid
<1>10. ASSUME InterruptStat PROVE Named' /\ Alone' /\ Awaited'
  BY <1>10 DEF InterruptStat, FlagAfterExit
<1>11. ASSUME StopService PROVE Named' /\ Alone' /\ Awaited'
  BY <1>11 DEF StopService
<1>12. ASSUME WriteFlag PROVE Named' /\ Alone' /\ Awaited'
  BY <1>12 DEF WriteFlag
<1>13. ASSUME Poll PROVE Named' /\ Alone' /\ Awaited'
  BY <1>13 DEF Poll
<1>14. ASSUME StopReturns PROVE Named' /\ Alone' /\ Awaited'
  BY <1>14 DEF StopReturns
<1>15. CASE UNCHANGED vars
  BY <1>15 DEF vars
<1>16. ASSUME NEW p \in Procs, SignalHangs(p) PROVE Named' /\ Alone' /\ Awaited'
  BY <1>16 DEF SignalHangs
<1> QED
  BY <1>1, <1>2, <1>3, <1>4, <1>5, <1>6, <1>7, <1>8, <1>9, <1>10, <1>11,
     <1>12, <1>13, <1>14, <1>15, <1>16 DEF Next, Step, Control

-----------------------------------------------------------------------------
\* The invariant holds of every execution of the agents and of getperfctl.
THEOREM ControlInvariant == Spec => []IInv
<1>1. Init => IInv
  BY InitTypes DEF Init, IInv, Named, Alone, Awaited, Targeted, Active
<1>2. IInv /\ [Next]_vars => IInv'
  BY StepTypes, StepNames DEF IInv
<1> QED BY <1>1, <1>2, PTL DEF Spec

\* Every state has its type.
THEOREM ControlTypeCorrect == Spec => []TypeOK
<1>1. IInv => TypeOK
  BY DEF IInv
<1> QED BY <1>1, ControlInvariant, PTL

\* The pid file keeps a second scheduler out, whatever crashes, whoever is
\* given an old pid, unless two starts overlap between check and write.
THEOREM ControlOneScheduler == Spec => []OneScheduler
<1>1. IInv => OneScheduler
  BY DEF IInv, Named, Active, OneScheduler
<1> QED BY <1>1, ControlInvariant, PTL

\* A running agent only ever leaves on an exit flag that was meant for it, one
\* left behind by an agent that died, or after such a race.
THEOREM ControlRequestStopsTarget == Spec => RequestStopsTarget
<1>1. IInv => [\A p \in Procs : pc[p] = "loop" /\ pc'[p] = "walk" /\ flag =>
                   p = asked \/ stale \/ raced]_vars
  BY DEF IInv, Named, Awaited, Active
<1> QED BY <1>1, ControlInvariant, PTL DEF RequestStopsTarget

=============================================================================
