--------------------------- MODULE SiteSyncProofs ---------------------------
(* Proofs about SiteSync: how the lock is lost, and that no archive is.     *)
EXTENDS SiteSync, TLAPS

-----------------------------------------------------------------------------
(* Type correctness.                                                        *)

\* The types are inductive.
LEMMA TypeInductive ==
    ASSUME TypeOK, [Next]_vars PROVE TypeOK'
<1> USE SyncAssumption DEF TypeOK, Work, Over, Go, workVars, webVars, siteVars, lockVars
<1>1. ASSUME NEW p \in Procs, LockStep(p) PROVE TypeOK'
    <2>1. CASE Start(p) BY <2>1 DEF Start
    <2>2. CASE ReadLock(p) BY <2>2 DEF ReadLock
    <2>3. CASE MakeLock(p) BY <2>3 DEF MakeLock
    <2>4. CASE TestOwner(p) BY <2>4 DEF TestOwner
    <2>5. CASE RemoveStaleLock(p) BY <2>5 DEF RemoveStaleLock
    <2>6. CASE RemakeLock(p) BY <2>6 DEF RemakeLock
    <2> QED BY <1>1, <2>1, <2>2, <2>3, <2>4, <2>5, <2>6 DEF LockStep
<1>2. ASSUME NEW p \in Procs, NEW S \in SUBSET Zips, NEW R \in SUBSET Zips,
             RsyncEnds(p, S, R), cuts' \in Nat
      PROVE  TypeOK'
    <2>1. mirror' \in [Zips -> Nat] BY <1>2 DEF RsyncEnds
    <2>2. zips' \in [Procs -> SUBSET Zips] BY <1>2 DEF RsyncEnds
    <2> QED BY <1>2, <2>1, <2>2 DEF RsyncEnds
<1>3. ASSUME NEW p \in Procs, TurnStep(p) PROVE TypeOK'
    <2>1. CASE StartTurn(p)
        <3>1. turn[p] + 1 \in 0..Times BY <2>1 DEF StartTurn
        <3> QED BY <2>1, <3>1 DEF StartTurn
    <2>2. CASE SkipTurn(p)
        <3>1. turn[p] + 1 \in 0..Times BY <2>2 DEF SkipTurn
        <3> QED BY <2>2, <3>1 DEF SkipTurn
    <2>3. CASE Rsync(p)
        <3>1. StillThere(p) \in SUBSET Zips BY DEF StillThere
        <3> QED BY <1>2, <2>3, <3>1 DEF Rsync
    <2>4. CASE RsyncCutOff(p)
        <3>1. StillThere(p) \in SUBSET Zips BY DEF StillThere
        <3>2. cuts' \in Nat BY <2>4 DEF RsyncCutOff
        <3>3. PICK S \in SUBSET StillThere(p), a \in SUBSET StillThere(p) :
                 RsyncEnds(p, S, S \cup a)
            BY <2>4 DEF RsyncCutOff
        <3>4. S \in SUBSET Zips /\ S \cup a \in SUBSET Zips BY <3>1
        <3> QED BY <1>2, <3>2, <3>3, <3>4
    <2>5. CASE Unzip(p)
        <3>1. files[p] \in [Zips -> Nat] OBVIOUS
        <3>2. files' \in [Procs -> [Zips -> Nat]] BY <2>5, <3>1 DEF Unzip
        <3>3. analysis' \in [Zips -> Nat] BY <2>5 DEF Unzip
        <3> QED BY <2>5, <3>2, <3>3 DEF Unzip
    <2>6. CASE Aggregate(p)
        <3>1. files[p] \in [Zips -> Nat] OBVIOUS
        <3>2. agg' \in [Zips -> Nat] BY <2>6, <3>1 DEF Aggregate
        <3>3. done' \in [Zips -> Nat] BY <2>6 DEF Aggregate
        <3> QED BY <2>6, <3>2, <3>3 DEF Aggregate
    <2>7. CASE Unlock(p) BY <2>7 DEF Unlock
    <2> QED BY <1>3, <2>1, <2>2, <2>3, <2>4, <2>5, <2>6, <2>7 DEF TurnStep
<1>4. ASSUME NEW p \in Procs, Crash(p) PROVE TypeOK'
    BY <1>4 DEF Crash
<1>5. ASSUME NEW z \in Zips, BeginStore(z) \/ EndStore(z) \/ PurgeStaged(z) PROVE TypeOK'
    <2>1. source' \in [Zips -> Nat] /\ sent' \in [Zips -> Nat]
        <3>1. CASE BeginStore(z)
            <4>1. 2 * sent[z] + 1 \in Nat /\ sent[z] + 1 \in Nat OBVIOUS
            <4> QED BY <3>1, <4>1 DEF BeginStore
        <3>2. CASE EndStore(z) BY <3>2 DEF EndStore
        <3>3. CASE PurgeStaged(z) BY <3>3 DEF PurgeStaged
        <3> QED BY <1>5, <3>1, <3>2, <3>3
    <2>2. UNCHANGED <<lock, pc, found, turn, plan, zips, files, mirror, analysis, done, agg,
                      botched, cuts, crashes>>
        BY <1>5 DEF BeginStore, EndStore, PurgeStaged
    <2> QED BY <2>1, <2>2
<1>6. CASE UNCHANGED vars BY <1>6 DEF vars
<1> QED BY <1>1, <1>3, <1>4, <1>5, <1>6 DEF Next

LEMMA InitTypes ==
    ASSUME Init PROVE TypeOK
<1> USE SyncAssumption DEF Init
<1>1. /\ lock \in Procs \cup {NoPid} /\ botched \in BOOLEAN
      /\ pc \in [Procs -> Work \cup Over \cup {"read", "test", "link", "unlink", "relink"}]
      /\ found \in [Procs -> Procs \cup {NoPid}]
      /\ cuts \in Nat /\ crashes \in Nat
    BY DEF Work, Over
<1>2. /\ turn \in [Procs -> 0..Times]
      /\ plan \in [Procs -> SUBSET Zips] /\ zips \in [Procs -> SUBSET Zips]
      /\ files \in [Procs -> [Zips -> Nat]]
    OBVIOUS
<1>3. /\ source \in [Zips -> Nat] /\ sent \in [Zips -> Nat]
      /\ mirror \in [Zips -> Nat] /\ analysis \in [Zips -> Nat]
      /\ done \in [Zips -> Nat] /\ agg \in [Zips -> Nat]
    OBVIOUS
<1> QED BY <1>1, <1>2, <1>3 DEF TypeOK

\* The state of lock, processes and directories stays well-typed whatever the
\* number of processes and archives.
THEOREM SyncTypeCorrect == Spec => []TypeOK
<1> QED BY InitTypes, TypeInductive, PTL DEF Spec

-----------------------------------------------------------------------------
(* The lock.                                                                *)

\* What OneAtWork rests on: as long as no takeover went wrong the lock names
\* the process at work, and the owner a process found dead stays dead.
Owner == ~botched => \A p \in Procs : AtWork(p) => lock = p
FoundDead == \A p \in Procs : pc[p] = "unlink" =>
                 found[p] \in Procs /\ pc[found[p]] \in {"exit", "dead"}
FoundStarted == /\ lock # NoPid => pc[lock] # "none"
                /\ \A p \in Procs : pc[p] = "test" => found[p] \in Procs /\ pc[found[p]] # "none"
LockInv == TypeOK /\ Owner /\ FoundDead /\ FoundStarted

LEMMA LockInductive ==
    ASSUME LockInv, [Next]_vars PROVE LockInv'
<1> USE SyncAssumption DEF LockInv, TypeOK, Owner, FoundDead, FoundStarted, AtWork, Running,
            Go, Work, Over
<1>1. TypeOK' BY TypeInductive
<1>2. ASSUME NEW p \in Procs, LockStep(p)
      PROVE  Owner' /\ FoundDead' /\ FoundStarted'
    <2>1. CASE Start(p) BY <2>1 DEF Start, lockVars
    <2>2. CASE ReadLock(p) BY <2>2 DEF ReadLock
    <2>3. CASE MakeLock(p)
        <3>1. UNCHANGED <<found, botched>> /\ pc[p] = "link" BY <2>3 DEF MakeLock
        <3>2. CASE lock = NoPid
            <4>1. lock' = p /\ pc' = [pc EXCEPT ![p] = "turn"] BY <2>3, <3>2 DEF MakeLock
            <4> QED BY <3>1, <3>2, <4>1
        <3>3. CASE lock # NoPid
            <4>1. lock' = lock /\ pc' = [pc EXCEPT ![p] = "exit"] BY <2>3, <3>3 DEF MakeLock
            <4> QED BY <3>1, <4>1
        <3> QED BY <3>2, <3>3
    <2>4. CASE TestOwner(p) BY <2>4 DEF TestOwner, lockVars
    <2>5. CASE RemoveStaleLock(p) BY <2>5 DEF RemoveStaleLock
    <2>6. CASE RemakeLock(p) BY <2>6 DEF RemakeLock
    <2> QED BY <1>2, <2>1, <2>2, <2>3, <2>4, <2>5, <2>6 DEF LockStep
<1>3. ASSUME NEW p \in Procs, TurnStep(p)
      PROVE  Owner' /\ FoundDead' /\ FoundStarted'
    <2>1. CASE Unlock(p) BY <2>1 DEF Unlock
    <2>2. CASE SkipTurn(p) BY <2>2 DEF SkipTurn, lockVars
    <2>3. CASE StartTurn(p) \/ Rsync(p) \/ RsyncCutOff(p) \/ Unzip(p) \/ Aggregate(p)
        <3>1. /\ UNCHANGED lockVars
              /\ pc[p] \in Work
              /\ \E s \in Work : pc' = [pc EXCEPT ![p] = s]
            BY <2>3 DEF StartTurn, Rsync, RsyncCutOff, RsyncEnds, Unzip, Aggregate
        <3> QED BY <3>1 DEF lockVars
    <2> QED BY <1>3, <2>1, <2>2, <2>3 DEF TurnStep
<1>4. ASSUME NEW p \in Procs, Crash(p)
      PROVE  Owner' /\ FoundDead' /\ FoundStarted'
    BY <1>4 DEF Crash, lockVars
<1>5. ASSUME NEW z \in Zips, BeginStore(z) \/ EndStore(z) \/ PurgeStaged(z)
      PROVE  Owner' /\ FoundDead' /\ FoundStarted'
    BY <1>5 DEF BeginStore, EndStore, PurgeStaged, lockVars
<1>6. CASE UNCHANGED vars BY <1>1, <1>6 DEF vars
<1> QED BY <1>1, <1>2, <1>3, <1>4, <1>5, <1>6 DEF Next

\* However many sitesyncs are started, end or are killed at whatever moment:
\* two are at work at once only after a takeover that went wrong.
THEOREM TwoAtWorkOnlyAfterTakeover == Spec => []OneAtWork
<1>1. Init => LockInv
    BY InitTypes DEF Init, LockInv, Owner, FoundDead, FoundStarted, AtWork, Work
<1>2. LockInv => OneAtWork
    BY DEF LockInv, Owner, OneAtWork
<1> QED BY <1>1, <1>2, LockInductive, PTL DEF Spec

-----------------------------------------------------------------------------
(* The archives.                                                            *)

WholeCopy(z) == mirror[z] # 0 /\ mirror[z] % 2 = 0
ToBeUnzipped(z) == \E p \in Procs : pc[p] = "unzip" /\ z \in zips[p]

\* What is in the analysis area is what was copied, but for what a process has
\* been told of and has not extracted yet.
Extracted == \A z \in Zips : WholeCopy(z)
                => analysis[z] = mirror[z] \/ ToBeUnzipped(z) \/ crashes > 0
CopyInv == TypeOK /\ Extracted /\ CopiedIsAggregated

LEMMA RsyncCopies ==
    ASSUME CopyInv, NEW p \in Procs, NEW S, NEW R, S \subseteq R,
           RsyncEnds(p, S, R)
    PROVE  Extracted' /\ CopiedIsAggregated'
<1> SUFFICES ASSUME NEW z \in Zips, WholeCopy(z)'
             PROVE  /\ (analysis[z] = mirror[z] \/ ToBeUnzipped(z) \/ crashes > 0)'
                    /\ (done[z] = mirror[z] \/ OnItsWay(z) \/ crashes > 0)'
    BY DEF Extracted, CopiedIsAggregated, WholeCopy
<1>1. pc'[p] = "unzip" /\ pc[p] = "rsync" /\ \A q \in Procs \ {p} : pc'[q] = pc[q]
    BY DEF RsyncEnds, Go, CopyInv, TypeOK
<1>2. zips'[p] = zips[p] \cup R /\ \A q \in Procs \ {p} : zips'[q] = zips[q]
    BY DEF RsyncEnds, CopyInv, TypeOK
<1>3. UNCHANGED <<analysis, done, files, crashes>>
    BY DEF RsyncEnds
<1>4. CASE z \in S
    BY <1>1, <1>2, <1>4 DEF ToBeUnzipped, OnItsWay
<1>5. CASE z \notin S
    <2>1. mirror'[z] = mirror[z] /\ WholeCopy(z)
        BY <1>5 DEF RsyncEnds, WholeCopy
    <2>2. ToBeUnzipped(z) => ToBeUnzipped(z)'
        BY <1>1, <1>2 DEF ToBeUnzipped
    <2>3. OnItsWay(z) => OnItsWay(z)'
        BY <1>1, <1>2, <1>3 DEF OnItsWay
    <2> QED BY <1>3, <2>1, <2>2, <2>3 DEF CopyInv, Extracted, CopiedIsAggregated, WholeCopy
<1> QED BY <1>4, <1>5

LEMMA CopyInductive ==
    ASSUME CopyInv, [Next]_vars PROVE CopyInv'
<1>1. TypeOK' BY TypeInductive DEF CopyInv
<1>2. ASSUME UNCHANGED <<mirror, analysis, done, crashes, zips, files>>,
             \A q \in Procs : pc[q] \in {"unzip", "aggregate"} => pc'[q] = pc[q]
      PROVE  Extracted' /\ CopiedIsAggregated'
    BY <1>2 DEF CopyInv, Extracted, CopiedIsAggregated, WholeCopy, ToBeUnzipped, OnItsWay
<1>3. ASSUME NEW p \in Procs, LockStep(p) PROVE Extracted' /\ CopiedIsAggregated'
    <2>1. /\ UNCHANGED <<mirror, analysis, done, crashes, zips, files>>
          /\ pc[p] \notin {"unzip", "aggregate"}
          /\ \E s : pc' = [pc EXCEPT ![p] = s]
        BY <1>3 DEF LockStep, Start, ReadLock, MakeLock, TestOwner, RemoveStaleLock,
                    RemakeLock, Go, workVars, siteVars
    <2> QED BY <1>2, <2>1 DEF CopyInv, TypeOK
<1>4. ASSUME NEW p \in Procs, TurnStep(p) PROVE Extracted' /\ CopiedIsAggregated'
    <2>1. CASE StartTurn(p) \/ SkipTurn(p) \/ Unlock(p)
        <3>1. /\ UNCHANGED <<mirror, analysis, done, crashes, zips, files>>
              /\ pc[p] \notin {"unzip", "aggregate"}
              /\ pc' = pc \/ \E s : pc' = [pc EXCEPT ![p] = s]
            BY <2>1 DEF StartTurn, SkipTurn, Unlock, Go, workVars, siteVars
        <3> QED BY <1>2, <3>1 DEF CopyInv, TypeOK
    <2>2. CASE Rsync(p) BY <2>2, RsyncCopies DEF Rsync
    <2>3. CASE RsyncCutOff(p) BY <2>3, RsyncCopies DEF RsyncCutOff
    <2>4. CASE Unzip(p)
        <3> SUFFICES ASSUME NEW z \in Zips, WholeCopy(z)'
                     PROVE  /\ (analysis[z] = mirror[z] \/ ToBeUnzipped(z) \/ crashes > 0)'
                            /\ (done[z] = mirror[z] \/ OnItsWay(z) \/ crashes > 0)'
            BY DEF Extracted, CopiedIsAggregated, WholeCopy
        <3>1. /\ UNCHANGED <<mirror, done, zips, crashes>>
              /\ WholeCopy(z)
            BY <2>4 DEF Unzip, WholeCopy
        <3>2. /\ pc[p] = "unzip" /\ pc'[p] = "aggregate"
              /\ \A q \in Procs \ {p} : pc'[q] = pc[q] /\ files'[q] = files[q]
            BY <2>4 DEF Unzip, Go, CopyInv, TypeOK
        <3>3. CASE z \in zips[p]
            <4>1. analysis'[z] = mirror[z]
                BY <2>4, <3>1, <3>3 DEF Unzip, WholeCopy
            <4>2. files'[p][z] = files[p][z] + 1
                BY <2>4, <3>1, <3>3 DEF Unzip, WholeCopy, CopyInv, TypeOK
            <4>3. files'[p][z] > 0
                BY <4>2 DEF CopyInv, TypeOK
            <4> QED BY <3>1, <3>2, <4>1, <4>3 DEF OnItsWay
        <3>4. CASE z \notin zips[p]
            <4>1. analysis'[z] = analysis[z]
                BY <2>4, <3>4 DEF Unzip
            <4>2. ToBeUnzipped(z) => ToBeUnzipped(z)'
                BY <3>1, <3>2, <3>4 DEF ToBeUnzipped
            <4>3. OnItsWay(z) => OnItsWay(z)'
                BY <3>1, <3>2, <3>4 DEF OnItsWay
            <4> QED BY <3>1, <4>1, <4>2, <4>3
                    DEF CopyInv, Extracted, CopiedIsAggregated, WholeCopy
        <3> QED BY <3>3, <3>4
    <2>5. CASE Aggregate(p)
        <3> SUFFICES ASSUME NEW z \in Zips, WholeCopy(z)'
                     PROVE  /\ (analysis[z] = mirror[z] \/ ToBeUnzipped(z) \/ crashes > 0)'
                            /\ (done[z] = mirror[z] \/ OnItsWay(z) \/ crashes > 0)'
            BY DEF Extracted, CopiedIsAggregated, WholeCopy
        <3>1. /\ UNCHANGED <<mirror, analysis, files, crashes>>
              /\ WholeCopy(z)
            BY <2>5 DEF Aggregate, WholeCopy
        <3>2. /\ pc[p] = "aggregate" /\ pc'[p] = "turn"
              /\ \A q \in Procs \ {p} : pc'[q] = pc[q] /\ zips'[q] = zips[q]
            BY <2>5 DEF Aggregate, Go, CopyInv, TypeOK
        <3>3. ToBeUnzipped(z) => ToBeUnzipped(z)' /\ OnItsWay(z)'
            BY <3>2 DEF ToBeUnzipped, OnItsWay
        <3>4. CASE files[p][z] > 0
            <4>1. done'[z] = analysis[z] BY <2>5, <3>4 DEF Aggregate
            <4> QED BY <3>1, <3>3, <4>1 DEF CopyInv, Extracted, WholeCopy
        <3>5. CASE ~(files[p][z] > 0)
            <4>1. done'[z] = done[z] BY <2>5, <3>5 DEF Aggregate
            <4>2. OnItsWay(z) => OnItsWay(z)'
                BY <3>1, <3>2, <3>5 DEF OnItsWay
            <4> QED BY <3>1, <3>3, <4>1, <4>2
                    DEF CopyInv, Extracted, CopiedIsAggregated, WholeCopy
        <3> QED BY <3>4, <3>5
    <2> QED BY <1>4, <2>1, <2>2, <2>3, <2>4, <2>5 DEF TurnStep
<1>5. ASSUME NEW p \in Procs, Crash(p) PROVE Extracted' /\ CopiedIsAggregated'
    <2>1. crashes' > 0 BY <1>5 DEF Crash, CopyInv, TypeOK
    <2> QED BY <2>1 DEF Extracted, CopiedIsAggregated
<1>6. ASSUME NEW z \in Zips, BeginStore(z) \/ EndStore(z) \/ PurgeStaged(z)
      PROVE  Extracted' /\ CopiedIsAggregated'
    BY <1>2, <1>6 DEF BeginStore, EndStore, PurgeStaged, workVars, siteVars
<1>7. CASE UNCHANGED vars BY <1>1, <1>2, <1>7 DEF vars, CopyInv
<1> QED BY <1>1, <1>3, <1>4, <1>5, <1>6, <1>7 DEF CopyInv, Next

\* Whatever rsync copied, was cut off in, or the web service rewrote or purged,
\* in any number of processes: no whole copy is forgotten unless one was killed.
THEOREM NoCopyIsForgotten == Spec => []CopiedIsAggregated
<1>1. Init => CopyInv
    BY InitTypes DEF Init, CopyInv, Extracted, CopiedIsAggregated, WholeCopy
<1>2. CopyInv => CopiedIsAggregated BY DEF CopyInv
<1> QED BY <1>1, <1>2, CopyInductive, PTL DEF Spec

-----------------------------------------------------------------------------
(* How often a version is aggregated.                                       *)

\* A version is 2k - 1 while it is written and 2k when it is whole; rsync copies
\* none that is newer than the one the web server has.
Versions ==
    \A z \in Zips : /\ source[z] \in {0, 2 * sent[z] - 1, 2 * sent[z]}
                    /\ sent[z] = 0 => source[z] = 0
                    /\ mirror[z] <= 2 * sent[z]
                    /\ source[z] # 0 => mirror[z] <= source[z]

\* A process has nothing before its first turn, and no archives to unzip before
\* an rsync has reported them.
Fresh ==
    \A p \in Procs :
        /\ ~AtWork(p) /\ pc[p] \notin {"exit", "dead"} =>
              turn[p] = 0 /\ \A z \in Zips : files[p][z] = 0
        /\ pc[p] \notin {"unzip", "aggregate", "exit", "dead"} => zips[p] = {}
        /\ pc[p] \in {"rsync", "unzip", "aggregate"} => turn[p] > 0

\* What is planned has not been copied.
Planned ==
    ~botched => \A p \in Procs, z \in Zips :
        pc[p] = "rsync" /\ z \in plan[p] /\ source[z] # 0 => mirror[z] # source[z]

\* The whole versions of an archive that rsync has copied, or cannot copy any
\* more: all, unless the latest is still to come.
Fetched(z) == IF source[z] = 0 \/ mirror[z] = 2 * sent[z] THEN sent[z] ELSE sent[z] - 1

\* What the process at work may yet add: the files it has, and the one it is
\* about to extract, once in each of its turns to come.
Pending(p, z) == IF pc[p] = "unzip" /\ z \in zips[p] /\ WholeCopy(z) THEN 1 ELSE 0
Left(p) == IF pc[p] = "turn" THEN Times - turn[p] ELSE Times - turn[p] + 1
Debt(p, z) == (files[p][z] + Pending(p, z)) * Left(p)
Limit(z) == (Fetched(z) + cuts) * Times

\* All of it is covered by the versions fetched so far and the rsyncs cut off.
Charged ==
    ~botched => \A z \in Zips :
        /\ agg[z] <= Limit(z)
        /\ \A p \in Procs : AtWork(p) => agg[z] + Debt(p, z) <= Limit(z)

OnceInv == LockInv /\ Versions /\ Fresh /\ Planned /\ Charged

\* Products of what is counted and the turns.
LEMMA ProductLess ==
    ASSUME NEW a \in Nat, NEW b \in Nat, NEW n \in Nat, a <= b
    PROVE  a * n <= b * n
<1>1. (b - a) * n >= 0
    OBVIOUS
<1>2. (b - a) * n = b * n - a * n
    OBVIOUS
<1>3. a * n \in Nat /\ b * n \in Nat
    OBVIOUS
<1> QED BY <1>1, <1>2, <1>3

LEMMA ProductStep ==
    ASSUME NEW a \in Nat, NEW n \in Nat
    PROVE  /\ (a + 1) * n = a * n + n
           /\ a * (n + 1) = a * n + a
           /\ a * n \in Nat
OBVIOUS

LEMMA OnceTypes ==
    ASSUME TypeOK, Versions
    PROVE  /\ \A z \in Zips : /\ Fetched(z) \in Nat /\ Limit(z) \in Nat
                              /\ agg[z] \in Nat /\ sent[z] \in Nat /\ source[z] \in Nat
                              /\ mirror[z] \in Nat
                              /\ \A p \in Procs : files[p][z] \in Nat /\ Pending(p, z) \in {0, 1}
           /\ \A p \in Procs : turn[p] \in Nat /\ turn[p] <= Times /\ Left(p) \in Nat
           /\ cuts \in Nat /\ Times \in Nat
<1>1. Times \in Nat BY SyncAssumption
<1>2. ASSUME NEW z \in Zips
      PROVE  agg[z] \in Nat /\ sent[z] \in Nat /\ source[z] \in Nat /\ mirror[z] \in Nat
    BY DEF TypeOK
<1>3. ASSUME NEW z \in Zips PROVE Fetched(z) \in Nat /\ Limit(z) \in Nat
    <2>1. Fetched(z) \in Nat
        BY <1>2 DEF Versions, Fetched
    <2>2. cuts \in Nat BY DEF TypeOK
    <2>3. Fetched(z) + cuts \in Nat BY <2>1, <2>2
    <2> HIDE DEF Fetched
    <2> QED BY <1>1, <2>1, <2>3, ProductStep DEF Limit
<1>4. ASSUME NEW p \in Procs
      PROVE  /\ turn[p] \in Nat /\ turn[p] <= Times /\ Left(p) \in Nat
             /\ \A z \in Zips : files[p][z] \in Nat /\ Pending(p, z) \in {0, 1}
    BY <1>1 DEF TypeOK, Left, Pending
<1> QED BY <1>1, <1>2, <1>3, <1>4 DEF TypeOK

\* A new version does not make it fewer.
LEMMA WebKeepsOnce ==
    ASSUME OnceInv, NEW y \in Zips, BeginStore(y) \/ EndStore(y) \/ PurgeStaged(y)
    PROVE  Versions' /\ Fresh' /\ Planned' /\ Charged'
<1> USE DEF OnceInv, LockInv
<1>1. /\ UNCHANGED <<pc, botched, turn, plan, zips, files, mirror, agg, cuts>>
      /\ \A z \in Zips \ {y} : sent'[z] = sent[z] /\ source'[z] = source[z]
    BY DEF BeginStore, EndStore, PurgeStaged, lockVars, workVars, siteVars, TypeOK
<1>2. /\ source[y] \in Nat /\ sent[y] \in Nat /\ mirror[y] \in Nat
      /\ source[y] \in {0, 2 * sent[y] - 1, 2 * sent[y]}
      /\ mirror[y] <= 2 * sent[y]
    BY DEF TypeOK, Versions
<1>3. \/ sent'[y] = sent[y] + 1 /\ source'[y] = 2 * sent[y] + 1
      \/ sent'[y] = sent[y] /\ source[y] = 2 * sent[y] - 1 /\ source'[y] = 2 * sent[y]
      \/ sent'[y] = sent[y] /\ source'[y] = 0
    <2>1. CASE BeginStore(y) BY <2>1 DEF BeginStore, TypeOK
    <2>2. CASE EndStore(y)
        <3>1. source'[y] = source[y] + 1 /\ sent'[y] = sent[y] /\ source[y] % 2 = 1
            BY <2>2 DEF EndStore, TypeOK
        <3>2. source[y] = 2 * sent[y] - 1 BY <1>2, <3>1
        <3> QED BY <1>2, <3>1, <3>2
    <2>3. CASE PurgeStaged(y) BY <2>3 DEF PurgeStaged, TypeOK
    <2> QED BY <2>1, <2>2, <2>3
<1>4. Versions'
    <2> SUFFICES ASSUME NEW z \in Zips
                 PROVE  /\ source'[z] \in {0, 2 * sent'[z] - 1, 2 * sent'[z]}
                        /\ sent'[z] = 0 => source'[z] = 0
                        /\ mirror[z] <= 2 * sent'[z]
                        /\ source'[z] # 0 => mirror[z] <= source'[z]
        BY <1>1 DEF Versions
    <2>1. CASE z = y
        BY <1>2, <1>3, <2>1 DEF Versions
    <2>2. CASE z # y
        BY <1>1, <2>2 DEF Versions
    <2> QED BY <2>1, <2>2
<1>5. Fresh' BY <1>1 DEF Fresh, AtWork
<1>6. Planned'
    <2> SUFFICES ASSUME ~botched, NEW p \in Procs, NEW z \in Zips,
                        pc[p] = "rsync", z \in plan[p], source'[z] # 0
                 PROVE  mirror[z] # source'[z]
        BY <1>1 DEF Planned
    <2>1. CASE z = y
        <3>1. source[y] # 0 => mirror[y] <= source[y] BY DEF Versions
        <3> QED BY <1>2, <1>3, <2>1, <3>1
    <2>2. CASE z # y BY <1>1, <2>2 DEF Planned
    <2> QED BY <2>1, <2>2
<1>7. Charged'
    <2>1. \A z \in Zips : Fetched(z)' >= Fetched(z)
        <3> TAKE z \in Zips
        <3>1. CASE z = y
            <4>1. source[y] # 0 => mirror[y] <= source[y] /\ sent[y] > 0
                BY <1>2 DEF Versions
            <4> QED BY <1>1, <1>2, <1>3, <3>1, <4>1 DEF Fetched
        <3>2. CASE z # y
            <4>1. Fetched(z)' = Fetched(z) BY <1>1, <3>2 DEF Fetched
            <4> QED BY <4>1, OnceTypes
        <3> QED BY <3>1, <3>2
    <2>2. TypeOK' BY TypeInductive DEF Next
    <2>3. \A z \in Zips : Limit(z)' >= Limit(z)
        <3> TAKE z \in Zips
        <3>1. /\ Fetched(z) + cuts \in Nat /\ Fetched(z)' + cuts \in Nat
              /\ Fetched(z) + cuts <= Fetched(z)' + cuts /\ Times \in Nat
            <4>1. Fetched(z)' \in Nat
                <5>1. source'[z] \in Nat /\ sent'[z] \in Nat /\ sent'[z] = 0 => source'[z] = 0
                    BY <1>4, <2>2 DEF Versions, TypeOK
                <5> QED BY <5>1, <1>4, <2>2 DEF Fetched, Versions, TypeOK
            <4> QED BY <2>1, <4>1, OnceTypes
        <3>2. (Fetched(z) + cuts) * Times <= (Fetched(z)' + cuts) * Times
            BY <3>1, ProductLess
        <3> QED BY <1>1, <3>2 DEF Limit
    <2>4. \A p \in Procs, z \in Zips : Debt(p, z)' = Debt(p, z)
        BY <1>1 DEF Debt, Pending, Left, WholeCopy
    <2>5. \A z \in Zips : Limit(z)' \in Nat
        <3>1. \A z \in Zips : Limit(z)' \in Int
            <4>1. \A z \in Zips : Fetched(z)' \in Int /\ cuts' \in Int /\ Times \in Int
                BY <2>2, SyncAssumption DEF Fetched, TypeOK
            <4> QED BY <4>1 DEF Limit
        <3> QED BY <2>3, <3>1, OnceTypes
    <2>6. \A p \in Procs, z \in Zips : Debt(p, z) \in Nat /\ agg[z] \in Nat /\ Limit(z) \in Nat
        <3> TAKE p \in Procs, z \in Zips
        <3>1. files[p][z] + Pending(p, z) \in Nat /\ Left(p) \in Nat BY OnceTypes
        <3> QED BY <3>1, ProductStep, OnceTypes DEF Debt
    <2>7. AtWork(NoPid)' = AtWork(NoPid) /\ \A p \in Procs : AtWork(p)' = AtWork(p)
        BY <1>1 DEF AtWork
    <2> SUFFICES ASSUME ~botched, NEW z \in Zips
                 PROVE  /\ agg[z] <= Limit(z)'
                        /\ \A p \in Procs : AtWork(p) => agg[z] + Debt(p, z)' <= Limit(z)'
        BY <1>1, <2>7 DEF Charged
    <2>8. /\ agg[z] <= Limit(z)
          /\ \A p \in Procs : AtWork(p) => agg[z] + Debt(p, z) <= Limit(z)
        BY DEF Charged
    <2> HIDE DEF Debt, Limit
    <2>9. agg[z] \in Nat /\ Limit(z) \in Nat /\ Limit(z)' \in Nat /\ Limit(z)' >= Limit(z)
        BY <2>3, <2>5, <2>6, OnceTypes
    <2>10. ASSUME NEW p \in Procs, AtWork(p) PROVE agg[z] + Debt(p, z)' <= Limit(z)'
        <3>1. Debt(p, z)' = Debt(p, z) /\ Debt(p, z) \in Nat BY <2>4, <2>6
        <3>2. agg[z] + Debt(p, z) <= Limit(z) BY <2>8, <2>10
        <3> QED BY <2>9, <3>1, <3>2
    <2> QED BY <2>8, <2>9, <2>10
<1> QED BY <1>4, <1>5, <1>6, <1>7

\* Nor does a process that only its place and its turn change for.
LEMMA DebtTypes ==
    ASSUME TypeOK, Versions
    PROVE  \A p \in Procs, z \in Zips : Debt(p, z) \in Nat /\ files[p][z] * Left(p) \in Nat
<1> TAKE p \in Procs, z \in Zips
<1>1. files[p][z] \in Nat /\ Pending(p, z) \in {0, 1} /\ Left(p) \in Nat BY OnceTypes
<1>2. files[p][z] + Pending(p, z) \in Nat BY <1>1
<1> QED BY <1>1, <1>2, ProductStep DEF Debt

\* Only one process is at work, so it alone is to be looked at.
LEMMA AloneAtWork ==
    ASSUME LockInv, ~botched, NEW p \in Procs, NEW q \in Procs, AtWork(p), AtWork(q)
    PROVE  p = q
BY DEF LockInv, Owner

\* Taking the lock, leaving and being killed add nothing.
LEMMA ComingAndGoing ==
    ASSUME OnceInv, NEW p \in Procs, NEW s, pc' = [pc EXCEPT ![p] = s],
           UNCHANGED <<turn, plan, zips, files, source, sent, siteVars>>,
           botched => botched',
           \/ s \in {"exit", "dead"}
           \/ ~AtWork(p) /\ pc[p] \notin {"exit", "dead"} /\ (s \notin Work \/ s = "turn")
    PROVE  Versions' /\ Fresh' /\ Planned' /\ Charged'
<1> USE DEF OnceInv, LockInv
<1>1. /\ UNCHANGED <<mirror, agg, cuts>> /\ pc'[p] = s
      /\ \A q \in Procs \ {p} : pc'[q] = pc[q]
    BY DEF siteVars, TypeOK
<1>2. Versions' BY <1>1 DEF Versions
<1>3. Fresh'
    BY <1>1 DEF Fresh, AtWork, Work
<1>4. Planned'
    BY <1>1 DEF Planned, Work
<1>5. \A z \in Zips : Limit(z)' = Limit(z)
    BY <1>1 DEF Limit, Fetched
<1>6. ASSUME NEW q \in Procs, NEW z \in Zips, AtWork(q)', ~botched
      PROVE  agg[z] + Debt(q, z)' <= Limit(z)
    <2>1. CASE q # p
        <3>1. AtWork(q) /\ Debt(q, z)' = Debt(q, z)
            BY <1>1, <1>6, <2>1 DEF AtWork, Debt, Pending, Left, WholeCopy
        <3> QED BY <1>6, <3>1 DEF Charged
    <2>2. CASE q = p
        <3>1. s = "turn" /\ files[p][z] = 0 /\ ~AtWork(p)
            BY <1>1, <1>6, <2>2 DEF AtWork, Fresh, Work
        <3>2. files'[p][z] = 0 /\ Pending(p, z)' = 0 /\ Left(p)' \in Nat
            <4>1. Left(p)' = Times - turn[p] BY <1>1, <3>1 DEF Left
            <4> QED BY <1>1, <3>1, <4>1, OnceTypes DEF Pending
        <3>3. Debt(p, z)' = 0
            BY <3>2 DEF Debt
        <3>4. agg[z] <= Limit(z) /\ agg[z] \in Nat BY <1>6, OnceTypes DEF Charged
        <3> QED BY <2>2, <3>3, <3>4
    <2> QED BY <2>1, <2>2
<1>7. Charged'
    BY <1>1, <1>5, <1>6 DEF Charged
<1> QED BY <1>2, <1>3, <1>4, <1>7

\* A turn begins, or is skipped.
LEMMA TurnsKeepOnce ==
    ASSUME OnceInv, NEW p \in Procs, StartTurn(p) \/ SkipTurn(p)
    PROVE  Versions' /\ Fresh' /\ Planned' /\ Charged'
<1> USE DEF OnceInv, LockInv
<1>1. /\ UNCHANGED <<zips, files, source, sent, mirror, agg, cuts, botched>>
      /\ pc[p] = "turn" /\ pc'[p] \in {"turn", "rsync"}
      /\ \A q \in Procs \ {p} : pc'[q] = pc[q] /\ turn'[q] = turn[q] /\ plan'[q] = plan[q]
      /\ turn'[p] = turn[p] + 1
    BY DEF StartTurn, SkipTurn, Go, TypeOK, lockVars, webVars, siteVars
<1>2. pc'[p] = "rsync" => plan'[p] = {z \in Zips : source[z] \notin {0, mirror[z]}}
    BY DEF StartTurn, SkipTurn, TypeOK
<1>3. turn[p] \in Nat /\ Times \in Nat /\ turn[p] + 1 <= Times
    BY SyncAssumption DEF StartTurn, SkipTurn, TypeOK
<1>4. Versions' BY <1>1 DEF Versions
<1>5. Fresh'
    BY <1>1, <1>3 DEF Fresh, AtWork, Work
<1>6. Planned'
    BY <1>1, <1>2 DEF Planned
<1>7. \A z \in Zips : Limit(z)' = Limit(z)
    BY <1>1 DEF Limit, Fetched
<1>8. ASSUME NEW q \in Procs, NEW z \in Zips, AtWork(q)', ~botched
      PROVE  agg[z] + Debt(q, z)' <= Limit(z)
    <2>1. AtWork(q) BY <1>1, <1>8 DEF AtWork, Work
    <2>2. agg[z] + Debt(q, z) <= Limit(z) BY <1>8, <2>1 DEF Charged
    <2>3. CASE q # p
        <3>1. Debt(q, z)' = Debt(q, z)
            BY <1>1, <2>3 DEF Debt, Pending, Left, WholeCopy
        <3> QED BY <2>2, <3>1
    <2>4. CASE q = p
        <3>1. Pending(p, z) = 0 /\ Pending(p, z)' = 0 BY <1>1 DEF Pending
        <3>2. files'[p][z] = files[p][z] /\ files[p][z] \in Nat BY <1>1, OnceTypes
        <3>3. Left(p) = Times - turn[p] /\ Left(p) \in Nat BY <1>1, OnceTypes DEF Left
        <3>4. Debt(p, z) = files[p][z] * Left(p) /\ Debt(p, z)' = files[p][z] * Left(p)'
            BY <3>1, <3>2 DEF Debt
        <3>5. Left(p)' = Left(p) \/ Left(p)' + 1 = Left(p)
            BY <1>1, <1>3, <3>3 DEF Left
        <3>6. Left(p)' \in Nat BY <1>1, <1>3 DEF Left
        <3>7. Debt(p, z)' <= Debt(p, z)
            <4>1. CASE Left(p)' = Left(p)
                <5>1. Debt(p, z)' = Debt(p, z) BY <3>4, <4>1
                <5> QED BY <5>1, DebtTypes
            <4>2. CASE Left(p)' + 1 = Left(p)
                <5> DEFINE a == files[p][z]  n == Left(p)'
                <5>1. a \in Nat /\ n \in Nat BY <3>2, <3>6
                <5>2. Debt(p, z) = a * (n + 1) /\ Debt(p, z)' = a * n BY <3>4, <4>2
                <5> HIDE DEF a, n
                <5>3. a * (n + 1) = a * n + a /\ a * n \in Nat BY <5>1, ProductStep
                <5> QED BY <5>1, <5>2, <5>3
            <4> QED BY <3>5, <4>1, <4>2
        <3>8. Debt(p, z) \in Nat /\ Debt(p, z)' \in Nat /\ agg[z] \in Nat /\ Limit(z) \in Nat
            <4>1. files[p][z] * Left(p)' \in Nat BY <3>2, <3>6, ProductStep
            <4> QED BY <3>4, <4>1, DebtTypes, OnceTypes
        <3> QED BY <2>2, <2>4, <3>7, <3>8
    <2> QED BY <2>3, <2>4
<1>9. Charged'
    <2>1. ~botched => \A z \in Zips : agg[z] <= Limit(z) BY DEF Charged
    <2> QED BY <1>1, <1>7, <1>8, <2>1 DEF Charged
<1> QED BY <1>4, <1>5, <1>6, <1>9

\* What rsync reports is charged to the version it has fetched, or to its end.
LEMMA RsyncKeepsOnce ==
    ASSUME OnceInv, NEW p \in Procs, NEW S \in SUBSET StillThere(p), NEW R \in SUBSET Zips,
           RsyncEnds(p, S, R),
           \/ R = S /\ cuts' = cuts
           \/ cuts' = cuts + 1
    PROVE  Versions' /\ Fresh' /\ Planned' /\ Charged'
<1> USE DEF OnceInv, LockInv
<1>1. /\ UNCHANGED <<turn, plan, files, source, sent, agg, botched, lock>>
      /\ pc[p] = "rsync" /\ pc'[p] = "unzip"
      /\ \A q \in Procs \ {p} : pc'[q] = pc[q] /\ zips'[q] = zips[q]
      /\ zips'[p] = R
      /\ \A z \in Zips : mirror'[z] = IF z \in S THEN source[z]
                                      ELSE IF source[z] = 0 THEN 0 ELSE mirror[z]
    <2>1. zips[p] = {} BY DEF Fresh, RsyncEnds
    <2>2. zips'[p] = zips[p] \cup R /\ \A q \in Procs \ {p} : zips'[q] = zips[q]
        BY DEF RsyncEnds, TypeOK
    <2>3. pc'[p] = "unzip" /\ \A q \in Procs \ {p} : pc'[q] = pc[q]
        BY DEF RsyncEnds, Go, TypeOK
    <2> QED BY <2>1, <2>2, <2>3 DEF RsyncEnds, lockVars, webVars
<1>2. \A z \in Zips : z \in S => z \in plan[p] /\ source[z] # 0
    BY DEF StillThere
<1>3. ASSUME NEW z \in Zips
      PROVE  /\ source[z] \in Nat /\ sent[z] \in Nat /\ mirror[z] \in Nat
             /\ source[z] \in {0, 2 * sent[z] - 1, 2 * sent[z]}
             /\ mirror[z] <= 2 * sent[z] /\ (sent[z] = 0 => source[z] = 0)
             /\ (source[z] # 0 => mirror[z] <= source[z])
             /\ agg[z] \in Nat
    BY DEF TypeOK, Versions
<1>4. Versions'
    <2> SUFFICES ASSUME NEW z \in Zips
                 PROVE  /\ source[z] \in {0, 2 * sent[z] - 1, 2 * sent[z]}
                        /\ sent[z] = 0 => source[z] = 0
                        /\ mirror'[z] <= 2 * sent[z]
                        /\ source[z] # 0 => mirror'[z] <= source[z]
        BY <1>1 DEF Versions
    <2> QED BY <1>1, <1>3
<1>5. Fresh' BY <1>1 DEF Fresh, AtWork, Work
<1>6. Planned'
    <2> SUFFICES ASSUME ~botched, NEW q \in Procs, pc'[q] = "rsync" PROVE FALSE
        BY <1>1 DEF Planned
    <2>1. q # p /\ AtWork(q) /\ AtWork(p) BY <1>1 DEF AtWork, Work
    <2> QED BY <2>1, AloneAtWork
<1>7. Charged'
    <2> SUFFICES ASSUME ~botched, NEW z \in Zips
                 PROVE  /\ agg[z] <= Limit(z)'
                        /\ \A q \in Procs : AtWork(q)' => agg[z] + Debt(q, z)' <= Limit(z)'
        BY <1>1 DEF Charged
    <2> DEFINE before == Fetched(z) + cuts  after == Fetched(z)' + cuts'
    <2>1. AtWork(p) BY <1>1 DEF AtWork, Work
    <2>2. agg[z] <= Limit(z) /\ agg[z] + Debt(p, z) <= Limit(z) BY <2>1 DEF Charged
    <2>3. Times \in Nat /\ cuts \in Nat /\ cuts' \in Nat BY SyncAssumption DEF TypeOK
    <2>4. Fetched(z) \in Nat /\ Fetched(z)' \in Nat /\ Fetched(z)' >= Fetched(z)
        <3>1. CASE source[z] = 0
            BY <1>1, <1>3, <3>1 DEF Fetched
        <3>2. CASE source[z] # 0 /\ mirror[z] = 2 * sent[z]
            <4>1. mirror'[z] = 2 * sent[z]
                <5>1. source[z] = 2 * sent[z] BY <1>3, <3>2
                <5> QED BY <1>1, <3>2, <5>1
            <4> QED BY <1>1, <1>3, <3>2, <4>1 DEF Fetched
        <3>3. CASE source[z] # 0 /\ mirror[z] # 2 * sent[z]
            <4>1. sent[z] - 1 \in Nat BY <1>3, <3>3
            <4> QED BY <1>1, <1>3, <3>3, <4>1 DEF Fetched
        <3> QED BY <3>1, <3>2, <3>3
    <2>5. before \in Nat /\ after \in Nat /\ before <= after
        BY <2>3, <2>4
    <2>6. Limit(z) = before * Times /\ Limit(z)' = after * Times
        BY DEF Limit
    <2>7. before * Times \in Nat /\ after * Times \in Nat /\ before * Times <= after * Times
        <3> HIDE DEF before, after
        <3> QED BY <2>3, <2>5, ProductLess, ProductStep
    <2>8. ASSUME NEW q \in Procs, AtWork(q)'
          PROVE  agg[z] + Debt(q, z)' <= Limit(z)'
        <3>1. q = p
            <4> SUFFICES ASSUME q # p PROVE FALSE OBVIOUS
            <4>1. AtWork(q) BY <1>1, <2>8 DEF AtWork
            <4> QED BY <2>1, <4>1, AloneAtWork
        <3> DEFINE a == files[p][z]  n == Left(p)
        <3>2. Left(p)' = Left(p) /\ Left(p) \in Nat /\ Left(p) <= Times
            <4>1. turn[p] > 0 /\ turn[p] \in 0..Times BY <1>1 DEF Fresh, TypeOK
            <4> QED BY <1>1, <2>3, <4>1 DEF Left
        <3>3. Pending(p, z) = 0 /\ Pending(p, z)' \in {0, 1} BY <1>1 DEF Pending
        <3>4. a \in Nat /\ n \in Nat /\ n <= Times BY <3>2, OnceTypes
        <3>5. Debt(p, z) = a * n
            <4>1. a + 0 = a BY <3>4
            <4> QED BY <3>3, <4>1 DEF Debt
        <3>6. Debt(p, z)' = (a + Pending(p, z)') * n BY <1>1, <3>2 DEF Debt
        <3>7. (a + 1) * n = a * n + n /\ a * n \in Nat
            <4> HIDE DEF a, n
            <4> QED BY <3>4, ProductStep
        <3>8. CASE Pending(p, z)' = 0
            <4>1. Debt(p, z)' = a * n BY <3>4, <3>6, <3>8
            <4> HIDE DEF a, n, before, after
            <4> QED BY <1>3, <2>2, <2>6, <2>7, <3>1, <3>5, <3>7, <4>1
        <3>9. CASE Pending(p, z)' = 1
            <4>1. z \in R /\ mirror'[z] # 0 /\ mirror'[z] % 2 = 0
                BY <1>1, <3>9 DEF Pending, WholeCopy
            <4>2. before + 1 <= after
                <5>1. CASE cuts' = cuts + 1 BY <2>3, <2>4, <5>1
                <5>2. CASE R = S /\ cuts' = cuts
                    <6>1. /\ z \in plan[p] /\ source[z] # 0 /\ mirror'[z] = source[z]
                          /\ mirror[z] # source[z]
                        BY <1>1, <1>2, <4>1, <5>2 DEF Planned
                    <6>2. source[z] = 2 * sent[z]
                        <7>1. source[z] % 2 = 0 BY <4>1, <6>1
                        <7> QED BY <1>3, <6>1, <7>1
                    <6>3. Fetched(z) = sent[z] - 1 BY <6>1, <6>2 DEF Fetched
                    <6>4. Fetched(z)' = sent[z] BY <1>1, <6>1, <6>2 DEF Fetched
                    <6> QED BY <1>3, <2>3, <5>2, <6>3, <6>4
                <5> QED BY <5>1, <5>2
            <4>3. Debt(p, z)' = a * n + n BY <3>6, <3>7, <3>9
            <4>4. (before + 1) * Times = before * Times + Times
                <5> HIDE DEF before
                <5> QED BY <2>3, <2>5, ProductStep
            <4>5. (before + 1) * Times <= after * Times
                <5> HIDE DEF before, after
                <5>1. before + 1 \in Nat BY <2>5
                <5> QED BY <2>3, <2>5, <4>2, <5>1, ProductLess
            <4> HIDE DEF a, n, before, after
            <4> QED BY <1>3, <2>2, <2>3, <2>6, <2>7, <3>1, <3>4, <3>5, <3>7, <4>3, <4>4, <4>5
        <3> QED BY <3>3, <3>8, <3>9
    <2> HIDE DEF before, after
    <2> QED BY <1>3, <2>2, <2>6, <2>7, <2>8
<1> QED BY <1>4, <1>5, <1>6, <1>7

\* Extracting makes a file of what was to be extracted.
LEMMA UnzipKeepsOnce ==
    ASSUME OnceInv, NEW p \in Procs, Unzip(p)
    PROVE  Versions' /\ Fresh' /\ Planned' /\ Charged'
<1> USE DEF OnceInv, LockInv
<1>1. /\ UNCHANGED <<turn, plan, zips, source, sent, mirror, agg, cuts, botched>>
      /\ pc[p] = "unzip" /\ pc'[p] = "aggregate"
      /\ \A q \in Procs \ {p} : pc'[q] = pc[q] /\ files'[q] = files[q]
    BY DEF Unzip, Go, TypeOK, lockVars, webVars
<1>2. ASSUME NEW z \in Zips PROVE files'[p][z] = files[p][z] + Pending(p, z)
    <2>1. files[p][z] \in Nat BY DEF TypeOK
    <2>2. files'[p][z] = IF z \in zips[p] /\ WholeCopy(z) THEN files[p][z] + 1 ELSE files[p][z]
        BY DEF Unzip, TypeOK, WholeCopy
    <2> QED BY <1>1, <2>1, <2>2 DEF Pending
<1>3. Versions' BY <1>1 DEF Versions
<1>4. Fresh' BY <1>1 DEF Fresh, AtWork, Work
<1>5. Planned' BY <1>1 DEF Planned
<1>6. \A z \in Zips : Limit(z)' = Limit(z) BY <1>1 DEF Limit, Fetched
<1>7. ASSUME NEW q \in Procs, NEW z \in Zips PROVE Debt(q, z)' = Debt(q, z)
    <2>1. CASE q # p BY <1>1, <2>1 DEF Debt, Pending, Left, WholeCopy
    <2>2. CASE q = p
        <3>1. Pending(p, z)' = 0 /\ Left(p)' = Left(p) BY <1>1 DEF Pending, Left
        <3>2. Debt(p, z)' = (files'[p][z] + 0) * Left(p) BY <3>1 DEF Debt
        <3>3. files[p][z] + Pending(p, z) \in Nat BY OnceTypes
        <3>4. files'[p][z] + 0 = files[p][z] + Pending(p, z) BY <1>2, <3>3
        <3> QED BY <2>2, <3>2, <3>4 DEF Debt
    <2> QED BY <2>1, <2>2
<1>8. \A q \in Procs : AtWork(q)' => AtWork(q) BY <1>1 DEF AtWork, Work
<1>9. Charged' BY <1>1, <1>6, <1>7, <1>8 DEF Charged
<1> QED BY <1>3, <1>4, <1>5, <1>9

\* Aggregating pays for one turn.
LEMMA AggregateKeepsOnce ==
    ASSUME OnceInv, NEW p \in Procs, Aggregate(p)
    PROVE  Versions' /\ Fresh' /\ Planned' /\ Charged'
<1> USE DEF OnceInv, LockInv
<1>1. /\ UNCHANGED <<turn, plan, files, source, sent, mirror, cuts, botched>>
      /\ pc[p] = "aggregate" /\ pc'[p] = "turn" /\ zips'[p] = {}
      /\ \A q \in Procs \ {p} : pc'[q] = pc[q] /\ zips'[q] = zips[q]
      /\ \A z \in Zips : agg'[z] = agg[z] + files[p][z]
    BY DEF Aggregate, Go, TypeOK, lockVars, webVars
<1>2. Versions' BY <1>1 DEF Versions
<1>3. Fresh' BY <1>1 DEF Fresh, AtWork, Work
<1>4. Planned' BY <1>1 DEF Planned
<1>5. \A z \in Zips : Limit(z)' = Limit(z) BY <1>1 DEF Limit, Fetched
<1>6. AtWork(p) BY <1>1 DEF AtWork, Work
<1>7. ASSUME NEW z \in Zips, ~botched
      PROVE  agg'[z] <= Limit(z) /\ agg'[z] + Debt(p, z)' <= Limit(z)
    <2> DEFINE a == files[p][z]  n == Left(p)'
    <2>1. agg[z] + Debt(p, z) <= Limit(z) BY <1>6, <1>7 DEF Charged
    <2>2. a \in Nat /\ agg[z] \in Nat /\ Limit(z) \in Nat BY OnceTypes
    <2>3. n \in Nat /\ Left(p) = n + 1
        <3>1. turn[p] \in 0..Times /\ Times \in Nat BY SyncAssumption DEF TypeOK
        <3> QED BY <1>1, <3>1 DEF Left
    <2>4. Pending(p, z) = 0 /\ Pending(p, z)' = 0 BY <1>1 DEF Pending
    <2>5. a + 0 = a BY <2>2
    <2>6. Debt(p, z) = a * (n + 1) BY <2>3, <2>4, <2>5 DEF Debt
    <2>7. Debt(p, z)' = a * n BY <1>1, <2>4, <2>5 DEF Debt
    <2>8. agg'[z] = agg[z] + a BY <1>1
    <2> HIDE DEF a, n
    <2>9. a * (n + 1) = a * n + a /\ a * n \in Nat BY <2>2, <2>3, ProductStep
    <2> QED BY <2>1, <2>2, <2>6, <2>7, <2>8, <2>9
<1>8. ASSUME NEW q \in Procs, AtWork(q)', ~botched PROVE q = p
    <2> SUFFICES ASSUME q # p PROVE FALSE OBVIOUS
    <2>1. AtWork(q) BY <1>1, <1>8 DEF AtWork
    <2> QED BY <1>6, <1>8, <2>1, AloneAtWork
<1>9. Charged' BY <1>1, <1>5, <1>7, <1>8 DEF Charged
<1> QED BY <1>2, <1>3, <1>4, <1>9

LEMMA OnceInductive ==
    ASSUME OnceInv, [Next]_vars PROVE OnceInv'
<1>1. LockInv' BY LockInductive DEF OnceInv
<1> SUFFICES Versions' /\ Fresh' /\ Planned' /\ Charged'
    BY <1>1 DEF OnceInv
<1>2. ASSUME NEW p \in Procs, LockStep(p)
      PROVE  Versions' /\ Fresh' /\ Planned' /\ Charged'
    <2>1. /\ UNCHANGED <<turn, plan, zips, files, source, sent, siteVars>>
          /\ ~AtWork(p) /\ pc[p] \notin {"exit", "dead"}
          /\ \E s : pc' = [pc EXCEPT ![p] = s] /\ (s \notin Work \/ s = "turn")
        BY <1>2 DEF LockStep, Start, ReadLock, MakeLock, TestOwner, RemoveStaleLock,
                    RemakeLock, Go, workVars, webVars, AtWork, Work
    <2>2. botched => botched'
        BY <1>2 DEF LockStep, Start, ReadLock, MakeLock, TestOwner, RemoveStaleLock,
                    RemakeLock, lockVars
    <2> QED BY <2>1, <2>2, ComingAndGoing
<1>3. ASSUME NEW p \in Procs, TurnStep(p)
      PROVE  Versions' /\ Fresh' /\ Planned' /\ Charged'
    <2>1. CASE StartTurn(p) \/ SkipTurn(p) BY <2>1, TurnsKeepOnce
    <2>2. CASE Rsync(p)
        <3> DEFINE S == StillThere(p)
        <3>1. S \subseteq StillThere(p) /\ S \subseteq Zips
            <4>1. StillThere(p) \subseteq Zips BY DEF StillThere, OnceInv, LockInv, TypeOK
            <4> QED BY <4>1
        <3>2. RsyncEnds(p, S, S) /\ cuts' = cuts BY <2>2 DEF Rsync
        <3> HIDE DEF S
        <3> QED BY <3>1, <3>2, RsyncKeepsOnce
    <2>3. CASE RsyncCutOff(p)
        <3>1. PICK S \in SUBSET StillThere(p), a \in SUBSET StillThere(p) :
                 RsyncEnds(p, S, S \cup a)
            BY <2>3 DEF RsyncCutOff
        <3> DEFINE R == S \cup a
        <3>2. RsyncEnds(p, S, R) BY <3>1
        <3>3. cuts' = cuts + 1 BY <2>3 DEF RsyncCutOff
        <3>4. R \subseteq Zips BY <3>1 DEF StillThere, OnceInv, LockInv, TypeOK
        <3> HIDE DEF R
        <3> QED BY <3>2, <3>3, <3>4, RsyncKeepsOnce
    <2>4. CASE Unzip(p) BY <2>4, UnzipKeepsOnce
    <2>5. CASE Aggregate(p) BY <2>5, AggregateKeepsOnce
    <2>6. CASE Unlock(p)
        BY <2>6, ComingAndGoing DEF Unlock, Go, workVars, webVars
    <2> QED BY <1>3, <2>1, <2>2, <2>3, <2>4, <2>5, <2>6 DEF TurnStep
<1>4. ASSUME NEW p \in Procs, Crash(p)
      PROVE  Versions' /\ Fresh' /\ Planned' /\ Charged'
    BY <1>4, ComingAndGoing DEF Crash, Go, lockVars, workVars, webVars
<1>5. ASSUME NEW z \in Zips, BeginStore(z) \/ EndStore(z) \/ PurgeStaged(z)
      PROVE  Versions' /\ Fresh' /\ Planned' /\ Charged'
    BY <1>5, WebKeepsOnce
<1>6. CASE UNCHANGED vars
    <2>1. \A z \in Zips : Limit(z)' = Limit(z) BY <1>6 DEF vars, Limit, Fetched
    <2>2. \A p \in Procs, z \in Zips : Debt(p, z)' = Debt(p, z)
        BY <1>6 DEF vars, Debt, Pending, Left, WholeCopy
    <2> QED BY <1>6, <2>1, <2>2 DEF OnceInv, vars, Versions, Fresh, Planned, Charged, AtWork
<1> QED BY <1>2, <1>3, <1>4, <1>5, <1>6 DEF Next

\* Whatever is sent again while it is copied, in however many turns, and however
\* many processes are killed: only cut-off rsyncs have a version aggregated more
\* often than a process has turns.
THEOREM NoVersionTooOften == Spec => []AggregatedOncePerTurn
<1>1. Init => OnceInv
    <2> SUFFICES ASSUME Init PROVE OnceInv OBVIOUS
    <2>1. LockInv
        BY InitTypes DEF Init, LockInv, Owner, FoundDead, FoundStarted, AtWork, Work
    <2>2. \A p \in Procs : ~AtWork(p) /\ pc[p] = "none" BY DEF Init, AtWork, Work
    <2>3. Versions
        <3> SUFFICES ASSUME NEW z \in Zips
                     PROVE  /\ source[z] \in {0, 2 * sent[z] - 1, 2 * sent[z]}
                            /\ sent[z] = 0 => source[z] = 0
                            /\ mirror[z] <= 2 * sent[z]
                            /\ source[z] # 0 => mirror[z] <= source[z]
            BY DEF Versions
        <3> QED BY DEF Init
    <2>4. Fresh /\ Planned BY <2>2 DEF Init, Fresh, Planned
    <2>5. \A z \in Zips : agg[z] = 0 /\ Limit(z) \in Nat
        BY <2>1, <2>3, OnceTypes DEF Init, LockInv
    <2>6. Charged
        <3> HIDE DEF Limit
        <3> QED BY <2>2, <2>5 DEF Charged
    <2> QED BY <2>1, <2>3, <2>4, <2>6 DEF OnceInv
<1>2. OnceInv => AggregatedOncePerTurn
    <2> SUFFICES ASSUME OnceInv, ~botched, NEW z \in Zips
                 PROVE  agg[z] <= (sent[z] + cuts) * Times
        BY DEF AggregatedOncePerTurn
    <2> USE DEF OnceInv, LockInv
    <2>1. /\ Fetched(z) \in Nat /\ sent[z] \in Nat /\ cuts \in Nat /\ Times \in Nat
          /\ agg[z] \in Nat /\ Limit(z) \in Nat
        BY OnceTypes
    <2>2. Fetched(z) <= sent[z] BY <2>1 DEF Fetched
    <2>3. agg[z] <= Limit(z) /\ Limit(z) = (Fetched(z) + cuts) * Times BY DEF Charged, Limit
    <2>4. Fetched(z) + cuts \in Nat /\ sent[z] + cuts \in Nat /\ Fetched(z) + cuts <= sent[z] + cuts
        BY <2>1, <2>2
    <2> DEFINE b == sent[z] + cuts
    <2>5. Limit(z) <= b * Times
        <3> DEFINE a == Fetched(z) + cuts
        <3>1. a \in Nat /\ b \in Nat /\ a <= b BY <2>4
        <3>2. Limit(z) = a * Times BY <2>3
        <3> HIDE DEF a, b
        <3>3. a * Times <= b * Times BY <2>1, <3>1, ProductLess
        <3> QED BY <3>2, <3>3
    <2>6. b * Times \in Nat
        <3>1. b \in Nat BY <2>4
        <3> HIDE DEF b
        <3> QED BY <2>1, <3>1, ProductStep
    <2>7. agg[z] <= b * Times
        <3> HIDE DEF b, Limit
        <3> QED BY <2>1, <2>3, <2>5, <2>6
    <2> QED BY <2>7
<1> QED BY <1>1, <1>2, OnceInductive, PTL DEF Spec

=============================================================================
