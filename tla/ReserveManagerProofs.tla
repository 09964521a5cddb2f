------------------------ MODULE ReserveManagerProofs ------------------------
(***************************************************************************)
(* Proof that unsynchronised threads overrun the limit of the reservation  *)
(* table by a bounded number of entries, for every number of threads, keys *)
(* and places, provided the map itself is sound.                           *)
(***************************************************************************)
EXTENDS ReserveManager, FiniteSetTheorems, TLAPS

\* What makes OvershootBounded inductive: the counter counts, and an iterator
\* that would not fail stands on an entry.
IInv ==
    /\ TypeOK
    /\ IsFiniteSet(reserves)
    /\ size = Cardinality(reserves)
    /\ purger = "sweep" /\ ~modified => cursor \in reserves
    /\ OvershootBounded

\* Threads about to put are threads: there are finitely many.
LEMMA PuttingFinite ==
    /\ IsFiniteSet(Putting)
    /\ Cardinality(Putting) \in Nat
    /\ Cardinality(Threads) \in Nat \ {0}
    /\ Cardinality(Putting) <= Cardinality(Threads)
<1>1. Putting \subseteq Threads
  BY DEF Putting
<1>2. IsFiniteSet(Threads) /\ Threads # {}
  BY ReserveAssumption
<1>3. QED
  BY <1>1, <1>2, FS_Subset, FS_CardinalityType, FS_EmptySet

\* Whatever a racing write does, the table holds keys and the counter counts.
LEMMA WriteTypes ==
    ASSUME TypeOK, NEW S \in SUBSET Keys, NEW n \in Int, NEW o, Write(S, n, o)
    PROVE  reserves' \subseteq Keys /\ size' \in Int
BY DEF Write, TypeOK

\* The reservation table starts well-typed.
LEMMA TypeInit == ASSUME Init PROVE TypeOK
<1>1. reserves \subseteq Keys /\ size \in Int
  BY DEF Init
<1>2. call \in [Threads -> Calls] /\ arg \in [Threads -> Keys \cup {NoKey}]
  BY DEF Init, Calls
<1>3. \A t \in Threads : call[t] # "none" => arg[t] \in Keys
  BY DEF Init
<1>4. purger = "sleep" /\ cursor = NoKey /\ modified \in BOOLEAN
  BY DEF Init
<1>5. QED
  BY <1>1, <1>2, <1>3, <1>4 DEF TypeOK

\* Every step keeps it well-typed, however racy its map is.
LEMMA TypeStep == ASSUME TypeOK, [Next]_vars PROVE TypeOK'
<1>1. ASSUME NEW t \in Threads, NEW k \in Keys, RegistCheck(t, k) PROVE TypeOK'
  BY <1>1 DEF RegistCheck, tableVars, purgeVars, TypeOK, Calls
<1>2. ASSUME NEW t \in Threads, NEW k \in Keys, RemoveStart(t, k) PROVE TypeOK'
  BY <1>2 DEF RemoveStart, tableVars, purgeVars, TypeOK, Calls
<1>3. ASSUME NEW t \in Threads, RegistPut(t) PROVE TypeOK'
  <2>1. arg[t] \in Keys
    BY <1>3 DEF RegistPut, TypeOK
  <2>2. reserves' \subseteq Keys /\ size' \in Int /\ modified' \in BOOLEAN
    <3>1. CASE arg[t] \in reserves
      BY <1>3, <3>1 DEF RegistPut, tableVars, TypeOK
    <3>2. CASE arg[t] \notin reserves
      BY <1>3, <2>1, <3>2, WriteTypes DEF RegistPut, TypeOK
    <3>3. QED
      BY <3>1, <3>2
  <2>3. QED
    BY <1>3, <2>1, <2>2 DEF RegistPut, purgeVars, TypeOK, Calls
<1>4. ASSUME NEW t \in Threads, RemoveEnd(t) PROVE TypeOK'
  <2>1. reserves' \subseteq Keys /\ size' \in Int /\ modified' \in BOOLEAN
    <3>1. CASE arg[t] \notin reserves
      BY <1>4, <3>1 DEF RemoveEnd, tableVars, TypeOK
    <3>2. CASE arg[t] \in reserves
      BY <1>4, <3>2, WriteTypes DEF RemoveEnd, TypeOK
    <3>3. QED
      BY <3>1, <3>2
  <2>2. QED
    BY <1>4, <2>1 DEF RemoveEnd, purgeVars, TypeOK, Calls
<1>5. CASE SweepStart
  BY <1>5 DEF SweepStart, tableVars, purgeVars, TypeOK
<1>6. CASE SweepFails
  BY <1>6 DEF SweepFails, tableVars, TypeOK
<1>7. CASE SweepRemoves
  <2>1. reserves' \subseteq Keys /\ size' \in Int
    <3>1. Write(reserves \ {cursor}, size - 1, \E t \in Threads : call[t] # "none")
      BY <1>7 DEF SweepRemoves
    <3>2. reserves \ {cursor} \in SUBSET Keys /\ size - 1 \in Int
      BY DEF TypeOK
    <3>3. QED
      BY <3>1, <3>2 DEF Write, TypeOK
  <2>2. QED
    BY <1>7, <2>1 DEF SweepRemoves, TypeOK
<1>8. CASE UNCHANGED vars
  BY <1>8 DEF vars, TypeOK
<1>9. QED
  BY <1>1, <1>2, <1>3, <1>4, <1>5, <1>6, <1>7, <1>8 DEF Next, ThreadStep, Sweep

\* The type invariant of the reservation table, whatever the data race on the
\* HashMap does to its entries and its counter.
THEOREM ReserveTypeCorrect == Spec => []TypeOK
<1>1. Init => TypeOK
  BY TypeInit
<1>2. TypeOK /\ [Next]_vars => TypeOK'
  BY TypeStep
<1>3. QED
  BY <1>1, <1>2, PTL DEF Spec

-----------------------------------------------------------------------------
\* A put that is over: one thread fewer is about to put.
LEMMA PutLeaves ==
    ASSUME TypeOK, NEW t \in Threads, call[t] = "put",
           call' = [call EXCEPT ![t] = "none"]
    PROVE  Cardinality(Putting') = Cardinality(Putting) - 1
<1>1. t \in Putting
  BY DEF Putting
<1>2. Putting' = Putting \ {t}
  BY DEF Putting, TypeOK
<1>3. QED
  BY <1>1, <1>2, PuttingFinite, FS_RemoveElement

\* The same bounds after a step.
LEMMA PuttingFinitePrime ==
    /\ Cardinality(Putting') \in Nat
    /\ Cardinality(Putting') <= Cardinality(Threads)
<1>1. Putting' \subseteq Threads
  BY DEF Putting
<1>2. QED
  BY <1>1, ReserveAssumption, FS_Subset, FS_CardinalityType

\* An entry that leaves takes its count with it and makes room.
LEMMA EntryLeaves ==
    ASSUME IInv, NEW k \in reserves, Putting' = Putting,
           reserves' = reserves \ {k}, size' = size - 1
    PROVE  IsFiniteSet(reserves') /\ size' = Cardinality(reserves') /\ OvershootBounded'
<1>1. IsFiniteSet(reserves') /\ Cardinality(reserves') = Cardinality(reserves) - 1
  BY FS_RemoveElement DEF IInv
<1>2. Cardinality(reserves) \in Nat /\ Cardinality(Putting) \in Nat
  BY PuttingFinite, FS_CardinalityType DEF IInv
<1>3. size' = Cardinality(reserves')
  BY <1>1 DEF IInv
<1>4. OvershootBounded'
  <2>1. Cardinality(Threads) \in Nat /\ MaxServers \in Nat
    BY ReserveAssumption, FS_CardinalityType
  <2>2. Cardinality(reserves) + Cardinality(Putting) <= MaxServers + Cardinality(Threads) - 1
    BY DEF IInv, OvershootBounded
  <2>3. Cardinality(reserves') + Cardinality(Putting) <= MaxServers + Cardinality(Threads) - 1
    BY <1>1, <1>2, <2>1, <2>2
  <2> QED BY <2>3 DEF OvershootBounded
<1> QED BY <1>1, <1>3, <1>4

\* With a sound map, the table overruns its limit by at most one entry per
\* further thread: regist's test and its put may be split by any number of
\* other requests and purges, but each thread carries at most one stale
\* answer of the test.
THEOREM OvershootIsBounded == AtomicMap => (Spec => []OvershootBounded)
<1> SUFFICES ASSUME AtomicMap PROVE Spec => []OvershootBounded
  OBVIOUS
<1>1. ASSUME Init PROVE IInv
  <2>1. reserves = {} /\ size = 0 /\ purger = "sleep" /\ Putting = {}
    BY <1>1 DEF Init, Putting
  <2>2. IsFiniteSet(reserves) /\ Cardinality(reserves) = 0
    BY <2>1, FS_EmptySet
  <2>3. OvershootBounded
    BY <2>1, <2>2, FS_EmptySet, PuttingFinite, ReserveAssumption DEF OvershootBounded
  <2>4. TypeOK
    BY <1>1, TypeInit
  <2>5. QED
    BY <2>1, <2>2, <2>3, <2>4 DEF IInv
<1>2. IInv /\ [Next]_vars => IInv'
  <2> SUFFICES ASSUME IInv, [Next]_vars PROVE IInv'
    OBVIOUS
  <2>0. TypeOK'
    BY TypeStep DEF IInv
  <2>1. ASSUME NEW t \in Threads, NEW k \in Keys, RegistCheck(t, k) PROVE IInv'
    <3>1. reserves' = reserves /\ size' = size /\ purger' = purger
            /\ modified' = modified /\ cursor' = cursor
      BY <2>1 DEF RegistCheck, tableVars, purgeVars
    <3>2. Cardinality(reserves) <= MaxServers - 1
      <4>1. Cardinality(reserves) < MaxServers
        BY <2>1 DEF RegistCheck, IInv
      <4>2. Cardinality(reserves) \in Nat
        BY FS_CardinalityType DEF IInv
      <4>3. QED
        BY <4>1, <4>2, ReserveAssumption
    <3>3. Cardinality(Putting') <= Cardinality(Threads) /\ Cardinality(Putting') \in Nat
      BY PuttingFinitePrime
    <3>4. OvershootBounded'
      BY <3>1, <3>2, <3>3, PuttingFinite, ReserveAssumption, FS_CardinalityType
         DEF OvershootBounded, IInv
    <3>5. QED
      BY <2>0, <3>1, <3>4 DEF IInv
  <2>2. ASSUME NEW t \in Threads, NEW k \in Keys, RemoveStart(t, k) PROVE IInv'
    <3>1. reserves' = reserves /\ size' = size /\ purger' = purger
            /\ modified' = modified /\ cursor' = cursor
      BY <2>2 DEF RemoveStart, tableVars, purgeVars
    <3>2. Putting' = Putting
      BY <2>2 DEF RemoveStart, Putting, IInv, TypeOK
    <3>3. QED
      BY <2>0, <3>1, <3>2 DEF IInv, OvershootBounded
  <2>3. ASSUME NEW t \in Threads, RegistPut(t) PROVE IInv'
    <3>1. Cardinality(Putting') = Cardinality(Putting) - 1
      BY <2>3, PutLeaves DEF RegistPut, IInv
    <3>2. purger' = purger /\ cursor' = cursor
      BY <2>3 DEF RegistPut, purgeVars
    <3>3. CASE arg[t] \in reserves
      <4>1. reserves' = reserves /\ size' = size /\ modified' = modified
        BY <2>3, <3>3 DEF RegistPut, tableVars
      <4>2. OvershootBounded'
        BY <3>1, <4>1, PuttingFinite, FS_CardinalityType, ReserveAssumption
           DEF OvershootBounded, IInv
      <4>3. QED
        BY <2>0, <3>2, <4>1, <4>2 DEF IInv
    <3>4. CASE arg[t] \notin reserves
      <4>1. reserves' = reserves \cup {arg[t]} /\ size' = size + 1 /\ modified' = TRUE
        BY <2>3, <3>4 DEF RegistPut, Write
      <4>2. IsFiniteSet(reserves') /\ Cardinality(reserves') = Cardinality(reserves) + 1
        BY <3>4, <4>1, FS_AddElement DEF IInv
      <4>3. OvershootBounded'
        BY <3>1, <4>2, PuttingFinite, FS_CardinalityType, ReserveAssumption
           DEF OvershootBounded, IInv
      <4>4. QED
        BY <2>0, <4>1, <4>2, <4>3 DEF IInv
    <3>5. QED
      BY <3>3, <3>4
  <2>4. ASSUME NEW t \in Threads, RemoveEnd(t) PROVE IInv'
    <3>1. Putting' = Putting
      BY <2>4 DEF RemoveEnd, Putting, IInv, TypeOK
    <3>2. purger' = purger /\ cursor' = cursor
      BY <2>4 DEF RemoveEnd, purgeVars
    <3>3. CASE arg[t] \notin reserves
      <4>1. reserves' = reserves /\ size' = size /\ modified' = modified
        BY <2>4, <3>3 DEF RemoveEnd, tableVars
      <4>2. QED
        BY <2>0, <3>1, <3>2, <4>1 DEF IInv, OvershootBounded
    <3>4. CASE arg[t] \in reserves
      <4>1. reserves' = reserves \ {arg[t]} /\ size' = size - 1 /\ modified' = TRUE
        BY <2>4, <3>4 DEF RemoveEnd, Write
      <4>2. QED
        BY <2>0, <3>1, <3>4, <4>1, EntryLeaves DEF IInv
    <3>5. QED
      BY <3>3, <3>4
  <2>5. CASE SweepStart
    <3>1. reserves' = reserves /\ size' = size /\ Putting' = Putting
      BY <2>5 DEF SweepStart, tableVars, Putting
    <3>2. purger' = "sweep" /\ ~modified' => cursor' \in reserves'
      BY <2>5, <3>1 DEF SweepStart, purgeVars
    <3>3. QED
      BY <2>0, <3>1, <3>2 DEF IInv, OvershootBounded
  <2>6. CASE SweepFails
    <3>1. reserves' = reserves /\ size' = size /\ Putting' = Putting /\ purger' = "dead"
      BY <2>6 DEF SweepFails, tableVars, Putting
    <3>2. QED
      BY <2>0, <3>1 DEF IInv, OvershootBounded
  <2>7. CASE SweepRemoves
    <3>1. cursor \in reserves /\ purger' # "sweep" /\ Putting' = Putting
      BY <2>7 DEF SweepRemoves, IInv, Putting
    <3>2. reserves' = reserves \ {cursor} /\ size' = size - 1
      BY <2>7 DEF SweepRemoves, Write
    <3>3. QED
      BY <2>0, <3>1, <3>2, EntryLeaves DEF IInv
  <2>8. CASE UNCHANGED vars
    <3>1. reserves' = reserves /\ size' = size /\ Putting' = Putting /\ purger' = purger
            /\ modified' = modified /\ cursor' = cursor
      BY <2>8 DEF vars, Putting
    <3>2. QED
      BY <2>0, <3>1 DEF IInv, OvershootBounded
  <2>9. QED
    BY <2>1, <2>2, <2>3, <2>4, <2>5, <2>6, <2>7, <2>8 DEF Next, ThreadStep, Sweep
<1>3. IInv => OvershootBounded
  BY DEF IInv
<1>4. QED
  BY <1>1, <1>2, <1>3, PTL DEF Spec
=============================================================================
