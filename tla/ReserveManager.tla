--------------------------- MODULE ReserveManager ---------------------------
(***************************************************************************)
(* The reservation table of the web service (getperf-ws,                   *)
(* ReserveManager.java): a static HashMap from staging keys to staging     *)
(* file descriptions, shared without synchronisation by the servlet        *)
(* threads that serve reserveSender and sendData, and by one purge thread  *)
(* that is started once and never restarted.                               *)
(*                                                                         *)
(* The values of the map are never read, so the table is the set of its    *)
(* keys next to the size counter the HashMap keeps of its own.             *)
(***************************************************************************)
EXTENDS Integers, FiniteSets

CONSTANTS
    Threads,    \* the servlet threads that call regist and remove
    Keys,       \* staging keys, site__host__stat
    NoKey,      \* not a key
    MaxServers, \* GETPERF_WS_MAX_SERVERS
    AtomicMap   \* FALSE: the HashMap as it is; TRUE: as if each call were atomic

ASSUME ReserveAssumption ==
    /\ IsFiniteSet(Threads) /\ Threads # {}
    /\ NoKey \notin Keys
    /\ MaxServers \in Nat \ {0}
    /\ AtomicMap \in BOOLEAN

VARIABLES
    reserves,  \* keys reachable in the hash table
    size,      \* the size field of the HashMap
    call,      \* call[t]: what thread t is inside of
    arg,       \* arg[t]: the key of that call
    purger,    \* state of the purge thread
    cursor,    \* entry the purge thread's iterator returns next
    modified   \* the table changed since that iterator was made

tableVars == <<reserves, size>>
purgeVars == <<purger, cursor>>
vars == <<reserves, size, call, arg, purger, cursor, modified>>

Calls == {"none", "put", "remove"}

TypeOK ==
    /\ reserves \subseteq Keys
    /\ size \in Int
    /\ call \in [Threads -> Calls]
    /\ arg \in [Threads -> Keys \cup {NoKey}]
    /\ \A t \in Threads : call[t] # "none" => arg[t] \in Keys
    /\ purger \in {"sleep", "sweep", "dead"}
    /\ cursor \in Keys \cup {NoKey}
    /\ purger = "sweep" => cursor \in Keys
    /\ modified \in BOOLEAN

Init ==
    /\ reserves = {}
    /\ size = 0
    /\ call = [t \in Threads |-> "none"]
    /\ arg = [t \in Threads |-> NoKey]
    /\ purger = "sleep"
    /\ cursor = NoKey
    /\ modified = FALSE

-----------------------------------------------------------------------------
(* Changes of the unsynchronised HashMap.                                   *)

\* Someone else than t is inside a call that writes the table.
Overlapped(t) ==
    \/ \E u \in Threads \ {t} : call[u] # "none"
    \/ purger = "sweep"

\* The table becomes S and its counter n. A write that overlaps another one
\* may be undone by it (a bucket link overwritten) or lose its counter update.
Write(S, n, overlapped) ==
    IF AtomicMap \/ ~overlapped
    THEN reserves' = S /\ size' = n
    ELSE reserves' \in {reserves, S} /\ size' \in {size, n}

-----------------------------------------------------------------------------
(* regist: the test and the put are separate calls on the map.              *)

\* The call starts without noting the key it is about.
RegistCheckForgetsKey(t, k) ==
    /\ call[t] = "none"
    /\ k \notin reserves
    /\ size < MaxServers
    /\ call' = [call EXCEPT ![t] = "put"]
    /\ UNCHANGED <<arg, tableVars, purgeVars, modified>>

\* The limit is tested with the wrong comparison.
RegistCheckNoLimit(t, k) ==
    /\ call[t] = "none"
    /\ k \notin reserves
    /\ size <= MaxServers
    /\ call' = [call EXCEPT ![t] = "put"]
    /\ arg' = [arg EXCEPT ![t] = k]
    /\ UNCHANGED <<tableVars, purgeVars, modified>>

\* regist up to its decision: a key already there is accepted as it stands,
\* a full table refuses, and otherwise the thread goes on to the put.
RegistCheck(t, k) ==
    /\ call[t] = "none"
    /\ k \notin reserves
    /\ size < MaxServers
    /\ call' = [call EXCEPT ![t] = "put"]
    /\ arg' = [arg EXCEPT ![t] = k]
    /\ UNCHANGED <<tableVars, purgeVars, modified>>

\* The put of regist; a key another thread added meanwhile is only replaced.
RegistPut(t) ==
    /\ call[t] = "put"
    /\ IF arg[t] \in reserves
       THEN UNCHANGED <<tableVars, modified>>
       ELSE /\ Write(reserves \cup {arg[t]}, size + 1, Overlapped(t))
            /\ modified' = TRUE
    /\ call' = [call EXCEPT ![t] = "none"]
    /\ UNCHANGED <<arg, purgeVars>>

\* remove is entered: sendData releases the key of the file it was sent,
\* whether it was reserved or not.
RemoveStart(t, k) ==
    /\ call[t] = "none"
    /\ call' = [call EXCEPT ![t] = "remove"]
    /\ arg' = [arg EXCEPT ![t] = k]
    /\ UNCHANGED <<tableVars, purgeVars, modified>>

RemoveEnd(t) ==
    /\ call[t] = "remove"
    /\ IF arg[t] \notin reserves
       THEN UNCHANGED <<tableVars, modified>>
       ELSE /\ Write(reserves \ {arg[t]}, size - 1, Overlapped(t))
            /\ modified' = TRUE
    /\ call' = [call EXCEPT ![t] = "none"]
    /\ UNCHANGED <<arg, purgeVars>>

-----------------------------------------------------------------------------
(* The purge thread.                                                        *)

\* The minute's sleep is over and purge_timeout opens an iterator, which
\* already holds the first entry it will return; over an empty table the
\* loop ends at once.
SweepStart ==
    /\ purger = "sleep"
    /\ IF reserves = {}
       THEN UNCHANGED <<purgeVars, modified>>
       ELSE /\ cursor' \in reserves
            /\ purger' = "sweep"
            /\ modified' = FALSE
    /\ UNCHANGED <<tableVars, call, arg>>

\* next() throws ConcurrentModificationException, which run() does not catch.
SweepFails ==
    /\ purger = "sweep"
    /\ modified
    /\ purger' = "dead"
    /\ UNCHANGED <<tableVars, call, arg, cursor, modified>>

\* The entry is removed from under the iterator, whatever its age. If it was
\* the only one the loop ends and the thread sleeps again; otherwise the next
\* call of next() throws.
SweepRemoves ==
    /\ purger = "sweep"
    /\ ~modified
    /\ Write(reserves \ {cursor}, size - 1, \E t \in Threads : call[t] # "none")
    /\ purger' = IF reserves = {cursor} THEN "sleep" ELSE "dead"
    /\ UNCHANGED <<call, arg, cursor, modified>>

-----------------------------------------------------------------------------
ThreadStep(t) ==
    \/ \E k \in Keys : RegistCheck(t, k) \/ RemoveStart(t, k)
    \/ RegistPut(t)
    \/ RemoveEnd(t)

Sweep == SweepStart \/ SweepFails \/ SweepRemoves

Next == Sweep \/ \E t \in Threads : ThreadStep(t)

Spec == Init /\ [][Next]_vars

\* A started call ends and the purge thread is scheduled as long as it lives.
\* No fairness is put on the agents' calls: a client may vanish.
Fairness ==
    /\ WF_vars(Sweep)
    /\ \A t \in Threads : WF_vars(RegistPut(t)) /\ WF_vars(RemoveEnd(t))

FairSpec == Spec /\ Fairness

-----------------------------------------------------------------------------
(* Properties.                                                              *)

Putting == {t \in Threads : call[t] = "put"}

\* The class comment promises at most max_servers reservations (ReserveManager.
\* java:30-32), which the unsynchronised test-then-put of regist does not keep.
\* How far it can overrun the limit when the map itself is sound: by one entry
\* for each other thread that passed the test before the table filled up, and
\* no further however long the service runs.
OvershootBounded ==
    Cardinality(reserves) + Cardinality(Putting)
        <= MaxServers + Cardinality(Threads) - 1

\* What the last test of ReserveManagerTest states (setter3, lines 141-152):
\* a full table whose clients are gone has room again after the purge.
FullTableDrains == (size >= MaxServers) ~> (size < MaxServers)
=============================================================================
