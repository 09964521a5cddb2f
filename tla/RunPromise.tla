----------------------------- MODULE RunPromise -----------------------------
(***************************************************************************)
(* What a run of a collector promises, without threads, tables or polling: *)
(* it opens once, starts each of its commands at most once and only while  *)
(* it is open, one at a time if its collector is serial, and it closes,    *)
(* which hands its output on, only when no command of it is alive.         *)
(***************************************************************************)
CONSTANTS Runs, Jobs, OneAtATime

VARIABLES
    state,    \* state[r]: idle, open or closed
    live,     \* the commands that are alive
    started   \* the commands started so far

vars == <<state, live, started>>

Commands(r) == {r} \X Jobs

Init ==
    /\ state = [r \in Runs |-> "idle"]
    /\ live = {}
    /\ started = {}

Open(r) ==
    /\ state[r] = "idle"
    /\ state' = [state EXCEPT ![r] = "open"]
    /\ UNCHANGED <<live, started>>

Start(r, c) ==
    /\ state[r] = "open"
    /\ c \notin started
    /\ r \in OneAtATime => live \cap Commands(r) = {}
    /\ live' = live \cup {c}
    /\ started' = started \cup {c}
    /\ UNCHANGED state

\* Commands end on their own or are killed, several at a time if need be.
Stop ==
    /\ live' \in SUBSET live
    /\ UNCHANGED <<state, started>>

Close(r) ==
    /\ state[r] = "open"
    /\ live \cap Commands(r) = {}
    /\ state' = [state EXCEPT ![r] = "closed"]
    /\ UNCHANGED <<live, started>>

Next ==
    \/ \E r \in Runs : Open(r) \/ Close(r) \/ \E c \in Commands(r) : Start(r, c)
    \/ Stop

Spec == Init /\ [][Next]_vars

=============================================================================
