------------------------------ MODULE LogCursor ------------------------------
(***************************************************************************)
(* What logretrieve promises, without files, generations or inodes: a      *)
(* cursor moves over a log that only grows. A call looks where the log     *)
(* ends, takes a stretch of lines that reaches there at least, and never   *)
(* one that is behind the cursor; between the cursor and the first of them *)
(* it passes over lines only if it has its fill without them. It takes     *)
(* none only if there is none. The cursor moves first, and then what was   *)
(* taken is put out; a call that is interrupted in between has moved the   *)
(* cursor for nothing.                                                     *)
(***************************************************************************)
EXTENDS Integers

CONSTANTS Least, Most   \* how many lines it takes before it leaves any out, and at most

VARIABLES
    length,   \* lines in the log
    seen,     \* how many they were when the call looked, 0 if none is under way
    begun,    \* some call has moved the cursor
    cursor,   \* the line the latest one ended with
    taken,    \* the lines it took and has not put out yet
    out       \* the lines put out

vars == <<length, seen, begun, cursor, taken, out>>

Init ==
    /\ length = 0
    /\ seen = 0
    /\ begun = FALSE
    /\ cursor = 0
    /\ taken = {}
    /\ out = {}

Append ==
    /\ length' = length + 1
    /\ UNCHANGED <<seen, begun, cursor, taken, out>>

Look ==
    /\ seen = 0 /\ taken = {}
    /\ seen' = length
    /\ UNCHANGED <<length, begun, cursor, taken, out>>

\* The first call may begin anywhere.
Fetch(m, n) ==
    /\ seen > 0 /\ seen <= n
    /\ cursor <= m /\ m <= n /\ cursor < n
    /\ n - m <= Most
    /\ begun /\ m # cursor => n - m >= Least
    /\ taken' = (m + 1)..n
    /\ cursor' = n
    /\ begun' = TRUE
    /\ seen' = 0
    /\ UNCHANGED <<length, out>>

NothingNew ==
    /\ seen <= cursor
    /\ seen' = 0
    /\ UNCHANGED <<length, begun, cursor, taken, out>>

PutOut ==
    /\ out' = out \cup taken
    /\ taken' = {}
    /\ UNCHANGED <<length, seen, begun, cursor>>

Lose(n) ==
    /\ cursor <= n
    /\ cursor' = n
    /\ begun => begun'
    /\ seen' = 0
    /\ taken' = {}
    /\ UNCHANGED <<length, out>>

Interrupt == \E n \in 0..length : Lose(n)

Next ==
    \/ Append \/ Look \/ NothingNew \/ PutOut
    \/ \E m, n \in 0..length : Fetch(m, n)

Spec == Init /\ [][Next \/ Interrupt]_vars

=============================================================================
