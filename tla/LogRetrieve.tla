----------------------------- MODULE LogRetrieve -----------------------------
(***************************************************************************)
(* A log that its writer rotates by renaming (gpf_log.c) and logretrieve,  *)
(* which a collector calls at every run to fetch the lines that are new    *)
(* since the last call (gpf_logrt.c). The reader knows files by inode, but *)
(* opens them by name; its offset, an inode and a position, is the one     *)
(* thing that outlives a call.                                             *)
(*                                                                         *)
(* Lines are numbered in the order they are written, and sizes, positions  *)
(* and limits count lines. A file holds consecutive lines, and the lines   *)
(* of a call are read in ascending order whatever the names stand for by   *)
(* then, so that the ring of results is the set of them. A rename step of  *)
(* the writer, the scan of the directory and the reading of a file are     *)
(* single actions.                                                         *)
(***************************************************************************)
EXTENDS Integers, FiniteSets

CONSTANTS
    Inodes, None,  \* inode numbers, free ones are used again; no inode
    Gens,          \* generations that a rotation keeps: logRotation; with one it does none
    LogSize,       \* the size from which the writer rotates
    Limit,         \* GPF_LOG_SCAN_LIMIT_KB
    FirstLimit,    \* GPF_LOG_SCAN_FIRST_KB
    Rows,          \* GPF_LOG_SCAN_LIMIT_ROW
    MaxLines,      \* bound on the lines that are written
    MaxKills       \* bound on the calls that are killed

ASSUME LogAssumption ==
    /\ None \notin Inodes
    /\ Gens \in Nat /\ Gens > 1
    /\ {LogSize, Limit, FirstLimit, Rows, MaxLines, MaxKills} \subseteq Nat
    /\ LogSize > 0

VARIABLES
    names,      \* names[0] is the log, names[k] its generation k - 1
    base,       \* base[i]: the lines written before the file with inode i
    size,       \* size[i]: the lines in that file
    written,    \* lines written so far
    writer,     \* where the writer is
    slot,       \* the name that its next rename fills
    saved,      \* the offset file; its line is the last one it covers
    reader,     \* where the call is
    at,         \* the offset it has loaded
    cur,        \* what stat said of the log
    old,        \* and of its newest generation
    mark,       \* the offset to be saved next
    batch,      \* the lines read by the call
    kills,      \* calls killed so far
    delivered,  \* lines that some call has put out
    skipped,    \* lines passed over because of a limit
    cause       \* what has happened that may cost or repeat lines

writerVars == <<names, base, size, written, writer, slot>>
callVars == <<at, cur, old, mark>>
vars == <<names, base, size, written, writer, slot, saved, reader, at, cur, old, mark,
          batch, kills, delivered, skipped, cause>>

Files == Inodes \cup {None}
Offsets == [inode : Files, pos : Nat, line : Nat]
ReaderStates == {"idle", "find", "old", "clearOld", "saveOld", "cur", "clearCur", "saveCur",
                 "output"}

NoOffset == [inode |-> None, pos |-> 0, line |-> 0]
NoFile == [inode |-> None, size |-> 0]
NoGeneration == [name |-> 0, inode |-> None, size |-> 0]

TypeOK ==
    /\ names \in [0..Gens -> Files]
    /\ base \in [Inodes -> Nat]
    /\ size \in [Inodes -> Nat]
    /\ written \in Nat
    /\ writer \in {"idle", "rename", "write"}
    /\ slot \in 1..Gens
    /\ saved \in Offsets
    /\ reader \in ReaderStates
    /\ at \in Offsets
    /\ cur \in [inode : Files, size : Nat]
    /\ old \in [name : 0..Gens, inode : Files, size : Nat]
    /\ mark \in Offsets
    /\ batch \subseteq Nat
    /\ kills \in Nat
    /\ delivered \subseteq Nat
    /\ skipped \subseteq Nat
    /\ cause \subseteq {"renamed", "late", "killed", "reset", "reused"}

Init ==
    /\ names = [k \in 0..Gens |-> None]
    /\ base = [i \in Inodes |-> 0]
    /\ size = [i \in Inodes |-> 0]
    /\ written = 0
    /\ writer = "idle"
    /\ slot = Gens
    /\ saved = NoOffset
    /\ reader = "idle"
    /\ at = NoOffset
    /\ cur = NoFile
    /\ old = NoGeneration
    /\ mark = NoOffset
    /\ batch = {}
    /\ kills = 0
    /\ delivered = {}
    /\ skipped = {}
    /\ cause = {}

-----------------------------------------------------------------------------
(* The writer: _gpfLog under the mutex of the log.                          *)

\* Mutant: one round too many.
LastSlotBelow == 0

\* A rotation fills the names from the oldest generation down to the newest.
LastSlot == 1
FirstSlot == Gens

\* One round of gpfLogRotate. A call that is in the middle of its reading may
\* open another file by the name than the one it means.
Rename ==
    /\ writer = "rename"
    /\ names' = [names EXCEPT ![slot] = names[slot - 1], ![slot - 1] = None]
    /\ IF slot = LastSlot THEN writer' = "write" /\ UNCHANGED slot
                   ELSE slot' = slot - 1 /\ UNCHANGED writer
    /\ cause' = cause \cup IF reader \in {"idle", "clearCur", "saveCur", "output"}
                           THEN {} ELSE {"renamed"}
    /\ UNCHANGED <<base, size, written, saved, reader, callVars, batch, kills,
                   delivered, skipped>>

\* The inodes by which the reader knows a file.
Known == {saved.inode, cur.inode, old.inode}

\* The line is appended; a log that is not there is created, and may get the
\* inode of a generation that is gone.
WriteLine ==
    /\ written' = written + 1
    /\ writer' = "idle"
    /\ \/ /\ names[0] # None
          /\ size' = [size EXCEPT ![names[0]] = @ + 1]
          /\ UNCHANGED <<names, base, cause>>
       \/ /\ names[0] = None
          /\ \E i \in Inodes \ {names[k] : k \in 0..Gens} :
                /\ names' = [names EXCEPT ![0] = i]
                /\ base' = [base EXCEPT ![i] = written]
                /\ size' = [size EXCEPT ![i] = 1]
                /\ cause' = cause \cup IF i \in Known THEN {"reused"} ELSE {}
    /\ UNCHANGED <<slot, saved, reader, callVars, batch, kills, delivered, skipped>>

Full == names[0] # None /\ size[names[0]] >= LogSize

\* A line is logged at once unless the log is full.
Log == writer = "idle" /\ written < MaxLines /\ ~Full /\ WriteLine

\* A full log is rotated first ...
BeginRotate ==
    /\ writer = "idle" /\ written < MaxLines /\ Full
    /\ writer' = "rename"
    /\ slot' = FirstSlot
    /\ UNCHANGED <<names, base, size, written, saved, reader, callVars, batch, kills,
                   delivered, skipped, cause>>

\* ... and then written.
LogAfterRotate == writer = "write" /\ WriteLine

-----------------------------------------------------------------------------
(* The reader: gpfRetrieveLog.                                              *)

Larger(m, n) == IF m >= n THEN m ELSE n
Smaller(m, n) == IF m <= n THEN m ELSE n
Go(s) == reader' = s

\* The call returns, and its results and variables are gone.
Return ==
    /\ Go("idle")
    /\ batch' = {}
    /\ at' = NoOffset /\ cur' = NoFile /\ old' = NoGeneration /\ mark' = NoOffset

First == at.inode = None

\* Mutant: every call is limited like the first one.
ScanLimitFirst == FirstLimit

ScanLimit == IF First THEN FirstLimit ELSE Limit

\* The offset is loaded and the log looked at; without a log the call returns
\* at once. A first call leaves the older generations alone.
StartCall ==
    /\ reader = "idle"
    /\ names[0] # None
    /\ LET i == names[0]
       IN  /\ cur' = [inode |-> i, size |-> size[i]]
           /\ at' = IF saved.inode = None THEN [NoOffset EXCEPT !.line = base[i]] ELSE saved
           /\ skipped' = skipped \cup IF saved.inode = None THEN 1..base[i] ELSE {}
    /\ Go("find")
    /\ UNCHANGED <<writerVars, saved, old, mark, batch, kills, delivered, cause>>

\* gpfCheckRotatedLogFile: the generation that was modified last. The code knows
\* whole seconds: of generations modified within the same one it takes the first
\* that the directory names, and this is left out.
Newest ==
    {k \in 1..Gens : names[k] # None /\ \A g \in 1..Gens :
                       names[g] # None => base[names[g]] <= base[names[k]]}

\* If the offset is in the newest generation, what is left there comes first.
\* An offset in a file older than that one is no use: even if it had been
\* read to its end, the newest generation is passed over.
FindRotated ==
    /\ reader = "find"
    /\ \/ /\ Newest = {}
          /\ Go("cur")
          /\ UNCHANGED <<old, cause>>
       \/ \E k \in Newest :
            LET i == names[k]
            IN  /\ old' = [name |-> k, inode |-> i, size |-> size[i]]
                /\ Go(IF at.inode = i /\ at.pos < size[i] THEN "old" ELSE "cur")
                /\ cause' = cause \cup IF ~First /\ at.line <= base[i] THEN {"late"} ELSE {}
    /\ UNCHANGED <<writerVars, saved, at, cur, mark, batch, kills, delivered, skipped>>

\* Mutant: the position is the one where the reading began.
EndFrom(f, from) == from

\* Where the reading of a file ends.
End(f, from) == Larger(from, size[f])

\* gpfLogTail of the file that has the name k by now, from a position to its
\* end; the result is kept under the inode that stat gave.
Tail(k, inode, pos, from) ==
    LET f == names[k]
    IN  /\ batch' = batch \cup ((base[f] + from + 1)..(base[f] + size[f]))
        /\ skipped' = skipped \cup ((base[f] + pos + 1)..(base[f] + Smaller(from, size[f])))
        /\ mark' = [inode |-> inode, pos |-> End(f, from),
                    line |-> base[f] + size[f]]

\* The limit counts what both files hold.
OldFrom == Larger(at.pos, old.size + cur.size - ScanLimit)

TailOld ==
    /\ reader = "old"
    /\ \/ /\ names[old.name] # None
          /\ Tail(old.name, old.inode, at.pos, OldFrom)
          /\ Go("clearOld")
          /\ UNCHANGED <<at, cur, old>>
       \/ names[old.name] = None /\ Return /\ UNCHANGED skipped
    /\ UNCHANGED <<writerVars, saved, kills, delivered, cause>>

\* Mutants: the offset is not used for the log; it is used for any log.
CurPosNone == 0
CurPosAny == at.pos

\* The position in the log that is read next, and the one to start from.
CurPos == IF at.inode = cur.inode THEN at.pos ELSE 0
CurFrom == Larger(CurPos, cur.size - ScanLimit)

\* Nothing new in the log, or no log, and the call returns without output.
TailCur ==
    /\ reader = "cur"
    /\ \/ /\ at.inode # cur.inode \/ at.pos < cur.size
          /\ names[0] # None
          /\ Tail(0, cur.inode, CurPos, CurFrom)
          /\ Go("clearCur")
          /\ UNCHANGED <<at, cur, old>>
       \/ /\ names[0] = None \/ (at.inode = cur.inode /\ at.pos >= cur.size)
          /\ Return
          /\ UNCHANGED skipped
    /\ UNCHANGED <<writerVars, saved, kills, delivered, cause>>

\* gpfSaveLogOffset: the offset file is opened for writing, which empties it ...
ClearOffset ==
    /\ reader \in {"clearOld", "clearCur"}
    /\ saved' = NoOffset
    /\ Go(IF reader = "clearOld" THEN "saveOld" ELSE "saveCur")
    /\ UNCHANGED <<writerVars, callVars, batch, kills, delivered, skipped, cause>>

\* ... and the offset is written into it.
SaveOffset ==
    /\ reader \in {"saveOld", "saveCur"}
    /\ saved' = mark
    /\ Go(IF reader = "saveOld" THEN "cur" ELSE "output")
    /\ UNCHANGED <<writerVars, callVars, batch, kills, delivered, skipped, cause>>

\* Mutant: a full ring takes no more rows.
KeptFirst == {n \in batch : Cardinality({m \in batch : m < n}) < Rows}

\* The ring of results keeps the last rows.
Kept == {n \in batch : Cardinality({m \in batch : m > n}) < Rows}

\* gpfSaveTailResult.
Output ==
    /\ reader = "output"
    /\ delivered' = delivered \cup Kept
    /\ skipped' = skipped \cup (batch \ Kept)
    /\ Return
    /\ UNCHANGED <<writerVars, saved, kills, cause>>

\* The call is a command of a collector and is killed at the end time of the
\* run; an output file that cannot be opened comes to the same.
Kill ==
    /\ reader # "idle"
    /\ kills < MaxKills
    /\ kills' = kills + 1
    /\ Return
    /\ cause' = cause \cup (IF saved.inode = None /\ ~First THEN {"reset"} ELSE {})
                      \cup (IF saved.inode # None /\ saved # at THEN {"killed"} ELSE {})
    /\ UNCHANGED <<writerVars, saved, delivered, skipped>>

-----------------------------------------------------------------------------
WriterStep == Log \/ BeginRotate \/ Rename \/ LogAfterRotate

ReaderStep ==
    \/ StartCall \/ FindRotated \/ TailOld \/ TailCur
    \/ ClearOffset \/ SaveOffset \/ Output

Next == WriterStep \/ ReaderStep \/ Kill

Spec == Init /\ [][Next]_vars

\* The collector calls again and again, and a line that is begun is written.
FairSpec == Spec /\ WF_vars(ReaderStep) /\ WF_vars(Rename \/ LogAfterRotate)

-----------------------------------------------------------------------------
(* Properties.                                                              *)

\* No line is handed to two outputs, whatever is killed and however far the
\* reader falls behind, unless a rotation fell into a call or a call was
\* killed while it wrote its offset.
NoRepeat == cause \cap {"renamed", "reset"} = {} => batch \cap delivered = {}

\* No line is lost: between two calls every line that the offset covers has
\* been put out or passed over because of a limit, as long as no rotation
\* fell into a call, no call was killed after it saved an offset or while it
\* did, and no more than one rotation came between two calls.
Complete ==
    reader = "idle" /\ cause = {} => 1..saved.line \subseteq delivered \cup skipped

\* The limit drops the oldest lines only: what a call is about to put out has
\* the newest unread lines up to the limit, counted over both files.
NewestRead ==
    reader = "output" /\ cause = {} =>
        LET last  == base[cur.inode] + cur.size
            limit == IF at.inode = None THEN FirstLimit ELSE Limit
        IN  (Larger(at.line, last - limit) + 1)..last \subseteq batch

\* What LogCursor sees of a call: it looks at the log when it begins, and when
\* it has saved its offset it has taken what it is about to put out.
Committed == reader \in {"idle", "output"}

Cursor == INSTANCE LogCursor WITH
    Least <- Smaller(Limit, Rows), Most <- Rows,
    length <- written,
    seen <- IF Committed THEN 0 ELSE base[cur.inode] + cur.size,
    begun <- IF Committed THEN saved.inode # None ELSE ~First,
    cursor <- IF Committed THEN saved.line ELSE IF First THEN 0 ELSE at.line,
    taken <- IF reader = "output" THEN Kept ELSE {},
    out <- delivered

\* What no call can make up for: a rotation that fell into it, two that came
\* between two calls, an offset file that was lost, an inode that was used again.
Astray == {"renamed", "late", "reset", "reused"}

\* Calls and rotations between them keep the promise of LogCursor, however the
\* log is split into files by then: a call hands on a stretch of lines that
\* follows the ones before it, to the end of the log as it found it or beyond,
\* leaves out its oldest lines only if they are too many, and returns without a
\* line only if there is none. One that is killed hands on nothing, and may
\* have moved the offset, but no more than that.
CursorKept ==
    /\ Cursor!Init
    /\ [][cause' \cap Astray = {} =>
            IF kills' = kills THEN [Cursor!Next]_(Cursor!vars)
                              ELSE [Cursor!Interrupt]_(Cursor!vars)]_vars

\* Once nothing is written any more the reader catches up with the log,
\* whatever went wrong before, unless the log got the inode of the file the
\* offset was in.
CatchesUp ==
    <>[](\/ names[0] # None /\ saved.inode = names[0] /\ saved.pos = size[names[0]]
         \/ names[0] = None \/ "reused" \in cause)

=============================================================================
