-------------------------- MODULE LogRetrieveProofs --------------------------
(***************************************************************************)
(* For any number of generations, any limits and any length of the log:    *)
(* no line is fetched twice as long as no rotation falls into a call and   *)
(* no call is killed while it writes its offset; none is lost, and the     *)
(* newest are read, as long as none of the causes of the model occurs; and *)
(* calls that are killed elsewhere still keep the promise of LogCursor.    *)
(***************************************************************************)
EXTENDS LogRetrieve, FiniteSetTheorems, TLAPS

\* The files: each has one name; the log ends with the last line written; what
\* an older one holds was written before the log began.
OneName == \A j, k \in 0..Gens : names[j] # None /\ names[j] = names[k] => j = k
EndsWritten ==
    /\ names[0] # None => base[names[0]] + size[names[0]] = written
    /\ \A k \in 0..Gens : names[k] # None => base[names[k]] + size[names[k]] <= written
Older ==
    \A k \in 1..Gens : names[0] # None /\ names[k] # None =>
        base[names[k]] + size[names[k]] <= base[names[0]]

FilesInv == OneName /\ EndsWritten /\ Older

\* An offset covers no line beyond its position in its file, none that the log
\* holds if it is in another file, and none that is not written.
SoundFor(o, log, b, w) ==
    /\ o.inode # None => o.line <= b[o.inode] + o.pos
    /\ log # None /\ o.inode # log => o.line <= b[log]
    /\ o.line <= w

Sound(o) == SoundFor(o, names[0], base, written)

Calm == cause \cap {"renamed", "reset"} = {}

\* The offsets are sound, and the offset file is empty only before the first
\* call or while it is written.
OffsetsInv ==
    /\ Sound(saved) /\ Sound(at) /\ Sound(mark)
    /\ saved.inode = None => saved = NoOffset
    /\ reader \in {"clearOld", "saveOld", "clearCur", "saveCur", "output"} =>
          mark.inode # None /\ at.line <= mark.line
    /\ reader = "output" => saved = mark

\* The names still stand for the files that were looked at.
NamesInv ==
    /\ reader \in {"find", "old", "clearOld", "saveOld", "cur"} =>
          names[0] # None /\ names[0] = cur.inode
    /\ reader = "old" =>
          /\ old.name \in 1..Gens /\ names[old.name] = old.inode /\ old.inode # None
          /\ at.inode = old.inode /\ at.pos <= size[old.inode]

\* What has been put out lies below the offset, what has been read above it.
LinesInv ==
    /\ reader = "idle" => batch = {} /\ \A n \in delivered : n <= saved.line
    /\ reader # "idle" => \A n \in delivered : n <= at.line
    /\ reader # "idle" /\ saved.inode # None => at.line <= saved.line
    /\ reader # "idle" /\ saved.inode = None /\ reader \notin {"saveOld", "saveCur"} =>
          First
    /\ reader # "idle" /\ First => \A n \in delivered : n <= 0
    /\ \A n \in batch : n > at.line /\ n <= written
    /\ reader \in {"clearCur", "saveCur", "output"} => \A n \in batch : n <= mark.line

IInv == TypeOK /\ FilesInv /\ (Calm => OffsetsInv /\ NamesInv /\ LinesInv)

\* The assumption, constant by constant.
LEMMA Constants ==
    /\ None \notin Inodes
    /\ Gens \in Nat /\ Gens > 1
    /\ LogSize \in Nat /\ LogSize > 0
    /\ Limit \in Nat /\ FirstLimit \in Nat /\ Rows \in Nat
    /\ MaxLines \in Nat /\ MaxKills \in Nat
BY LogAssumption DEF LogAssumption

USE Constants

-----------------------------------------------------------------------------
(* Types.                                                                   *)

LEMMA InitTypes == Init => TypeOK
<1> SUFFICES ASSUME Init PROVE TypeOK
  OBVIOUS
<1> USE DEF Init, Files, Offsets, ReaderStates, NoOffset, NoFile, NoGeneration
<1>1. names \in [0..Gens -> Files] /\ base \in [Inodes -> Nat] /\ size \in [Inodes -> Nat]
  OBVIOUS
<1>2. saved \in Offsets /\ at \in Offsets /\ mark \in Offsets
  OBVIOUS
<1>3. cur \in [inode : Files, size : Nat] /\ old \in [name : 0..Gens, inode : Files, size : Nat]
  OBVIOUS
<1> QED BY <1>1, <1>2, <1>3 DEF TypeOK

LEMMA ReturnTypes ==
    ASSUME Return
    PROVE  /\ reader' = "idle" /\ batch' = {}
           /\ at' = NoOffset /\ at' \in Offsets /\ mark' = NoOffset /\ mark' \in Offsets
           /\ cur' \in [inode : Files, size : Nat]
           /\ old' \in [name : 0..Gens, inode : Files, size : Nat]
<1>1. NoOffset \in Offsets /\ NoFile \in [inode : Files, size : Nat]
  BY DEF NoOffset, NoFile, Offsets, Files
<1>2. NoGeneration \in [name : 0..Gens, inode : Files, size : Nat]
  BY DEF NoGeneration, Files
<1> QED BY <1>1, <1>2 DEF Return, Go

LEMMA LinesAreNat ==
    ASSUME NEW m \in Nat, NEW n \in Nat
    PROVE  (m + 1)..n \subseteq Nat
OBVIOUS

LEMMA NamedFile ==
    ASSUME TypeOK, NEW k \in 0..Gens, names[k] # None
    PROVE  /\ names[k] \in Inodes
           /\ base[names[k]] \in Nat /\ size[names[k]] \in Nat
<1>1. names[k] \in Inodes
  BY DEF TypeOK, Files
<1> QED BY <1>1 DEF TypeOK

LEMMA Zero == 0 \in 0..Gens
OBVIOUS

\* Two stretches of lines, the second of which begins where the first ends.
LEMMA Joined ==
    ASSUME NEW l \in Int, NEW m \in Int, NEW n \in Int, l <= m, m <= n
    PROVE  ((l + 1)..m) \cup ((m + 1)..n) = (l + 1)..n
OBVIOUS

\* What reading a file adds, for a file that exists.
LEMMA TailTypes ==
    ASSUME TypeOK, NEW k \in 0..Gens, names[k] # None, NEW inode \in Files,
           NEW pos \in Nat, NEW from \in Nat, Tail(k, inode, pos, from)
    PROVE  batch' \subseteq Nat /\ skipped' \subseteq Nat /\ mark' \in Offsets
<1>2. base[names[k]] \in Nat /\ size[names[k]] \in Nat
  BY NamedFile
<1>3. End(names[k], from) \in Nat /\ Smaller(from, size[names[k]]) \in Nat
  BY <1>2 DEF End, Larger, Smaller
<1>4. mark' \in Offsets
  BY <1>2, <1>3 DEF Tail, Offsets
<1>5. batch' \subseteq Nat
  <2>1. (base[names[k]] + from + 1)..(base[names[k]] + size[names[k]]) \subseteq Nat
    BY <1>2
  <2>2. batch \subseteq Nat
    BY DEF TypeOK
  <2> QED BY <2>1, <2>2, Zenon DEF Tail
<1>6. skipped' \subseteq Nat
  <2>1. (base[names[k]] + pos + 1)..(base[names[k]] + Smaller(from, size[names[k]]))
            \subseteq Nat
    BY <1>2, <1>3
  <2>2. skipped \subseteq Nat
    BY DEF TypeOK
  <2> QED BY <2>1, <2>2, Zenon DEF Tail
<1> QED BY <1>4, <1>5, <1>6

LEMMA FromTypes ==
    ASSUME TypeOK
    PROVE  OldFrom \in Nat /\ OldFrom >= at.pos /\ CurPos \in Nat
           /\ CurFrom \in Nat /\ CurFrom >= CurPos
<1>1. at.pos \in Nat /\ old.size \in Nat /\ cur.size \in Nat /\ ScanLimit \in Nat
  BY DEF TypeOK, Offsets, ScanLimit
<1>2. CurPos \in Nat
  BY <1>1 DEF CurPos
<1> QED BY <1>1, <1>2 DEF OldFrom, CurFrom, Larger

LEMMA WriteTypes ==
    ASSUME TypeOK, WriteLine
    PROVE  TypeOK'
<1>1. names \in [0..Gens -> Files] /\ base \in [Inodes -> Nat] /\ size \in [Inodes -> Nat]
      /\ written \in Nat
  BY DEF TypeOK
<1>2. names' \in [0..Gens -> Files] /\ base' \in [Inodes -> Nat] /\ size' \in [Inodes -> Nat]
  <2>1. CASE names[0] # None /\ size' = [size EXCEPT ![names[0]] = @ + 1]
             /\ UNCHANGED <<names, base>>
    <3>1. names[0] \in Inodes /\ size[names[0]] + 1 \in Nat
      BY <2>1, NamedFile, Zero
    <3> QED BY <1>1, <2>1, <3>1
  <2>2. ASSUME NEW i \in Inodes,
               names' = [names EXCEPT ![0] = i],
               base' = [base EXCEPT ![i] = written],
               size' = [size EXCEPT ![i] = 1]
        PROVE  /\ names' \in [0..Gens -> Files]
               /\ base' \in [Inodes -> Nat] /\ size' \in [Inodes -> Nat]
    <3>1. i \in Files
      BY DEF Files
    <3>2. names' \in [0..Gens -> Files]
      BY <1>1, <2>2, <3>1, Zero
    <3>3. base' \in [Inodes -> Nat]
      BY <1>1, <2>2
    <3>4. size' \in [Inodes -> Nat]
      BY <1>1, <2>2
    <3> QED BY <3>2, <3>3, <3>4
  <2>3. CASE names[0] = None
    <3>1. PICK i \in Inodes :
              /\ names' = [names EXCEPT ![0] = i]
              /\ base' = [base EXCEPT ![i] = written]
              /\ size' = [size EXCEPT ![i] = 1]
      BY <2>3 DEF WriteLine
    <3> QED BY <2>2, <3>1
  <2>4. CASE names[0] # None
    BY <2>1, <2>4 DEF WriteLine
  <2> QED BY <2>3, <2>4
<1>3. written' \in Nat /\ writer' \in {"idle", "rename", "write"}
  <2>1. written' = written + 1 /\ writer' = "idle"
    BY DEF WriteLine
  <2> QED BY <1>1, <2>1
<1>4. cause' \subseteq {"renamed", "late", "killed", "reset", "reused"}
  <2>1. cause \subseteq {"renamed", "late", "killed", "reset", "reused"}
    BY DEF TypeOK
  <2>2. cause' \subseteq cause \cup {"reused"}
    BY DEF WriteLine
  <2> QED BY <2>1, <2>2
<1>5. UNCHANGED <<slot, saved, reader, at, cur, old, mark, batch, kills, delivered, skipped>>
  BY DEF WriteLine, callVars
<1> QED BY <1>2, <1>3, <1>4, <1>5 DEF TypeOK

LEMMA StepTypes ==
    ASSUME TypeOK, [Next]_vars
    PROVE  TypeOK'
<1> USE DEF writerVars, callVars, Go, ReaderStates
<1>1. ASSUME Log \/ LogAfterRotate PROVE TypeOK'
  BY <1>1, WriteTypes DEF Log, LogAfterRotate
<1>2. ASSUME BeginRotate PROVE TypeOK'
  <2>1. slot' \in 1..Gens /\ writer' \in {"idle", "rename", "write"}
    BY <1>2 DEF BeginRotate, FirstSlot
  <2>2. UNCHANGED <<names, base, size, written, saved, reader, at, cur, old, mark, batch,
                    kills, delivered, skipped, cause>>
    BY <1>2 DEF BeginRotate
  <2> QED BY <2>1, <2>2 DEF TypeOK
<1>3. ASSUME Rename PROVE TypeOK'
  <2>1. names' \in [0..Gens -> Files]
    <3>1. slot \in 0..Gens /\ slot - 1 \in 0..Gens
      BY DEF TypeOK
    <3>2. names[slot - 1] \in Files /\ None \in Files
      BY <3>1 DEF TypeOK, Files
    <3>3. names' = [names EXCEPT ![slot] = names[slot - 1], ![slot - 1] = None]
      BY <1>3 DEF Rename
    <3>4. names \in [0..Gens -> Files]
      BY DEF TypeOK
    <3> QED BY <3>1, <3>2, <3>3, <3>4
  <2>2. slot' \in 1..Gens /\ writer' \in {"idle", "rename", "write"}
    <3>1. slot \in 1..Gens /\ writer = "rename"
      BY <1>3 DEF Rename, TypeOK
    <3>2. \/ slot = 1 /\ writer' = "write" /\ slot' = slot
          \/ slot # 1 /\ slot' = slot - 1 /\ writer' = writer
      BY <1>3 DEF Rename, LastSlot
    <3> QED BY <3>1, <3>2
  <2>3. cause' \subseteq {"renamed", "late", "killed", "reset", "reused"}
    <3>1. cause' \subseteq cause \cup {"renamed"}
      BY <1>3 DEF Rename
    <3> QED BY <3>1 DEF TypeOK
  <2>4. UNCHANGED <<base, size, written, saved, reader, at, cur, old, mark, batch, kills,
                    delivered, skipped>>
    BY <1>3 DEF Rename
  <2> QED BY <2>1, <2>2, <2>3, <2>4 DEF TypeOK
<1>4. ASSUME StartCall PROVE TypeOK'
  <2>1. names[0] # None
    BY <1>4 DEF StartCall
  <2>2. names[0] \in Inodes /\ base[names[0]] \in Nat /\ size[names[0]] \in Nat
    BY <2>1, NamedFile, Zero
  <2>3. cur' \in [inode : Files, size : Nat] /\ at' \in Offsets
    <3>1. cur' = [inode |-> names[0], size |-> size[names[0]]]
      BY <1>4 DEF StartCall
    <3>2. at' = [inode |-> None, pos |-> 0, line |-> base[names[0]]] \/ at' = saved
      BY <1>4 DEF StartCall, NoOffset
    <3>3. names[0] \in Files /\ None \in Files
      BY <2>2 DEF Files
    <3>4. saved \in Offsets
      BY DEF TypeOK
    <3> QED BY <2>2, <3>1, <3>2, <3>3, <3>4 DEF Offsets
  <2>4. skipped' \subseteq Nat
    <3>1. skipped' \subseteq skipped \cup (1..base[names[0]])
      BY <1>4 DEF StartCall
    <3>2. skipped \subseteq Nat
      BY DEF TypeOK
    <3> QED BY <2>2, <3>1, <3>2
  <2>5. reader' \in ReaderStates
    BY <1>4 DEF StartCall
  <2>6. UNCHANGED <<names, base, size, written, writer, slot, saved, old, mark, batch, kills,
                    delivered, cause>>
    BY <1>4 DEF StartCall
  <2> QED BY <2>3, <2>4, <2>5, <2>6 DEF TypeOK
<1>5. ASSUME FindRotated PROVE TypeOK'
  <2> USE DEF FindRotated
  <2>1. CASE Newest = {} /\ Go("cur") /\ UNCHANGED <<old, cause>>
    <3>1. reader' \in ReaderStates
      BY <2>1
    <3>2. UNCHANGED <<names, base, size, written, writer, slot, saved, at, cur, old, mark,
                      batch, kills, delivered, skipped, cause>>
      BY <1>5, <2>1
    <3> HIDE DEF FindRotated
    <3> QED BY <3>1, <3>2 DEF TypeOK
  <2>2. ASSUME NEW k \in Newest,
               old' = [name |-> k, inode |-> names[k], size |-> size[names[k]]],
               reader' \in {"old", "cur"},
               cause' \subseteq cause \cup {"late"}
        PROVE  TypeOK'
    <3>1. k \in 1..Gens /\ names[k] \in Inodes
      BY <2>2 DEF Newest, TypeOK, Files
    <3>2. old' \in [name : 0..Gens, inode : Files, size : Nat]
      BY <2>2, <3>1 DEF TypeOK, Files
    <3>3. reader' \in ReaderStates
      BY <2>2
    <3>4. cause' \subseteq {"renamed", "late", "killed", "reset", "reused"}
      BY <2>2 DEF TypeOK
    <3>5. UNCHANGED <<names, base, size, written, writer, slot, saved, at, cur, mark,
                      batch, kills, delivered, skipped>>
      BY <1>5
    <3> HIDE DEF FindRotated
    <3> QED BY <3>2, <3>3, <3>4, <3>5 DEF TypeOK
  <2> QED BY <1>5, <2>1, <2>2 DEF FindRotated
<1>6. ASSUME TailOld PROVE TypeOK'
  <2>1. CASE names[old.name] # None
    <3>1. old.name \in 0..Gens /\ old.inode \in Files /\ at.pos \in Nat
      BY DEF TypeOK, Offsets
    <3>2. batch' \subseteq Nat /\ skipped' \subseteq Nat /\ mark' \in Offsets
      BY <1>6, <2>1, <3>1, TailTypes, FromTypes DEF TailOld
    <3> QED BY <1>6, <2>1, <3>2 DEF TailOld, TypeOK
  <2>2. CASE names[old.name] = None
    BY <1>6, <2>2, ReturnTypes DEF TailOld, TypeOK
  <2> QED BY <2>1, <2>2
<1>7. ASSUME TailCur PROVE TypeOK'
  <2>1. CASE names[0] # None /\ Tail(0, cur.inode, CurPos, CurFrom) /\ Go("clearCur")
             /\ UNCHANGED <<at, cur, old>>
    <3>1. cur.inode \in Files
      BY DEF TypeOK
    <3>2. batch' \subseteq Nat /\ skipped' \subseteq Nat /\ mark' \in Offsets
      BY <2>1, <3>1, TailTypes, FromTypes
    <3> QED BY <1>7, <2>1, <3>2 DEF TailCur, TypeOK
  <2>2. CASE Return /\ UNCHANGED skipped
    BY <1>7, <2>2, ReturnTypes DEF TailCur, TypeOK
  <2> QED BY <1>7, <2>1, <2>2 DEF TailCur
<1>8. ASSUME ClearOffset PROVE TypeOK'
  BY <1>8 DEF ClearOffset, TypeOK, NoOffset, Offsets, Files
<1>9. ASSUME SaveOffset PROVE TypeOK'
  BY <1>9 DEF SaveOffset, TypeOK
<1>10. ASSUME Output PROVE TypeOK'
  <2>1. batch \subseteq Nat /\ delivered \subseteq Nat /\ skipped \subseteq Nat
    BY DEF TypeOK
  <2>2. Return /\ Kept \subseteq batch
    BY <1>10 DEF Output, Kept
  <2>3. delivered' \subseteq Nat /\ skipped' \subseteq Nat
    BY <1>10, <2>1, <2>2 DEF Output
  <2>4. UNCHANGED <<names, base, size, written, writer, slot, saved, kills, cause>>
    BY <1>10 DEF Output
  <2> QED BY <2>2, <2>3, <2>4, ReturnTypes DEF TypeOK
<1>11. ASSUME Kill PROVE TypeOK'
  <2>1. Return
    BY <1>11 DEF Kill
  <2>2. kills' \in Nat
    BY <1>11 DEF Kill, TypeOK
  <2>3. cause' \subseteq {"renamed", "late", "killed", "reset", "reused"}
    <3>1. cause' \subseteq cause \cup {"reset", "killed"}
      BY <1>11 DEF Kill
    <3> QED BY <3>1 DEF TypeOK
  <2>4. UNCHANGED <<names, base, size, written, writer, slot, saved, delivered, skipped>>
    BY <1>11 DEF Kill
  <2> QED BY <2>1, <2>2, <2>3, <2>4, ReturnTypes DEF TypeOK
<1>12. CASE UNCHANGED vars
  BY <1>12 DEF vars, TypeOK
<1> QED
  BY <1>1, <1>2, <1>3, <1>4, <1>5, <1>6, <1>7, <1>8, <1>9, <1>10, <1>11, <1>12
     DEF Next, WriterStep, ReaderStep

-----------------------------------------------------------------------------
(* The files.                                                               *)

\* A line more in the log: the other files stay, and hold older lines.
LEMMA WriteFiles ==
    ASSUME TypeOK, FilesInv, WriteLine
    PROVE  FilesInv'
<1> USE DEF FilesInv, OneName, EndsWritten, Older
<1>1. CASE names[0] # None
  <2>1. /\ size' = [size EXCEPT ![names[0]] = @ + 1] /\ UNCHANGED <<names, base>>
        /\ written' = written + 1
    BY <1>1 DEF WriteLine
  <2>2. \A k \in 0..Gens : names[k] # None =>
            names[k] \in Inodes /\ base[names[k]] \in Nat /\ size[names[k]] \in Nat
    BY NamedFile
  <2>3. written \in Nat /\ size \in [Inodes -> Nat]
    BY DEF TypeOK
  <2>4. size'[names[0]] = size[names[0]] + 1
    BY <1>1, <2>1, <2>2, <2>3, Zero
  <2>5. \A k \in 1..Gens : names[k] # None => size'[names[k]] = size[names[k]]
    BY <1>1, <2>1, <2>2, <2>3, Zero
  <2>6. OneName'
    BY <2>1
  <2>7. EndsWritten'
    <3>1. \A k \in 1..Gens : names[k] # None => base[names[k]] + size'[names[k]] <= written + 1
      BY <2>2, <2>3, <2>5
    <3>2. base[names[0]] + size'[names[0]] = written + 1
      BY <1>1, <2>2, <2>3, <2>4, Zero
    <3> QED BY <2>1, <3>1, <3>2
  <2>8. Older'
    BY <1>1, <2>1, <2>5
  <2> QED BY <2>6, <2>7, <2>8
<1>2. CASE names[0] = None
  <2>1. PICK i \in Inodes \ {names[k] : k \in 0..Gens} :
            /\ names' = [names EXCEPT ![0] = i]
            /\ base' = [base EXCEPT ![i] = written]
            /\ size' = [size EXCEPT ![i] = 1]
    BY <1>2 DEF WriteLine
  <2>2. written' = written + 1 /\ written \in Nat
    BY DEF WriteLine, TypeOK
  <2>3. names'[0] = i /\ base'[i] = written /\ size'[i] = 1 /\ i # None
    BY <2>1, Zero DEF TypeOK
  <2>4. \A k \in 1..Gens : /\ names'[k] = names[k] /\ names[k] # i
                           /\ names[k] # None => /\ base'[names[k]] = base[names[k]]
                                                 /\ size'[names[k]] = size[names[k]]
    <3> TAKE k \in 1..Gens
    <3>1. k \in 0..Gens /\ k # 0
      OBVIOUS
    <3>2. names'[k] = names[k] /\ names[k] # i
      BY <2>1, <3>1 DEF TypeOK
    <3>3. names[k] # None => names[k] \in Inodes
      BY <3>1, NamedFile
    <3> QED BY <2>1, <3>2, <3>3 DEF TypeOK
  <2>5. \A k \in 0..Gens : k # 0 => k \in 1..Gens
    OBVIOUS
  <2>6. \A k \in 1..Gens : names[k] # None => base[names[k]] + size[names[k]] <= written
    OBVIOUS
  <2>7. OneName'
    BY <2>3, <2>4, <2>5
  <2>8. EndsWritten'
    <3>1. \A k \in 1..Gens : names'[k] # None =>
              base'[names'[k]] + size'[names'[k]] <= written + 1
      <4> TAKE k \in 1..Gens
      <4> HAVE names'[k] # None
      <4>1. names[k] # None /\ k \in 0..Gens
        BY <2>4
      <4>2. base[names[k]] \in Nat /\ size[names[k]] \in Nat
        BY <4>1, NamedFile
      <4> QED BY <2>2, <2>4, <2>6, <4>1, <4>2
    <3> QED BY <2>2, <2>3, <2>5, <3>1
  <2>9. Older'
    BY <2>3, <2>4, <2>6
  <2> QED BY <2>7, <2>8, <2>9
<1> QED BY <1>1, <1>2

LEMMA Moved ==
    ASSUME TypeOK, Rename
    PROVE  /\ slot \in 0..Gens /\ slot - 1 \in 0..Gens /\ slot # 0
           /\ names'[slot] = names[slot - 1] /\ names'[slot - 1] = None
           /\ \A k \in 0..Gens : k # slot /\ k # slot - 1 => names'[k] = names[k]
<1>1. slot \in 0..Gens /\ slot - 1 \in 0..Gens /\ slot # 0 /\ slot - 1 # slot
  BY DEF TypeOK
<1>2. names' = [names EXCEPT ![slot] = names[slot - 1], ![slot - 1] = None]
  BY DEF Rename
<1>3. names \in [0..Gens -> Files]
  BY DEF TypeOK
<1> DEFINE t == slot - 1
<1> HIDE DEF t
<1>4. t \in 0..Gens /\ t # slot
  BY <1>1 DEF t
<1>5. names' = [names EXCEPT ![slot] = names[t], ![t] = None]
  BY <1>2 DEF t
<1>6. /\ names'[slot] = names[t] /\ names'[t] = None
      /\ \A k \in 0..Gens : k # slot /\ k # t => names'[k] = names[k]
  BY <1>1, <1>3, <1>4, <1>5
<1> QED BY <1>1, <1>6 DEF t

LEMMA RenameFiles ==
    ASSUME TypeOK, FilesInv, Rename
    PROVE  FilesInv'
<1> USE DEF FilesInv, OneName, EndsWritten, Older
<1>1. UNCHANGED <<base, size, written>>
  BY DEF Rename
<1>2. slot \in 0..Gens /\ slot - 1 \in 0..Gens /\ slot # 0
  BY Moved
<1>3. /\ names'[slot] = names[slot - 1] /\ names'[slot - 1] = None
      /\ \A k \in 0..Gens : k # slot /\ k # slot - 1 => names'[k] = names[k]
  BY Moved
<1>4. OneName'
  BY <1>2, <1>3
<1>5. EndsWritten'
  <2>1. \A k \in 0..Gens : names'[k] # None => base[names'[k]] + size[names'[k]] <= written
    BY <1>2, <1>3
  <2>2. names'[0] # None => names'[0] = names[0]
    <3>1. slot - 1 = 0 => names'[0] = None
      BY <1>3
    <3>2. slot - 1 # 0 => names'[0] = names[0]
      BY <1>2, <1>3, Zero
    <3> QED BY <3>1, <3>2
  <2> QED BY <1>1, <2>1, <2>2
<1>6. Older'
  <2>1. CASE slot = 1
    BY <1>3, <2>1
  <2>2. CASE slot # 1
    <3>1. slot - 1 # 0 /\ slot - 1 \in 1..Gens /\ slot \in 1..Gens
      BY <1>2, <2>2
    <3>2. names'[0] = names[0]
      BY <1>2, <1>3, <3>1, Zero
    <3>3. ASSUME NEW k \in 1..Gens, names[0] # None, names'[k] # None
          PROVE  base[names'[k]] + size[names'[k]] <= base[names[0]]
      <4>1. CASE k = slot
        BY <1>3, <3>1, <3>3, <4>1
      <4>2. CASE k # slot
        BY <1>3, <3>3, <4>2
      <4> QED BY <4>1, <4>2
    <3> QED BY <1>1, <3>2, <3>3
  <2> QED BY <2>1, <2>2
<1> QED BY <1>4, <1>5, <1>6

LEMMA StepFiles ==
    ASSUME TypeOK, FilesInv, [Next]_vars
    PROVE  FilesInv'
<1>1. CASE WriteLine
  BY <1>1, WriteFiles
<1>2. CASE Rename
  BY <1>2, RenameFiles
<1>3. CASE UNCHANGED <<names, base, size, written>>
  BY <1>3 DEF FilesInv, OneName, EndsWritten, Older
<1> QED
  BY <1>1, <1>2, <1>3 DEF Next, WriterStep, ReaderStep, Log, LogAfterRotate, BeginRotate,
     StartCall, FindRotated, TailOld, TailCur, ClearOffset, SaveOffset, Output, Kill,
     writerVars, vars

\* Whatever the writer does, a sound offset stays sound: a new log, and a file
\* that gets a used inode, begins behind every line that an offset covers.
LEMMA StepSound ==
    ASSUME TypeOK, FilesInv, [Next]_vars, NEW o \in Offsets, Sound(o)
    PROVE  SoundFor(o, names'[0], base', written')
<1> USE DEF Sound, SoundFor
<1>0. o.line \in Nat /\ o.pos \in Nat /\ o.inode \in Files /\ written \in Nat
  BY DEF Offsets, TypeOK
<1>1. CASE WriteLine
  <2>1. written' = written + 1
    BY <1>1 DEF WriteLine
  <2>2. CASE names[0] # None
    BY <1>0, <1>1, <2>1, <2>2 DEF WriteLine
  <2>3. CASE names[0] = None
    <3>1. PICK i \in Inodes : /\ names' = [names EXCEPT ![0] = i]
                              /\ base' = [base EXCEPT ![i] = written]
      BY <1>1, <2>3 DEF WriteLine
    <3>2. names'[0] = i /\ base'[i] = written
      BY <3>1, Zero DEF TypeOK
    <3>3. o.inode # i /\ o.inode # None => base'[o.inode] = base[o.inode]
      BY <1>0, <3>1 DEF TypeOK, Files
    <3> QED BY <1>0, <2>1, <3>2, <3>3
  <2> QED BY <2>2, <2>3
<1>2. CASE Rename
  <2>1. UNCHANGED <<base, written>>
    BY <1>2 DEF Rename
  <2>2. names'[0] = None \/ names'[0] = names[0]
    BY <1>2, Moved, Zero
  <2> QED BY <2>1, <2>2
<1>3. CASE UNCHANGED <<names, base, written>>
  BY <1>3
<1> QED
  BY <1>1, <1>2, <1>3 DEF Next, WriterStep, ReaderStep, Log, LogAfterRotate, BeginRotate,
     StartCall, FindRotated, TailOld, TailCur, ClearOffset, SaveOffset, Output, Kill,
     writerVars, vars

-----------------------------------------------------------------------------
(* The calls.                                                               *)

CallInv == OffsetsInv /\ NamesInv /\ LinesInv

LEMMA StepCalm ==
    ASSUME [Next]_vars, Calm'
    PROVE  Calm
<1>1. cause \subseteq cause'
  BY DEF Next, WriterStep, ReaderStep, Log, LogAfterRotate, BeginRotate, WriteLine, Rename,
     StartCall, FindRotated, TailOld, TailCur, ClearOffset, SaveOffset, Output, Kill, vars
<1> QED BY <1>1 DEF Calm

\* The offsets that a step leaves alone stay sound.
LEMMA KeptSound ==
    ASSUME TypeOK, FilesInv, OffsetsInv, [Next]_vars
    PROVE  /\ saved' = saved => Sound(saved)'
           /\ at' = at => Sound(at)'
           /\ mark' = mark => Sound(mark)'
<1>1. saved \in Offsets /\ at \in Offsets /\ mark \in Offsets
  BY DEF TypeOK
<1>2. Sound(saved) /\ Sound(at) /\ Sound(mark)
  BY DEF OffsetsInv
<1>3. /\ SoundFor(saved, names'[0], base', written')
      /\ SoundFor(at, names'[0], base', written')
      /\ SoundFor(mark, names'[0], base', written')
  BY <1>1, <1>2, StepSound
<1> QED BY <1>3 DEF Sound

LEMMA EmptySound ==
    ASSUME TypeOK
    PROVE  Sound(NoOffset)
<1>1. written \in Nat /\ (names[0] # None => base[names[0]] \in Nat)
  BY NamedFile, Zero DEF TypeOK
<1> QED BY <1>1 DEF Sound, SoundFor, NoOffset

LEMMA EmptyStaysSound ==
    ASSUME TypeOK, FilesInv, [Next]_vars
    PROVE  SoundFor(NoOffset, names'[0], base', written')
<1>1. NoOffset \in Offsets
  BY DEF NoOffset, Offsets, Files
<1> QED BY <1>1, EmptySound, StepSound

LEMMA WriterCall ==
    ASSUME TypeOK, FilesInv, CallInv, WriterStep, Calm'
    PROVE  CallInv'
<1>1. UNCHANGED <<saved, reader, at, cur, old, mark, batch, delivered>>
  BY DEF WriterStep, Log, LogAfterRotate, BeginRotate, WriteLine, Rename, callVars
<1>2. [Next]_vars
  BY DEF Next
<1>3. OffsetsInv'
  BY <1>1, <1>2, KeptSound DEF CallInv, OffsetsInv
<1>4. written \in Nat /\ written' \in Nat /\ written' >= written /\ batch \subseteq Nat
  <2>1. written \in Nat /\ batch \subseteq Nat
    BY DEF TypeOK
  <2>2. written' = written + 1 \/ written' = written
    BY DEF WriterStep, Log, LogAfterRotate, BeginRotate, WriteLine, Rename
  <2> QED BY <2>1, <2>2
<1>5. LinesInv'
  <2>1. \A n \in batch : n > at.line /\ n <= written'
    <3>1. \A n \in batch : n > at.line /\ n <= written
      BY DEF CallInv, LinesInv
    <3> QED BY <1>4, <3>1
  <2> QED BY <1>1, <2>1 DEF CallInv, LinesInv, First
<1>6. NamesInv'
  <2>1. CASE Rename
    <3>1. reader \in {"idle", "clearCur", "saveCur", "output"}
      BY <2>1 DEF Rename, Calm
    <3> QED BY <1>1, <3>1 DEF NamesInv
  <2>2. CASE WriteLine
    <3>1. CASE names[0] # None
      <4>1. names' = names /\ size' = [size EXCEPT ![names[0]] = @ + 1]
        BY <2>2, <3>1 DEF WriteLine
      <4>2. size[names[0]] \in Nat /\ size \in [Inodes -> Nat]
        BY <3>1, NamedFile, Zero DEF TypeOK
      <4>3. ASSUME reader = "old" PROVE at.pos <= size'[old.inode]
        <5>1. old.inode \in Inodes /\ at.pos <= size[old.inode] /\ at.pos \in Nat
          BY <4>3 DEF CallInv, NamesInv, TypeOK, Files, Offsets
        <5>2. size'[old.inode] \in Nat /\ size[old.inode] \in Nat
              /\ size'[old.inode] >= size[old.inode]
          BY <4>1, <4>2, <5>1
        <5> QED BY <5>1, <5>2
      <4> QED BY <1>1, <4>1, <4>3 DEF CallInv, NamesInv
    <3>2. CASE names[0] = None
      BY <1>1, <3>2 DEF CallInv, NamesInv
    <3> QED BY <3>1, <3>2
  <2>3. CASE BeginRotate
    BY <1>1, <2>3 DEF BeginRotate, CallInv, NamesInv
  <2> QED BY <2>1, <2>2, <2>3 DEF WriterStep, Log, LogAfterRotate
<1> QED BY <1>3, <1>5, <1>6 DEF CallInv

LEMMA StartCallInv ==
    ASSUME TypeOK, FilesInv, CallInv, StartCall
    PROVE  CallInv'
<1> USE DEF CallInv
<1>1. /\ reader = "idle" /\ reader' = "find" /\ names[0] # None
      /\ cur'.inode = names[0]
      /\ UNCHANGED <<names, base, size, written, saved, mark, batch, delivered>>
  BY DEF StartCall, Go, writerVars
<1>2. names[0] \in Inodes /\ base[names[0]] \in Nat /\ size[names[0]] \in Nat
      /\ written \in Nat
  BY <1>1, NamedFile, Zero DEF TypeOK
<1>3. \/ saved.inode # None /\ at' = saved
      \/ /\ saved.inode = None /\ saved = NoOffset
         /\ at'.inode = None /\ at'.pos = 0 /\ at'.line = base[names[0]]
  BY DEF StartCall, NoOffset, OffsetsInv
<1>4. Sound(at)'
  <2>1. base[names[0]] <= written
    BY <1>1, <1>2 DEF FilesInv, EndsWritten
  <2> QED BY <1>1, <1>2, <1>3, <2>1 DEF OffsetsInv, Sound, SoundFor
<1>5. OffsetsInv'
  BY <1>1, <1>4 DEF OffsetsInv, Sound
<1>6. NamesInv'
  BY <1>1 DEF NamesInv
<1>7. LinesInv'
  <2>1. batch = {} /\ \A n \in delivered : n <= saved.line
    BY <1>1 DEF LinesInv
  <2>2. delivered \subseteq Nat /\ saved.line \in Nat
    BY DEF TypeOK, Offsets
  <2>3. saved = NoOffset => \A n \in delivered : n <= 0
    BY <2>1 DEF NoOffset
  <2>4. \A n \in delivered : n <= at'.line
    BY <1>2, <1>3, <2>1, <2>2, <2>3
  <2>5. saved.inode # None => at'.line <= saved.line
    BY <1>3, <2>2
  <2>6. First' => \A n \in delivered : n <= 0
    BY <1>3, <2>3 DEF First
  <2>7. saved.inode = None => First'
    BY <1>3 DEF First
  <2> QED BY <1>1, <2>1, <2>4, <2>5, <2>6, <2>7 DEF LinesInv
<1> QED BY <1>5, <1>6, <1>7

LEMMA FindRotatedInv ==
    ASSUME TypeOK, FilesInv, CallInv, FindRotated
    PROVE  CallInv'
<1> USE DEF CallInv
<1>1. /\ reader = "find" /\ reader' \in {"old", "cur"}
      /\ UNCHANGED <<names, base, size, written, saved, at, cur, mark, batch, delivered>>
  BY DEF FindRotated, Go, writerVars
<1>2. OffsetsInv'
  BY <1>1 DEF OffsetsInv, Sound
<1>3. LinesInv'
  BY <1>1 DEF LinesInv, First
<1>4. NamesInv'
  <2>1. ASSUME reader' = "old"
        PROVE  /\ old'.name \in 1..Gens /\ names[old'.name] = old'.inode
               /\ old'.inode # None
               /\ at.inode = old'.inode /\ at.pos <= size[old'.inode]
    <3>1. PICK k \in Newest :
              /\ old' = [name |-> k, inode |-> names[k], size |-> size[names[k]]]
              /\ at.inode = names[k] /\ at.pos < size[names[k]]
      BY <2>1 DEF FindRotated, Go
    <3>2. k \in 1..Gens /\ k \in 0..Gens /\ names[k] # None
      BY DEF Newest
    <3>3. size[names[k]] \in Nat /\ at.pos \in Nat
      BY <3>2, NamedFile DEF TypeOK, Offsets
    <3> QED BY <3>1, <3>2, <3>3
  <2> QED BY <1>1, <2>1 DEF NamesInv
<1> QED BY <1>2, <1>3, <1>4

\* The lines that are read from a file lie above the offset they are read from,
\* and the offset they lead to is sound.
LEMMA TailLines ==
    ASSUME TypeOK, FilesInv, LinesInv, NEW k \in 0..Gens, names[k] # None,
           NEW pos \in Nat, NEW from \in Nat, from >= pos,
           Tail(k, names[k], pos, from), at.line <= base[names[k]] + pos,
           UNCHANGED <<names, base, written, at>>
    PROVE  /\ Sound(mark)' /\ mark'.inode = names[k]
           /\ mark'.line = base[names[k]] + size[names[k]]
           /\ \A n \in batch' : n > at.line /\ n <= written
<1> DEFINE f == names[k]
<1>1. f \in Inodes /\ base[f] \in Nat /\ size[f] \in Nat
  BY NamedFile
<1>2. base[f] + size[f] <= written /\ written \in Nat
  BY DEF FilesInv, EndsWritten, TypeOK
<1>3. at.line \in Nat
  BY DEF TypeOK, Offsets
<1>4. /\ batch' = batch \cup ((base[f] + from + 1)..(base[f] + size[f]))
      /\ mark' = [inode |-> f, pos |-> End(f, from), line |-> base[f] + size[f]]
  BY DEF Tail
<1>5. End(f, from) >= size[f] /\ End(f, from) \in Nat
  BY <1>1 DEF End, Larger
<1>6. f # names[0] /\ names[0] # None => base[f] + size[f] <= base[names[0]]
  BY DEF FilesInv, Older
<1>7. SoundFor(mark', names[0], base, written)
  BY <1>1, <1>2, <1>4, <1>5, <1>6 DEF SoundFor
<1>8. \A n \in batch' : n > at.line /\ n <= written
  BY <1>1, <1>2, <1>3, <1>4 DEF LinesInv
<1> QED BY <1>4, <1>7, <1>8 DEF Sound

\* A call that returns without output leaves the offset it has.
LEMMA ReturnInv ==
    ASSUME TypeOK, TypeOK', FilesInv, CallInv, [Next]_vars, Return,
           reader # "idle", UNCHANGED <<saved, delivered>>,
           saved.inode = None => First
    PROVE  CallInv'
<1>1. reader' = "idle" /\ batch' = {} /\ at' = NoOffset /\ mark' = NoOffset
  BY DEF Return, Go
<1>2. OffsetsInv'
  <2>1. Sound(saved)'
    BY KeptSound DEF CallInv
  <2>3. Sound(at)' /\ Sound(mark)'
    BY <1>1, EmptyStaysSound DEF Sound
  <2> QED BY <1>1, <2>1, <2>3 DEF CallInv, OffsetsInv
<1>3. NamesInv'
  BY <1>1 DEF NamesInv
<1>4. LinesInv'
  <2>1. at.line \in Nat /\ saved.line \in Nat /\ delivered \subseteq Nat
    BY DEF TypeOK, Offsets
  <2>2. \A n \in delivered : n <= saved.line
    <3>1. CASE saved.inode = None
      <4>1. \A n \in delivered : n <= 0
        BY <3>1 DEF CallInv, LinesInv
      <4> QED BY <2>1, <4>1
    <3>2. CASE saved.inode # None
      BY <2>1, <3>2 DEF CallInv, LinesInv
    <3> QED BY <3>1, <3>2
  <2> QED BY <1>1, <2>2 DEF LinesInv
<1> QED BY <1>2, <1>3, <1>4 DEF CallInv

LEMMA TailOldInv ==
    ASSUME TypeOK, TypeOK', FilesInv, CallInv, TailOld
    PROVE  CallInv'
<1>1. /\ reader = "old"
      /\ UNCHANGED <<names, base, size, written, saved, delivered>>
  BY DEF TailOld, writerVars
<1>2. /\ old.name \in 1..Gens /\ names[old.name] = old.inode /\ old.inode # None
      /\ at.inode = old.inode /\ at.pos <= size[old.inode]
      /\ names[0] # None /\ names[0] = cur.inode
  BY <1>1 DEF CallInv, NamesInv
<1>3. /\ Tail(old.name, old.inode, at.pos, OldFrom)
      /\ reader' = "clearOld" /\ UNCHANGED <<at, cur, old>>
  BY <1>2 DEF TailOld, Go
<1>4. at.line <= base[old.inode] + at.pos
  BY <1>2 DEF CallInv, OffsetsInv, Sound, SoundFor
<1>5. old.name \in 0..Gens /\ at.pos \in Nat /\ at.line \in Nat
  BY <1>2 DEF TypeOK, Offsets
<1>6. /\ Sound(mark)' /\ mark'.inode = old.inode
      /\ mark'.line = base[old.inode] + size[old.inode]
      /\ \A n \in batch' : n > at.line /\ n <= written
  BY <1>1, <1>2, <1>3, <1>4, <1>5, FromTypes, TailLines DEF CallInv
<1>7. base[old.inode] \in Nat /\ size[old.inode] \in Nat
  BY <1>2, <1>5, NamedFile
<1>8. OffsetsInv'
  BY <1>1, <1>2, <1>3, <1>4, <1>5, <1>6, <1>7 DEF CallInv, OffsetsInv, Sound
<1>9. NamesInv'
  BY <1>1, <1>2, <1>3 DEF NamesInv
<1>10. LinesInv'
  BY <1>1, <1>3, <1>6 DEF CallInv, LinesInv, First
<1> QED BY <1>8, <1>9, <1>10 DEF CallInv

LEMMA TailCurInv ==
    ASSUME TypeOK, TypeOK', FilesInv, CallInv, TailCur
    PROVE  CallInv'
<1>1. /\ reader = "cur"
      /\ UNCHANGED <<names, base, size, written, saved, delivered>>
  BY DEF TailCur, writerVars
<1>2. names[0] # None /\ names[0] = cur.inode
  BY <1>1 DEF CallInv, NamesInv
<1>3. CASE Tail(0, cur.inode, CurPos, CurFrom) /\ Go("clearCur") /\ UNCHANGED <<at, cur, old>>
  <2>1. /\ base[names[0]] \in Nat /\ size[names[0]] \in Nat /\ at.pos \in Nat
        /\ at.line \in Nat /\ written \in Nat
    BY <1>2, NamedFile, Zero DEF TypeOK, Offsets
  <2>2. at.line <= base[names[0]] + CurPos
    BY <1>2, <2>1 DEF CallInv, OffsetsInv, Sound, SoundFor, CurPos
  <2>3. /\ Sound(mark)' /\ mark'.inode = names[0]
        /\ mark'.line = base[names[0]] + size[names[0]]
        /\ \A n \in batch' : n > at.line /\ n <= written
    BY <1>1, <1>2, <1>3, <2>2, Zero, FromTypes, TailLines DEF CallInv
  <2>4. mark'.line = written
    BY <1>2, <2>3 DEF FilesInv, EndsWritten
  <2>5. at.line <= written
    BY DEF CallInv, OffsetsInv, Sound, SoundFor
  <2>6. reader' = "clearCur"
    BY <1>3 DEF Go
  <2>7. OffsetsInv'
    BY <1>1, <1>2, <1>3, <2>3, <2>4, <2>5, <2>6 DEF CallInv, OffsetsInv, Sound
  <2>8. NamesInv'
    BY <2>6 DEF NamesInv
  <2>9. LinesInv'
    BY <1>1, <1>3, <2>3, <2>4, <2>6 DEF CallInv, LinesInv, First
  <2> QED BY <2>7, <2>8, <2>9 DEF CallInv
<1>4. CASE Return
  <2>1. [Next]_vars
    BY DEF Next, ReaderStep
  <2>2. saved.inode = None => First
    BY <1>1 DEF CallInv, LinesInv
  <2> QED BY <1>1, <1>4, <2>1, <2>2, ReturnInv
<1> QED BY <1>3, <1>4 DEF TailCur

LEMMA ClearOffsetInv ==
    ASSUME TypeOK, FilesInv, CallInv, ClearOffset
    PROVE  CallInv'
<1>1. /\ reader \in {"clearOld", "clearCur"} /\ saved' = NoOffset
      /\ reader' = IF reader = "clearOld" THEN "saveOld" ELSE "saveCur"
      /\ UNCHANGED <<names, base, size, written, at, cur, old, mark, batch, delivered>>
  BY DEF ClearOffset, Go, writerVars, callVars
<1>2. Sound(saved)'
  BY <1>1, EmptySound DEF Sound
<1>3. OffsetsInv'
  BY <1>1, <1>2 DEF CallInv, OffsetsInv, Sound
<1>4. NamesInv'
  BY <1>1 DEF CallInv, NamesInv
<1>5. LinesInv'
  BY <1>1 DEF CallInv, LinesInv, First, NoOffset
<1> QED BY <1>3, <1>4, <1>5 DEF CallInv

LEMMA SaveOffsetInv ==
    ASSUME TypeOK, FilesInv, CallInv, SaveOffset
    PROVE  CallInv'
<1>1. /\ reader \in {"saveOld", "saveCur"} /\ saved' = mark
      /\ reader' = IF reader = "saveOld" THEN "cur" ELSE "output"
      /\ UNCHANGED <<names, base, size, written, at, cur, old, mark, batch, delivered>>
  BY DEF SaveOffset, Go, writerVars, callVars
<1>2. mark.inode # None \/ reader \in {"saveOld", "saveCur"}
  BY <1>1
<1>3. mark.inode # None /\ at.line <= mark.line
  BY <1>1 DEF CallInv, OffsetsInv
<1>4. OffsetsInv'
  BY <1>1, <1>3 DEF CallInv, OffsetsInv, Sound
<1>5. NamesInv'
  BY <1>1 DEF CallInv, NamesInv
<1>6. LinesInv'
  BY <1>1, <1>3 DEF CallInv, LinesInv, First
<1> QED BY <1>4, <1>5, <1>6 DEF CallInv

LEMMA OutputInv ==
    ASSUME TypeOK, TypeOK', FilesInv, CallInv, Output
    PROVE  CallInv'
<1>1. /\ reader = "output" /\ delivered' = delivered \cup Kept /\ Kept \subseteq batch
      /\ reader' = "idle" /\ batch' = {} /\ at' = NoOffset /\ mark' = NoOffset
      /\ UNCHANGED <<names, base, size, written, saved>>
  BY DEF Output, Return, Go, writerVars, Kept
<1>2. OffsetsInv'
  <2>1. Sound(at)' /\ Sound(mark)'
    <3>1. [Next]_vars
      BY DEF Next, ReaderStep
    <3> QED BY <1>1, <3>1, EmptyStaysSound DEF Sound
  <2> QED BY <1>1, <2>1 DEF CallInv, OffsetsInv, Sound
<1>3. NamesInv'
  BY <1>1 DEF NamesInv
<1>4. LinesInv'
  <2>1. saved = mark /\ at.line <= mark.line
    BY <1>1 DEF CallInv, OffsetsInv
  <2>2. at.line \in Nat /\ mark.line \in Nat /\ delivered \subseteq Nat
    BY DEF TypeOK, Offsets
  <2>3. \A n \in delivered : n <= saved.line
    BY <1>1, <2>1, <2>2 DEF CallInv, LinesInv
  <2>4. \A n \in batch : n <= saved.line
    BY <1>1, <2>1 DEF CallInv, LinesInv
  <2> QED BY <1>1, <2>3, <2>4 DEF LinesInv
<1> QED BY <1>2, <1>3, <1>4 DEF CallInv

LEMMA KillInv ==
    ASSUME TypeOK, TypeOK', FilesInv, CallInv, Kill, Calm'
    PROVE  CallInv'
<1>1. reader # "idle" /\ Return /\ UNCHANGED <<saved, delivered>>
  BY DEF Kill
<1>2. saved.inode = None => First
  BY DEF Kill, Calm
<1>3. [Next]_vars
  BY DEF Next
<1> QED BY <1>1, <1>2, <1>3, ReturnInv

LEMMA StepCall ==
    ASSUME IInv, TypeOK', [Next]_vars, Calm'
    PROVE  CallInv'
<1>1. TypeOK /\ FilesInv /\ CallInv
  BY StepCalm DEF IInv, CallInv
<1>2. CASE UNCHANGED vars
  BY <1>1, <1>2 DEF vars, CallInv, OffsetsInv, NamesInv, LinesInv, Sound, First
<1> QED
  BY <1>1, <1>2, WriterCall, StartCallInv, FindRotatedInv, TailOldInv, TailCurInv,
     ClearOffsetInv, SaveOffsetInv, OutputInv, KillInv DEF Next, ReaderStep

-----------------------------------------------------------------------------
\* The invariant holds of every history of the log and of its reader.
THEOREM LogInvariant == Spec => []IInv
<1>1. Init => IInv
  <2> SUFFICES ASSUME Init PROVE IInv
    OBVIOUS
  <2>1. TypeOK
    BY InitTypes
  <2>2. \A k \in 0..Gens : names[k] = None
    BY DEF Init
  <2>3. FilesInv
    BY <2>2, Zero DEF FilesInv, OneName, EndsWritten, Older
  <2>4. OffsetsInv
    BY <2>1, EmptySound DEF Init, OffsetsInv
  <2>5. NamesInv /\ LinesInv
    BY DEF Init, NamesInv, LinesInv
  <2> QED BY <2>1, <2>3, <2>4, <2>5 DEF IInv
<1>2. IInv /\ [Next]_vars => IInv'
  <2> SUFFICES ASSUME IInv, [Next]_vars PROVE IInv'
    OBVIOUS
  <2>1. TypeOK'
    BY StepTypes DEF IInv
  <2>2. FilesInv'
    BY StepFiles DEF IInv
  <2>3. Calm' => CallInv'
    BY <2>1, StepCall
  <2> QED BY <2>1, <2>2, <2>3 DEF IInv, CallInv
<1> QED BY <1>1, <1>2, PTL DEF Spec

\* Every state has its type.
THEOREM LogTypeCorrect == Spec => []TypeOK
<1>1. IInv => TypeOK
  BY DEF IInv
<1> QED BY <1>1, LogInvariant, PTL

\* No line is put out twice, unless a rotation fell into a call or a call was
\* killed while it wrote its offset.
THEOREM LogNoRepeat == Spec => []NoRepeat
<1>1. IInv => NoRepeat
  <2> SUFFICES ASSUME IInv, Calm PROVE batch \cap delivered = {}
    BY DEF NoRepeat, Calm
  <2>1. LinesInv /\ batch \subseteq Nat /\ delivered \subseteq Nat /\ at.line \in Nat
    BY DEF IInv, TypeOK, Offsets
  <2>2. CASE reader = "idle"
    BY <2>1, <2>2 DEF LinesInv
  <2>3. CASE reader # "idle"
    <3>1. \A n \in delivered : n <= at.line
      BY <2>1, <2>3 DEF LinesInv
    <3>2. \A n \in batch : n > at.line
      BY <2>1 DEF LinesInv
    <3> QED BY <2>1, <3>1, <3>2
  <2> QED BY <2>2, <2>3
<1> QED BY <1>1, LogInvariant, PTL

-----------------------------------------------------------------------------
(* The generations.                                                         *)

Named(k) == names[k] # None
LastLine(k) == base[names[k]] + size[names[k]]
Lowest(k) == Named(k) /\ \A j \in 1..Gens : j < k => ~Named(j)

\* No file is empty, a generation with a higher number is older, the lowest one
\* ends where the log begins, and none is missing but the one that the rotation
\* is about to fill.
NoEmpty == \A k \in 0..Gens : Named(k) => size[names[k]] > 0
Ordered == \A j, k \in 0..Gens :
    j < k /\ Named(j) /\ Named(k) => LastLine(k) <= base[names[j]]
Chain == \A k \in 1..Gens : Lowest(k) =>
    LastLine(k) = IF Named(0) THEN base[names[0]] ELSE written
Rotating ==
    /\ writer = "rename" => Named(0) /\ (slot < Gens => ~Named(slot))
    /\ \A k \in 2..Gens : Named(k) =>
          Named(k - 1) \/ (writer = "rename" /\ k - 1 = slot /\ Named(slot - 1))
SomeLowest == \A k \in 1..Gens : Named(k) => \E j \in 1..Gens : Lowest(j)
GensInv == NoEmpty /\ Ordered /\ Chain /\ Rotating /\ SomeLowest

LEMMA GenerationIndex ==
    /\ 0 \in 0..Gens
    /\ \A k \in 1..Gens : k \in 0..Gens /\ k # 0 /\ k - 1 \in 0..Gens /\ k > 0
    /\ \A k \in 0..Gens : k # 0 => k \in 1..Gens
    /\ \A k \in 2..Gens : k \in 1..Gens /\ k - 1 \in 1..Gens
OBVIOUS

\* A line more in the log, or a new log behind all the generations.
LEMMA WriteGens ==
    ASSUME TypeOK, FilesInv, GensInv, WriteLine, writer # "rename"
    PROVE  GensInv'
<1> USE DEF GensInv
<1>1. written' = written + 1 /\ written \in Nat /\ writer' = "idle"
  BY DEF WriteLine, TypeOK
<1>2. \A k \in 0..Gens : Named(k) =>
          names[k] \in Inodes /\ base[names[k]] \in Nat /\ size[names[k]] \in Nat
  BY NamedFile DEF Named
<1>3. CASE names[0] # None
  <2>1. size' = [size EXCEPT ![names[0]] = @ + 1] /\ UNCHANGED <<names, base>>
    BY <1>3 DEF WriteLine
  <2>2. size'[names[0]] = size[names[0]] + 1
    BY <1>2, <1>3, <2>1, Zero DEF TypeOK, Named
  <2>3. \A k \in 1..Gens : Named(k) => size'[names[k]] = size[names[k]]
    <3> TAKE k \in 1..Gens
    <3> HAVE Named(k)
    <3>1. names[k] # names[0]
      BY <1>3, GenerationIndex DEF FilesInv, OneName, Named
    <3> QED BY <1>2, <2>1, <3>1, GenerationIndex DEF TypeOK
  <2>4. NoEmpty'
    <3> SUFFICES ASSUME NEW k \in 0..Gens, Named(k) PROVE size'[names[k]] > 0
      BY <2>1 DEF NoEmpty, Named
    <3>1. size[names[k]] > 0 /\ size[names[k]] \in Nat
      BY <1>2 DEF NoEmpty
    <3> QED BY <2>2, <2>3, <3>1, GenerationIndex
  <2>5. Ordered'
    <3> SUFFICES ASSUME NEW j \in 0..Gens, NEW k \in 0..Gens, j < k, Named(j), Named(k)
                 PROVE  base[names[k]] + size'[names[k]] <= base[names[j]]
      BY <2>1 DEF Ordered, Named, LastLine
    <3>1. k \in 1..Gens
      OBVIOUS
    <3> QED BY <2>3, <3>1 DEF Ordered, LastLine
  <2>6. Chain'
    <3> SUFFICES ASSUME NEW k \in 1..Gens, Lowest(k)
                 PROVE  base[names[k]] + size'[names[k]] = base[names[0]]
      BY <1>3, <2>1 DEF Chain, Named, LastLine, Lowest
    <3>1. LastLine(k) = base[names[0]]
      BY <1>3 DEF Chain, Named
    <3> QED BY <2>3, <3>1 DEF LastLine, Lowest
  <2>7. Rotating'
    BY <1>1, <2>1 DEF Rotating, Named
  <2>8. SomeLowest'
    BY <2>1 DEF SomeLowest, Lowest, Named
  <2> QED BY <2>4, <2>5, <2>6, <2>7, <2>8
<1>4. CASE names[0] = None
  <2>1. PICK i \in Inodes \ {names[k] : k \in 0..Gens} :
            /\ names' = [names EXCEPT ![0] = i]
            /\ base' = [base EXCEPT ![i] = written]
            /\ size' = [size EXCEPT ![i] = 1]
    BY <1>4 DEF WriteLine
  <2>2. names'[0] = i /\ base'[i] = written /\ size'[i] = 1 /\ i # None
    BY <2>1, Zero DEF TypeOK
  <2>3. \A k \in 1..Gens : /\ names'[k] = names[k]
                           /\ Named(k) => /\ base'[names[k]] = base[names[k]]
                                          /\ size'[names[k]] = size[names[k]]
    <3> TAKE k \in 1..Gens
    <3>1. names'[k] = names[k] /\ names[k] # i
      BY <2>1, GenerationIndex DEF TypeOK
    <3> QED BY <1>2, <2>1, <3>1, GenerationIndex DEF TypeOK
  <2>4. NoEmpty'
    <3> SUFFICES ASSUME NEW k \in 0..Gens, names'[k] # None PROVE size'[names'[k]] > 0
      BY DEF NoEmpty, Named
    <3>1. CASE k = 0 BY <2>2, <3>1
    <3>2. CASE k # 0
      <4>1. k \in 1..Gens BY <3>2
      <4> QED BY <2>3, <4>1 DEF NoEmpty, Named
    <3> QED BY <3>1, <3>2
  <2>5. \A k \in 1..Gens : Named(k)' = Named(k) /\ (Named(k) => LastLine(k)' = LastLine(k))
    BY <2>3 DEF Named, LastLine
  <2>6. Ordered'
    <3> SUFFICES ASSUME NEW j \in 0..Gens, NEW k \in 0..Gens, j < k, Named(j)', Named(k)'
                 PROVE  LastLine(k)' <= base'[names'[j]]
      BY DEF Ordered, Named, LastLine
    <3>1. k \in 1..Gens /\ Named(k) /\ LastLine(k)' = LastLine(k)
      <4>1. k \in 1..Gens OBVIOUS
      <4> QED BY <2>5, <4>1
    <3>2. CASE j = 0
      <4>1. LastLine(k) <= written
        BY <3>1, GenerationIndex DEF FilesInv, EndsWritten, LastLine, Named
      <4> QED BY <2>2, <3>1, <3>2, <4>1
    <3>3. CASE j # 0
      <4>1. j \in 1..Gens BY <3>3
      <4> QED BY <2>3, <2>5, <3>1, <4>1 DEF Ordered
    <3> QED BY <3>2, <3>3
  <2>7. Chain'
    <3> SUFFICES ASSUME NEW k \in 1..Gens, Lowest(k)'
                 PROVE  LastLine(k)' = base'[names'[0]]
      BY <2>2 DEF Chain, Named, LastLine, Lowest
    <3>1. Lowest(k) /\ Named(k)
      BY <2>5 DEF Lowest
    <3>2. LastLine(k) = written
      BY <1>4, <3>1 DEF Chain, Named
    <3> QED BY <2>2, <2>5, <3>1, <3>2
  <2>8. Rotating'
    <3>1. \A k \in 2..Gens : Named(k)' => Named(k - 1)'
      <4> TAKE k \in 2..Gens
      <4>1. k \in 1..Gens /\ k - 1 \in 1..Gens OBVIOUS
      <4>2. Named(k) => Named(k - 1) BY DEF Rotating
      <4> QED BY <2>3, <4>1, <4>2 DEF Named
    <3> QED BY <1>1, <3>1 DEF Rotating, Named
  <2>9. SomeLowest'
    BY <2>3 DEF SomeLowest, Lowest, Named
  <2> QED BY <2>4, <2>6, <2>7, <2>8, <2>9
<1> QED BY <1>3, <1>4

\* A round of a rotation overwrites a generation only with a newer one.
LEMMA NothingOverwritten ==
    ASSUME TypeOK, Rotating, Rename
    PROVE  Named(slot) => Named(slot - 1)
<1>1. writer = "rename" /\ slot \in 1..Gens
  BY DEF Rename, TypeOK
<1>2. CASE slot < Gens BY <1>1, <1>2 DEF Rotating
<1>3. CASE ~(slot < Gens)
  <2>1. slot \in 2..Gens /\ slot - 1 # slot
    BY <1>1, <1>3
  <2> QED BY <2>1 DEF Rotating
<1> QED BY <1>2, <1>3

\* A round of a rotation moves one generation up, or nothing.
LEMMA RenameGens ==
    ASSUME TypeOK, FilesInv, GensInv, Rename
    PROVE  GensInv'
<1> USE DEF GensInv
<1>1. UNCHANGED <<base, size, written>> /\ writer = "rename"
  BY DEF Rename
<1> DEFINE t == slot - 1
<1>2. /\ slot \in 0..Gens /\ t \in 0..Gens /\ slot # 0 /\ t < slot /\ slot \in 1..Gens
      /\ names'[slot] = names[t] /\ names'[t] = None
      /\ \A k \in 0..Gens : k # slot /\ k # t => names'[k] = names[k]
  <2>1. slot \in 1..Gens
    BY DEF TypeOK
  <2> QED BY <2>1, Moved
<1>3. IF slot = 1 THEN writer' = "write" ELSE writer' = "rename" /\ slot' = t
  BY <1>1 DEF Rename, LastSlot
<1>4. Named(0) /\ (slot < Gens => ~Named(slot))
  BY <1>1 DEF Rotating
<1>5. \A k \in 2..Gens : Named(k) => Named(k - 1) \/ (k - 1 = slot /\ Named(t))
  BY DEF Rotating
<1>6. ~Named(t) => ~Named(slot)
  BY NothingOverwritten
<1> HIDE DEF t
<1>7. NoEmpty'
  BY <1>1, <1>2 DEF NoEmpty, Named
<1>8. Ordered'
  <2> SUFFICES ASSUME NEW j \in 0..Gens, NEW k \in 0..Gens, j < k,
                      names'[j] # None, names'[k] # None
               PROVE  base[names'[k]] + size[names'[k]] <= base[names'[j]]
    BY <1>1 DEF Ordered, Named, LastLine
  <2>1. j # t /\ k # t
    BY <1>2
  <2> DEFINE from(m) == IF m = slot THEN t ELSE m
  <2>2. from(j) \in 0..Gens /\ from(k) \in 0..Gens /\ from(j) < from(k)
    <3>1. CASE j = slot BY <1>2, <2>1, <3>1
    <3>2. CASE j # slot /\ k = slot
      <4>1. j < t BY <1>2, <2>1, <3>2 DEF t
      <4> QED BY <1>2, <3>2, <4>1
    <3>3. CASE j # slot /\ k # slot BY <3>3
    <3> QED BY <3>1, <3>2, <3>3
  <2>3. names'[j] = names[from(j)] /\ names'[k] = names[from(k)]
    BY <1>2, <2>1
  <2> HIDE DEF from
  <2> QED BY <2>2, <2>3 DEF Ordered, Named, LastLine
<1>9. Chain'
  <2>1. CASE slot = 1
    <3>1. t = 0
      BY <2>1 DEF t
    <3> SUFFICES ASSUME NEW k \in 1..Gens, Lowest(k)'
                 PROVE  base[names'[k]] + size[names'[k]] = written
      BY <1>1, <1>2, <3>1 DEF Chain, Named, LastLine
    <3>2. names'[1] = names[0] /\ names[0] # None
      BY <1>2, <1>4, <2>1, <3>1 DEF Named
    <3>3. k = 1
      <4>1. 1 \in 1..Gens /\ Named(1)'
        BY <3>2 DEF Named
      <4> QED BY <4>1 DEF Lowest
    <3> QED BY <3>2, <3>3 DEF FilesInv, EndsWritten
  <2>2. CASE slot # 1
    <3>1. t \in 1..Gens /\ names'[0] = names[0] /\ t # 0
      BY <1>2, <2>2, GenerationIndex DEF t
    <3> SUFFICES ASSUME NEW k \in 1..Gens, Lowest(k)'
                 PROVE  base[names'[k]] + size[names'[k]] = base[names[0]]
      BY <1>1, <1>4, <3>1 DEF Chain, Named, LastLine
    <3>2. k # t /\ names'[k] # None
      BY <1>2 DEF Lowest, Named
    <3>3. CASE k = slot
      <4>1. Lowest(t)
        <5>1. Named(t)
          BY <1>2, <3>2, <3>3 DEF Named
        <5>2. ASSUME NEW j \in 1..Gens, j < t PROVE ~Named(j)
          <6>1. j < k /\ j # slot /\ j # t
            BY <1>2, <3>3, <5>2
          <6>2. names'[j] = names[j]
            BY <1>2, <6>1, GenerationIndex
          <6> QED BY <6>1, <6>2 DEF Lowest, Named
        <5> QED BY <5>1, <5>2 DEF Lowest
      <4>2. LastLine(t) = base[names[0]]
        BY <1>4, <3>1, <4>1 DEF Chain
      <4> QED BY <1>2, <3>3, <4>2 DEF LastLine
    <3>4. CASE k # slot
      <4>1. names'[k] = names[k]
        BY <1>2, <3>2, <3>4, GenerationIndex
      <4>2. Lowest(k)
        <5> SUFFICES ASSUME NEW j \in 1..Gens, j < k, Named(j) PROVE FALSE
          BY <3>2, <4>1 DEF Lowest, Named
        <5>1. CASE j # slot /\ j # t
          <6>1. names'[j] = names[j]
            BY <1>2, <5>1, GenerationIndex
          <6> QED BY <6>1 DEF Lowest, Named
        <5>2. CASE j = slot \/ j = t
          <6>1. Named(t) BY <1>6, <5>2
          <6>2. names'[slot] # None BY <1>2, <6>1 DEF Named
          <6>3. slot < k BY <1>2, <3>2, <3>4, <5>2 DEF t
          <6>4. \A m \in 1..Gens : m < k => names'[m] = None BY DEF Lowest, Named
          <6> QED BY <1>2, <6>2, <6>3, <6>4
        <5> QED BY <5>1, <5>2
      <4>3. LastLine(k) = base[names[0]]
        BY <1>4, <4>2 DEF Chain
      <4> QED BY <4>1, <4>3 DEF LastLine
    <3> QED BY <3>3, <3>4
  <2> QED BY <2>1, <2>2
<1>10. Rotating'
  <2>1. ASSUME NEW k \in 2..Gens, names'[k] # None
        PROVE  \/ names'[k - 1] # None
               \/ slot # 1 /\ k - 1 = t /\ names'[t - 1] # None
    <3>1. k \in 1..Gens /\ k - 1 \in 1..Gens /\ k # t /\ k \in 0..Gens /\ k - 1 \in 0..Gens
      BY <1>2, <2>1, GenerationIndex
    <3>2. CASE k = slot
      <4>1. names[t] # None /\ t = k - 1 /\ t \in 1..Gens /\ slot # 1
        BY <1>2, <2>1, <3>1, <3>2 DEF t
      <4>2. t - 1 \in 0..Gens /\ t - 1 # t /\ t - 1 # slot
        BY <1>2, <4>1
      <4>3. names'[t - 1] = names[t - 1]
        BY <1>2, <4>2
      <4>4. Named(t - 1)
        <5>1. CASE t = 1 BY <1>4, <5>1
        <5>2. CASE t # 1
          <6>1. t \in 2..Gens /\ t - 1 # slot BY <1>2, <4>1, <5>2
          <6> QED BY <1>5, <4>1, <6>1 DEF Named
        <5> QED BY <5>1, <5>2
      <4> QED BY <4>1, <4>3, <4>4 DEF Named
    <3>3. CASE k # slot
      <4>1. names'[k] = names[k] /\ Named(k)
        BY <1>2, <2>1, <3>1, <3>3 DEF Named
      <4>2. CASE k - 1 = slot
        <5>1. Named(t) \/ Named(slot) BY <1>5, <4>1, <4>2
        <5>2. Named(t) BY <1>6, <5>1
        <5> QED BY <1>2, <4>2, <5>2 DEF Named
      <4>3. CASE k - 1 # slot
        <5>1. k - 1 # t BY <1>2, <3>1, <3>3 DEF t
        <5>2. Named(k - 1) BY <1>5, <4>1, <4>3
        <5> QED BY <1>2, <3>1, <4>3, <5>1, <5>2 DEF Named
      <4> QED BY <4>2, <4>3
    <3> QED BY <3>2, <3>3
  <2>2. CASE slot = 1
    BY <1>3, <2>1, <2>2 DEF Rotating, Named
  <2>3. CASE slot # 1
    <3>1. writer' = "rename" /\ slot' = t
      BY <1>3, <2>3
    <3>2. t # 0 /\ names'[0] = names[0]
      BY <1>2, <2>3, GenerationIndex DEF t
    <3> QED BY <1>2, <1>4, <2>1, <3>1, <3>2 DEF Rotating, Named
  <2> QED BY <2>2, <2>3
<1>11. SomeLowest'
  <2> SUFFICES ASSUME NEW k \in 1..Gens, names'[k] # None
               PROVE  \E j \in 1..Gens :
                          names'[j] # None /\ \A m \in 1..Gens : m < j => names'[m] = None
    BY DEF SomeLowest, Lowest, Named
  <2>1. CASE slot = 1
    <3>1. names'[1] # None /\ 1 \in 1..Gens
      BY <1>2, <1>4, <2>1 DEF Named, t
    <3> QED BY <3>1
  <2>2. CASE slot # 1
    <3>1. t \in 1..Gens
      BY <1>2, <2>2 DEF t
    <3>2. \E m \in 1..Gens : Named(m)
      BY <1>2, <3>1, GenerationIndex DEF Named
    <3>3. PICK j \in 1..Gens : Named(j) /\ \A m \in 1..Gens : m < j => ~Named(m)
      BY <3>2 DEF SomeLowest, Lowest
    <3>4. j # slot
      BY <1>2, <1>6, <3>1, <3>3
    <3>5. CASE j = t
      <4>1. names'[slot] # None
        BY <1>2, <3>3, <3>5 DEF Named
      <4>2. \A m \in 1..Gens : m < slot => m = t \/ m < j
        BY <1>2, <3>5 DEF t
      <4> QED BY <1>2, <3>3, <3>4, <4>1, <4>2, GenerationIndex DEF Named
    <3>6. CASE j # t
      <4>1. names'[j] # None
        BY <1>2, <3>3, <3>4, <3>6, GenerationIndex DEF Named
      <4>2. ASSUME NEW m \in 1..Gens, m < j PROVE names'[m] = None
        <5>1. CASE m = slot
          <6>1. ~Named(t) BY <1>2, <3>1, <3>3, <4>2, <5>1
          <6> QED BY <1>2, <5>1, <6>1 DEF Named
        <5>2. CASE m # slot BY <1>2, <3>3, <4>2, <5>2, GenerationIndex DEF Named
        <5> QED BY <5>1, <5>2
      <4> QED BY <4>1, <4>2
    <3> QED BY <3>5, <3>6
  <2> QED BY <2>1, <2>2
<1> QED BY <1>7, <1>8, <1>9, <1>10, <1>11

LEMMA StepGens ==
    ASSUME TypeOK, FilesInv, GensInv, [Next]_vars
    PROVE  GensInv'
<1>1. CASE Log \/ LogAfterRotate
  BY <1>1, WriteGens DEF Log, LogAfterRotate
<1>2. CASE Rename
  BY <1>2, RenameGens
<1>3. CASE BeginRotate
  <2>1. UNCHANGED <<names, base, size, written>> /\ Named(0) /\ slot' = Gens /\ writer = "idle"
    BY <1>3 DEF BeginRotate, Full, FirstSlot, Named
  <2>2. NoEmpty' /\ Ordered' /\ Chain'
    BY <2>1 DEF GensInv, NoEmpty, Ordered, Chain, Named, LastLine, Lowest
  <2>3. Rotating' /\ SomeLowest'
    BY <2>1 DEF GensInv, Rotating, SomeLowest, Lowest, Named
  <2> QED BY <2>2, <2>3 DEF GensInv
<1>4. CASE UNCHANGED <<names, base, size, written, writer, slot>>
  BY <1>4 DEF GensInv, NoEmpty, Ordered, Chain, Rotating, SomeLowest, Named, LastLine, Lowest
<1> QED
  BY <1>1, <1>2, <1>3, <1>4 DEF Next, WriterStep, ReaderStep,
     StartCall, FindRotated, TailOld, TailCur, ClearOffset, SaveOffset, Output, Kill,
     writerVars, vars

-----------------------------------------------------------------------------
(* What a call makes of the lines, as long as nothing has gone wrong.       *)

\* An offset is a place in its file, or beyond the end of one that grows no
\* more; and the file is there, or some generation that is newer than the offset.
Good(o) == o.inode # None =>
    /\ o.line = base[o.inode] + Smaller(o.pos, size[o.inode])
    /\ o.pos > size[o.inode] => o.inode # names[0]
InFiles(o) == o.inode # None =>
    \/ \E k \in 0..Gens : names[k] = o.inode
    \/ \E k \in 1..Gens : Named(k) /\ base[names[k]] >= o.line

LastSeen == base[cur.inode] + cur.size
Oldest == Larger(at.line, LastSeen - ScanLimit)
InOrder == reader \in {"clearOld", "saveOld", "cur"}
Read == reader \in {"clearCur", "saveCur", "output"}

\* Where the offsets are.
WhereInv ==
    /\ Good(saved) /\ InFiles(saved)
    /\ reader # "idle" => /\ Good(at) /\ InFiles(at)
                          /\ cur.inode # None /\ cur.size \in 1..size[cur.inode]
    /\ reader = "find" /\ First => at.line = base[cur.inode]
    /\ reader \in {"find", "old", "clearOld"} /\ ~First => saved = at
    /\ reader = "cur" /\ at.inode = cur.inode => saved = at
    /\ reader \notin {"idle", "find"} => at.inode \in {None, cur.inode, old.inode}
    /\ reader = "old" => /\ old.inode # cur.inode /\ old.size = size[old.inode]
                         /\ base[old.inode] + old.size = base[cur.inode]
    /\ reader \in {"clearOld", "saveOld"} =>
          at.inode # cur.inode /\ mark.inode = old.inode /\ Good(mark) /\ InFiles(mark)
    /\ Read => mark.inode = cur.inode /\ Good(mark) /\ InFiles(mark)

\* What has been read are the lines above the offset, or above the limit, up to
\* the place where the reading goes on; the log is read only if it has more.
BatchInv ==
    /\ reader \in {"idle", "find", "old"} => batch = {}
    /\ InOrder => batch = (Oldest + 1)..(base[cur.inode] + CurPos)
    /\ Read => /\ batch = (Oldest + 1)..mark.line
               /\ LastSeen <= mark.line /\ at.line < mark.line

Steady == cause \cap Astray = {}
SteadyInv == WhereInv /\ BatchInv

\* What the offset covers has been put out or passed over; what lies between it
\* and the place where the reading goes on has been read or passed over.
CoverInv ==
    /\ reader = "idle" => 1..saved.line \subseteq delivered \cup skipped
    /\ reader # "idle" => 1..at.line \subseteq delivered \cup skipped
    /\ InOrder => (at.line + 1)..(base[cur.inode] + CurPos) \subseteq batch \cup skipped
    /\ Read => (at.line + 1)..mark.line \subseteq batch \cup skipped

Quiet == cause = {}

\* The files that the reader knows keep their lines, and only the log grows.
LEMMA WriterFile ==
    ASSUME TypeOK, WriterStep, Steady', NEW i \in Inodes, i \in Known
    PROVE  /\ base'[i] = base[i] /\ base[i] \in Nat
           /\ size[i] \in Nat /\ size'[i] \in Nat /\ size'[i] >= size[i]
           /\ i # names[0] => size'[i] = size[i] /\ i # names'[0]
<1>1. base[i] \in Nat /\ size[i] \in Nat /\ i # None
  BY DEF TypeOK
<1>2. CASE WriteLine
  <2>1. CASE names[0] # None
    <3>1. base' = base /\ size' = [size EXCEPT ![names[0]] = @ + 1] /\ names' = names
      BY <1>2, <2>1 DEF WriteLine
    <3>2. size \in [Inodes -> Nat]
      BY DEF TypeOK
    <3>3. size'[i] = IF i = names[0] THEN size[i] + 1 ELSE size[i]
      BY <3>1, <3>2
    <3>4. size'[i] \in Nat /\ size'[i] >= size[i] /\ (i # names[0] => size'[i] = size[i])
      BY <1>1, <3>3
    <3> QED BY <1>1, <3>1, <3>4
  <2>2. CASE names[0] = None
    <3>1. PICK j \in Inodes : /\ names' = [names EXCEPT ![0] = j]
                              /\ base' = [base EXCEPT ![j] = written]
                              /\ size' = [size EXCEPT ![j] = 1]
                              /\ cause' = cause \cup IF j \in Known THEN {"reused"} ELSE {}
      BY <1>2, <2>2 DEF WriteLine
    <3>2. j # i
      BY <3>1 DEF Steady, Astray
    <3>3. names'[0] = j
      BY <3>1, Zero DEF TypeOK
    <3> QED BY <1>1, <3>1, <3>2, <3>3 DEF TypeOK
  <2> QED BY <2>1, <2>2
<1>3. CASE Rename
  <2>1. names'[0] = None \/ names'[0] = names[0]
    BY <1>3, Moved, Zero
  <2> QED BY <1>1, <1>3, <2>1 DEF Rename
<1>4. CASE BeginRotate
  BY <1>1, <1>4 DEF BeginRotate
<1> QED BY <1>2, <1>3, <1>4 DEF WriterStep, Log, LogAfterRotate

\* An offset in such a file stays a place in it, and is never left without a
\* newer generation when its file is gone.
LEMMA WriterOffset ==
    ASSUME TypeOK, FilesInv, GensInv, WriterStep, Steady', NEW o \in Offsets,
           o.inode # None => o.inode \in Known, Good(o), InFiles(o)
    PROVE  /\ o.inode # None =>
                  /\ o.line = base'[o.inode] + Smaller(o.pos, size'[o.inode])
                  /\ o.pos > size'[o.inode] => o.inode # names'[0]
           /\ o.inode # None =>
                  \/ \E k \in 0..Gens : names'[k] = o.inode
                  \/ \E k \in 1..Gens : names'[k] # None /\ base'[names'[k]] >= o.line
<1> SUFFICES ASSUME o.inode # None
             PROVE  /\ /\ o.line = base'[o.inode] + Smaller(o.pos, size'[o.inode])
                       /\ o.pos > size'[o.inode] => o.inode # names'[0]
                    /\ \/ \E k \in 0..Gens : names'[k] = o.inode
                       \/ \E k \in 1..Gens : names'[k] # None /\ base'[names'[k]] >= o.line
  OBVIOUS
<1>1. o.inode \in Inodes /\ o.pos \in Nat /\ o.line \in Nat
  BY DEF Offsets, Files
<1>2. /\ o.line = base[o.inode] + Smaller(o.pos, size[o.inode])
      /\ o.pos > size[o.inode] => o.inode # names[0]
      /\ base[o.inode] \in Nat /\ size[o.inode] \in Nat
      /\ o.line <= base[o.inode] + size[o.inode]
  <2>1. base[o.inode] \in Nat /\ size[o.inode] \in Nat
    BY <1>1 DEF TypeOK
  <2>2. /\ o.line = base[o.inode] + Smaller(o.pos, size[o.inode])
        /\ o.pos > size[o.inode] => o.inode # names[0]
    BY DEF Good
  <2>3. Smaller(o.pos, size[o.inode]) <= size[o.inode] /\ Smaller(o.pos, size[o.inode]) \in Nat
    BY <1>1, <2>1 DEF Smaller
  <2> QED BY <1>1, <2>1, <2>2, <2>3
<1>3. /\ o.line = base'[o.inode] + Smaller(o.pos, size'[o.inode])
      /\ o.pos > size'[o.inode] => o.inode # names'[0]
  <2>1. /\ base'[o.inode] = base[o.inode]
        /\ size'[o.inode] \in Nat /\ size'[o.inode] >= size[o.inode]
        /\ o.inode # names[0] => size'[o.inode] = size[o.inode] /\ o.inode # names'[0]
    BY <1>1, WriterFile
  <2>2. CASE o.inode # names[0]
    <3>1. size'[o.inode] = size[o.inode] /\ o.inode # names'[0]
      BY <2>1, <2>2
    <3> QED BY <1>2, <2>1, <3>1
  <2>3. CASE o.inode = names[0]
    <3>1. o.pos <= size[o.inode] /\ o.pos <= size'[o.inode]
      BY <1>1, <1>2, <2>1, <2>3
    <3>2. Smaller(o.pos, size[o.inode]) = o.pos /\ Smaller(o.pos, size'[o.inode]) = o.pos
      BY <3>1 DEF Smaller
    <3>3. ~(o.pos > size'[o.inode])
      BY <1>1, <2>1, <3>1
    <3> QED BY <1>2, <2>1, <3>2, <3>3
  <2> QED BY <2>2, <2>3
<1>4. \/ \E k \in 0..Gens : names[k] = o.inode
      \/ \E k \in 1..Gens : Named(k) /\ base[names[k]] >= o.line
  BY DEF InFiles
<1>5. CASE WriteLine
  <2>1. CASE names[0] # None
    <3>1. UNCHANGED <<names, base>>
      BY <1>5, <2>1 DEF WriteLine
    <3> QED BY <1>3, <1>4, <3>1 DEF Named
  <2>2. CASE names[0] = None
    <3>1. PICK i \in Inodes \ {names[k] : k \in 0..Gens} :
              names' = [names EXCEPT ![0] = i] /\ base' = [base EXCEPT ![i] = written]
      BY <1>5, <2>2 DEF WriteLine
    <3>2. \A k \in 1..Gens : names'[k] = names[k] /\ names[k] # i
      BY <3>1, GenerationIndex DEF TypeOK
    <3>3. \A k \in 1..Gens : Named(k) => base'[names'[k]] = base[names[k]]
      <4> TAKE k \in 1..Gens
      <4> HAVE Named(k)
      <4>1. names[k] \in Inodes
        BY NamedFile, GenerationIndex DEF Named
      <4> QED BY <3>1, <3>2, <4>1 DEF TypeOK
    <3>4. ASSUME NEW k \in 0..Gens, names[k] = o.inode PROVE names'[k] = o.inode
      <4>1. k \in 1..Gens
        BY <2>2, <3>4
      <4> QED BY <3>2, <3>4, <4>1
    <3> QED BY <1>3, <1>4, <3>2, <3>3, <3>4 DEF Named
  <2> QED BY <2>1, <2>2
<1>6. CASE Rename
  <2> DEFINE t == slot - 1
  <2>1. /\ slot \in 0..Gens /\ t \in 0..Gens /\ slot # 0 /\ t < slot /\ slot \in 1..Gens
        /\ names'[slot] = names[t] /\ names'[t] = None
        /\ \A k \in 0..Gens : k # slot /\ k # t => names'[k] = names[k]
    <3>1. slot \in 1..Gens
      BY DEF TypeOK
    <3> QED BY <1>6, <3>1, Moved
  <2>2. base' = base
    BY <1>6 DEF Rename
  <2>3. Named(slot) => Named(t) /\ LastLine(slot) <= base[names[t]]
    <3>1. Named(slot) => Named(t)
      BY <1>6, NothingOverwritten DEF GensInv
    <3> QED BY <2>1, <3>1 DEF GensInv, Ordered
  <2>4. \A k \in 0..Gens : Named(k) => base[names[k]] \in Nat /\ size[names[k]] \in Nat
    BY NamedFile DEF Named
  <2>5. Named(t) /\ base[names[t]] >= o.line =>
            \E k \in 1..Gens : names'[k] # None /\ base'[names'[k]] >= o.line
    BY <2>1, <2>2 DEF Named
  <2> HIDE DEF t
  <2>6. ASSUME NEW k \in 0..Gens, names[k] = o.inode
        PROVE  \/ \E j \in 0..Gens : names'[j] = o.inode
               \/ \E j \in 1..Gens : names'[j] # None /\ base'[names'[j]] >= o.line
    <3>1. CASE k # slot /\ k # t BY <2>1, <2>6, <3>1
    <3>2. CASE k = t BY <2>1, <2>6, <3>2
    <3>3. CASE k = slot
      <4>1. Named(t) /\ LastLine(slot) <= base[names[t]]
        BY <2>3, <2>6, <3>3 DEF Named
      <4>2. base[names[t]] >= o.line
        <5>1. base[names[t]] \in Nat /\ base[o.inode] \in Nat /\ size[o.inode] \in Nat
          BY <1>1, <2>1, <2>4, <4>1 DEF TypeOK
        <5> QED BY <1>1, <1>2, <2>6, <3>3, <4>1, <5>1 DEF LastLine
      <4> QED BY <2>5, <4>1, <4>2
    <3> QED BY <3>1, <3>2, <3>3
  <2>7. ASSUME NEW k \in 1..Gens, Named(k), base[names[k]] >= o.line
        PROVE  \E j \in 1..Gens : names'[j] # None /\ base'[names'[j]] >= o.line
    <3>1. CASE k # slot /\ k # t BY <2>1, <2>2, <2>7, <3>1, GenerationIndex DEF Named
    <3>2. CASE k = t BY <2>5, <2>7, <3>2
    <3>3. CASE k = slot
      <4>1. Named(t) /\ LastLine(slot) <= base[names[t]]
        BY <2>3, <2>7, <3>3
      <4>2. base[names[t]] >= o.line
        <5>1. base[names[t]] \in Nat /\ base[names[k]] \in Nat /\ size[names[k]] \in Nat
          BY <2>1, <2>4, <2>7, <4>1, GenerationIndex
        <5> QED BY <1>1, <2>7, <3>3, <4>1, <5>1 DEF LastLine
      <4> QED BY <2>5, <4>1, <4>2
    <3> QED BY <3>1, <3>2, <3>3
  <2> QED BY <1>3, <1>4, <2>6, <2>7
<1>7. CASE BeginRotate
  BY <1>3, <1>4, <1>7 DEF BeginRotate, Named
<1> QED BY <1>5, <1>6, <1>7 DEF WriterStep, Log, LogAfterRotate

\* The writer does not disturb the call.
LEMMA WriterSteady ==
    ASSUME TypeOK, FilesInv, GensInv, CallInv, SteadyInv, WriterStep, Steady'
    PROVE  SteadyInv' /\ (CoverInv => CoverInv')
<1> USE DEF SteadyInv
<1>1. UNCHANGED <<saved, reader, at, cur, old, mark, batch, delivered, skipped>>
  BY DEF WriterStep, Log, LogAfterRotate, BeginRotate, WriteLine, Rename, callVars
<1> DEFINE Marked == reader \in {"clearOld", "saveOld"} \/ Read
<1>2. /\ saved.inode \in Known
      /\ reader # "idle" /\ at.inode # None => at.inode \in Known
      /\ Marked => mark.inode \in Known
      /\ cur.inode \in Known /\ old.inode \in Known
  BY DEF WhereInv, Known, First, Read
<1>3. saved \in Offsets /\ at \in Offsets /\ mark \in Offsets
  BY DEF TypeOK
<1>4. Good(saved)' /\ InFiles(saved)'
  <2>1. Good(saved) /\ InFiles(saved)
    BY DEF WhereInv
  <2> QED BY <1>1, <1>2, <1>3, <2>1, WriterOffset DEF Good, InFiles, Named
<1>5. reader # "idle" => Good(at)' /\ InFiles(at)'
  <2> SUFFICES ASSUME reader # "idle" PROVE Good(at)' /\ InFiles(at)'
    OBVIOUS
  <2>1. Good(at) /\ InFiles(at)
    BY DEF WhereInv
  <2> QED BY <1>1, <1>2, <1>3, <2>1, WriterOffset DEF Good, InFiles, Named
<1>6. Marked => Good(mark)' /\ InFiles(mark)'
  <2> SUFFICES ASSUME Marked PROVE Good(mark)' /\ InFiles(mark)'
    OBVIOUS
  <2>1. Good(mark) /\ InFiles(mark)
    BY DEF WhereInv
  <2> QED BY <1>1, <1>2, <1>3, <2>1, WriterOffset DEF Good, InFiles, Named
<1>7. reader # "idle" => /\ cur.inode \in Inodes /\ base'[cur.inode] = base[cur.inode]
                         /\ cur.size \in 1..size'[cur.inode]
  <2> SUFFICES ASSUME reader # "idle"
               PROVE  /\ cur.inode \in Inodes /\ base'[cur.inode] = base[cur.inode]
                      /\ cur.size \in 1..size'[cur.inode]
    OBVIOUS
  <2>1. cur.inode \in Inodes /\ cur.size \in 1..size[cur.inode] /\ cur.size \in Nat
    BY DEF WhereInv, TypeOK, Files
  <2>2. /\ base'[cur.inode] = base[cur.inode]
        /\ size[cur.inode] \in Nat /\ size'[cur.inode] \in Nat
        /\ size'[cur.inode] >= size[cur.inode]
    BY <1>2, <2>1, WriterFile
  <2> QED BY <2>1, <2>2
<1>8. reader = "old" => /\ old.size = size'[old.inode]
                        /\ base'[old.inode] + old.size = base'[cur.inode]
  <2> SUFFICES ASSUME reader = "old"
               PROVE  /\ old.size = size'[old.inode]
                      /\ base'[old.inode] + old.size = base'[cur.inode]
    OBVIOUS
  <2>1. /\ old.inode # cur.inode /\ old.size = size[old.inode]
        /\ base[old.inode] + old.size = base[cur.inode]
    BY DEF WhereInv
  <2>2. names[0] = cur.inode /\ old.inode # None /\ old.inode \in Inodes
    BY DEF CallInv, NamesInv, TypeOK, Files
  <2>3. base'[old.inode] = base[old.inode] /\ size'[old.inode] = size[old.inode]
    BY <1>2, <2>1, <2>2, WriterFile
  <2> QED BY <1>7, <2>1, <2>3
<1>9. WhereInv'
  BY <1>1, <1>4, <1>5, <1>6, <1>7, <1>8 DEF WhereInv, First, Read
<1>10. CoverInv => CoverInv'
  BY <1>1, <1>7 DEF CoverInv, InOrder, Read, CurPos
<1>11. BatchInv'
  <2>1. CASE reader \in {"idle", "find", "old"}
    BY <1>1, <2>1 DEF BatchInv, InOrder, Read
  <2>2. CASE reader \notin {"idle", "find", "old"}
    <3>1. Oldest' = Oldest /\ LastSeen' = LastSeen /\ base'[cur.inode] = base[cur.inode]
      BY <1>1, <1>7, <2>2 DEF Oldest, LastSeen, ScanLimit, First
    <3> QED BY <1>1, <2>2, <3>1 DEF BatchInv, InOrder, Read, CurPos
  <2> QED BY <2>1, <2>2
<1> QED BY <1>9, <1>10, <1>11

\* A call begins at the offset, or, the first time, at the log.
LEMMA StartSteady ==
    ASSUME TypeOK, FilesInv, GensInv, CallInv, SteadyInv, StartCall
    PROVE  SteadyInv' /\ (CoverInv => CoverInv')
<1> USE DEF SteadyInv
<1>1. /\ reader = "idle" /\ reader' = "find" /\ names[0] # None
      /\ cur' = [inode |-> names[0], size |-> size[names[0]]]
      /\ UNCHANGED <<names, base, size, written, saved, batch, delivered>>
  BY DEF StartCall, Go, writerVars
<1>2. names[0] \in Inodes /\ base[names[0]] \in Nat /\ size[names[0]] \in Nat
      /\ size[names[0]] > 0
  BY <1>1, NamedFile, Zero DEF GensInv, NoEmpty, Named
<1>3. \/ saved.inode # None /\ at' = saved /\ skipped' = skipped
      \/ /\ saved.inode = None /\ at'.inode = None /\ at'.line = base[names[0]]
         /\ skipped' = skipped \cup 1..base[names[0]]
  BY DEF StartCall, NoOffset
<1>4. WhereInv'
  <2>1. Good(saved) /\ InFiles(saved)
    BY DEF WhereInv
  <2>2. Good(saved)' /\ InFiles(saved)' /\ Good(at)' /\ InFiles(at)'
    BY <1>1, <1>3, <2>1 DEF Good, InFiles, Named
  <2>3. cur'.inode # None /\ cur'.size \in 1..size'[cur'.inode]
    BY <1>1, <1>2
  <2>4. First' => at'.line = base[cur'.inode]
    BY <1>1, <1>3 DEF First
  <2>5. ~First' => saved' = at'
    BY <1>1, <1>3 DEF First
  <2> QED BY <1>1, <2>2, <2>3, <2>4, <2>5 DEF WhereInv, Read
<1>5. CoverInv => CoverInv'
  <2>1. CoverInv => 1..at'.line \subseteq delivered \cup skipped'
    BY <1>1, <1>3 DEF CoverInv
  <2> QED BY <1>1, <2>1 DEF CoverInv, InOrder, Read
<1>6. BatchInv'
  BY <1>1 DEF BatchInv, InOrder, Read
<1> QED BY <1>4, <1>5, <1>6

\* What the newest generation is.
LEMMA NewestEnds ==
    ASSUME TypeOK, FilesInv, GensInv, names[0] # None, NEW k \in Newest
    PROVE  /\ k \in 1..Gens /\ k \in 0..Gens /\ names[k] # None /\ names[k] # names[0]
           /\ base[names[k]] + size[names[k]] = base[names[0]]
           /\ names[k] \in Inodes /\ base[names[k]] \in Nat /\ size[names[k]] \in Nat
           /\ \A j \in 1..Gens : Named(j) /\ j # k =>
                  k < j /\ base[names[j]] + size[names[j]] <= base[names[k]]
<1>1. /\ k \in 1..Gens /\ k \in 0..Gens /\ names[k] # None
      /\ \A g \in 1..Gens : names[g] # None => base[names[g]] <= base[names[k]]
  BY GenerationIndex DEF Newest
<1>2. names[k] \in Inodes /\ base[names[k]] \in Nat /\ size[names[k]] \in Nat
  BY <1>1, NamedFile
<1>3. names[k] # names[0]
  BY <1>1, GenerationIndex DEF FilesInv, OneName
<1>4. ASSUME NEW j \in 1..Gens, Named(j) PROVE ~(j < k)
  <2> SUFFICES ASSUME j < k PROVE FALSE
    OBVIOUS
  <2>1. LastLine(k) <= base[names[j]]
    BY <1>1, <1>4, GenerationIndex DEF GensInv, Ordered, Named
  <2>2. size[names[k]] > 0
    BY <1>1 DEF GensInv, NoEmpty, Named
  <2>3. base[names[j]] <= base[names[k]] /\ base[names[j]] \in Nat
    BY <1>1, <1>4, NamedFile, GenerationIndex DEF Named
  <2> QED BY <1>2, <2>1, <2>2, <2>3 DEF LastLine
<1>5. base[names[k]] + size[names[k]] = base[names[0]]
  BY <1>1, <1>4 DEF GensInv, Chain, Lowest, Named, LastLine
<1>6. ASSUME NEW j \in 1..Gens, Named(j), j # k
      PROVE  k < j /\ base[names[j]] + size[names[j]] <= base[names[k]]
  <2>1. k < j
    BY <1>1, <1>4, <1>6
  <2> QED BY <1>1, <1>6, <2>1, GenerationIndex DEF GensInv, Ordered, Named, LastLine
<1> QED BY <1>1, <1>2, <1>3, <1>5, <1>6

\* The lowest one is the newest.
LEMMA LowestIsNewest ==
    ASSUME TypeOK, FilesInv, GensInv, Newest = {}
    PROVE  \A k \in 1..Gens : names[k] = None
<1> SUFFICES ASSUME NEW k \in 1..Gens, Named(k) PROVE FALSE
  BY DEF Named
<1>1. PICK j \in 1..Gens : Named(j) /\ \A m \in 1..Gens : m < j => ~Named(m)
  BY DEF GensInv, SomeLowest, Lowest
<1>2. ASSUME NEW g \in 1..Gens, names[g] # None PROVE base[names[g]] <= base[names[j]]
  <2>1. /\ base[names[g]] \in Nat /\ size[names[g]] \in Nat
        /\ base[names[j]] \in Nat /\ size[names[j]] \in Nat
    BY <1>1, <1>2, NamedFile, GenerationIndex DEF Named
  <2>2. CASE g = j BY <2>1, <2>2
  <2>3. CASE g # j
    <3>1. j < g BY <1>1, <1>2, <2>3 DEF Named
    <3>2. base[names[g]] + size[names[g]] <= base[names[j]]
      BY <1>1, <1>2, <3>1, GenerationIndex DEF GensInv, Ordered, LastLine, Named
    <3> QED BY <2>1, <3>2
  <2> QED BY <2>2, <2>3
<1>3. j \in Newest
  BY <1>1, <1>2 DEF Newest, Named
<1> QED BY <1>3

\* Unless the offset is older than the newest generation, it is in that one or
\* in the log.
LEMMA FindSteady ==
    ASSUME TypeOK, FilesInv, GensInv, CallInv, SteadyInv, FindRotated, Steady'
    PROVE  SteadyInv' /\ (CoverInv => CoverInv')
<1> USE DEF SteadyInv
<1>1. /\ reader = "find" /\ reader' \in {"old", "cur"}
      /\ UNCHANGED <<names, base, size, written, saved, at, cur, mark, batch,
                     delivered, skipped>>
  BY DEF FindRotated, Go, writerVars
<1>2. /\ Good(at) /\ InFiles(at) /\ cur.inode # None /\ cur.size \in 1..size[cur.inode]
      /\ First => at.line = base[cur.inode]
      /\ ~First => saved = at
      /\ Good(saved) /\ InFiles(saved)
  BY <1>1 DEF WhereInv
<1>3. names[0] = cur.inode /\ cur.inode \in Inodes /\ base[cur.inode] \in Nat
      /\ at.pos \in Nat /\ at.line \in Nat /\ cur.size \in Nat
  BY <1>1, <1>2, NamedFile, Zero DEF CallInv, NamesInv, TypeOK, Offsets
<1>4. /\ at.inode \in {None, cur.inode, old'.inode}
      /\ reader' = "old" => /\ at.inode = old'.inode
                            /\ old'.inode # cur.inode /\ old'.size = size[old'.inode]
                            /\ base[old'.inode] + old'.size = base[cur.inode]
      /\ reader' = "cur" => at.inode = cur.inode \/ at.line = base[cur.inode]
  <2>1. CASE Newest = {} /\ reader' = "cur" /\ old' = old
    <3>1. \A k \in 1..Gens : names[k] = None
      BY <2>1, LowestIsNewest
    <3>2. CASE First BY <1>2, <2>1, <3>2 DEF First
    <3>3. CASE ~First
      <4>1. at.inode = names[0]
        BY <1>2, <3>1, <3>3, GenerationIndex DEF InFiles, First, Named
      <4> QED BY <1>3, <2>1, <4>1
    <3> QED BY <3>2, <3>3
  <2>2. ASSUME NEW k \in Newest,
               old' = [name |-> k, inode |-> names[k], size |-> size[names[k]]],
               reader' = IF at.inode = names[k] /\ at.pos < size[names[k]] THEN "old" ELSE "cur",
               First \/ base[names[k]] < at.line
        PROVE  /\ at.inode \in {None, cur.inode, old'.inode}
               /\ reader' = "old" => /\ at.inode = old'.inode
                                     /\ old'.inode # cur.inode /\ old'.size = size[old'.inode]
                                     /\ base[old'.inode] + old'.size = base[cur.inode]
               /\ reader' = "cur" => at.inode = cur.inode \/ at.line = base[cur.inode]
    <3>1. /\ k \in 1..Gens /\ k \in 0..Gens /\ names[k] # None /\ names[k] # names[0]
          /\ base[names[k]] + size[names[k]] = base[names[0]]
          /\ names[k] \in Inodes /\ base[names[k]] \in Nat /\ size[names[k]] \in Nat
          /\ \A j \in 1..Gens : Named(j) /\ j # k =>
                 k < j /\ base[names[j]] + size[names[j]] <= base[names[k]]
      BY <1>2, <1>3, NewestEnds
    <3>2. old'.inode = names[k] /\ old'.size = size[names[k]]
      BY <2>2
    <3>3. reader' = "old" => at.inode = names[k]
      BY <2>2
    <3>4. CASE First
      <4>1. reader' = "cur" BY <2>2, <3>1, <3>4 DEF First
      <4> QED BY <1>2, <3>4, <4>1 DEF First
    <3>5. CASE ~First
      <4>1. at.line = base[at.inode] + Smaller(at.pos, size[at.inode])
        BY <1>2, <3>5 DEF Good, First
      <4>2. base[names[k]] < at.line BY <2>2, <3>5
      <4>3. at.inode \in {cur.inode, names[k]}
        <5>1. \A j \in 1..Gens : Named(j) => base[names[j]] < at.line
          <6> TAKE j \in 1..Gens
          <6> HAVE Named(j)
          <6>1. base[names[j]] \in Nat /\ size[names[j]] \in Nat
            BY NamedFile, GenerationIndex DEF Named
          <6> QED BY <1>3, <3>1, <4>2, <6>1
        <5>2. ~ \E j \in 1..Gens : Named(j) /\ base[names[j]] >= at.line
          <6> SUFFICES ASSUME NEW j \in 1..Gens, Named(j), base[names[j]] >= at.line PROVE FALSE
            OBVIOUS
          <6>1. base[names[j]] \in Nat /\ base[names[j]] < at.line
            BY <5>1, NamedFile, GenerationIndex DEF Named
          <6> QED BY <1>3, <6>1
        <5>3. PICK j \in 0..Gens : names[j] = at.inode
          BY <1>2, <3>5, <5>2 DEF InFiles, First
        <5>4. CASE j = 0 BY <1>3, <5>3, <5>4
        <5>5. CASE j = k BY <5>3, <5>5
        <5>6. CASE j # 0 /\ j # k
          <6>1. j \in 1..Gens /\ Named(j)
            BY <3>5, <5>3, <5>6 DEF Named, First
          <6>2. base[names[j]] \in Nat /\ size[names[j]] \in Nat
            BY <6>1, NamedFile, GenerationIndex DEF Named
          <6>3. base[names[j]] + size[names[j]] <= base[names[k]]
            BY <3>1, <5>6, <6>1
          <6> QED BY <1>3, <3>1, <4>1, <4>2, <5>3, <6>2, <6>3 DEF Smaller
        <5> QED BY <5>4, <5>5, <5>6
      <4>4. reader' = "cur" => at.inode = cur.inode \/ at.line = base[cur.inode]
        <5> SUFFICES ASSUME reader' = "cur", at.inode = names[k]
                     PROVE  at.line = base[cur.inode]
          BY <4>3
        <5>1. ~(at.pos < size[names[k]]) BY <2>2
        <5> QED BY <1>3, <3>1, <4>1, <5>1 DEF Smaller
      <4> QED BY <1>3, <3>1, <3>2, <3>3, <4>3, <4>4
    <3> QED BY <3>4, <3>5
  <2>3. \/ Newest = {} /\ reader' = "cur" /\ old' = old
        \/ \E k \in Newest :
              /\ old' = [name |-> k, inode |-> names[k], size |-> size[names[k]]]
              /\ reader' = IF at.inode = names[k] /\ at.pos < size[names[k]] THEN "old" ELSE "cur"
              /\ First \/ base[names[k]] < at.line
    <3>1. CASE Newest = {} /\ Go("cur") /\ UNCHANGED <<old, cause>> BY <3>1 DEF Go
    <3>2. ASSUME NEW k \in Newest,
                 old' = [name |-> k, inode |-> names[k], size |-> size[names[k]]],
                 Go(IF at.inode = names[k] /\ at.pos < size[names[k]] THEN "old" ELSE "cur"),
                 cause' = cause \cup IF ~First /\ at.line <= base[names[k]] THEN {"late"} ELSE {}
          PROVE  First \/ base[names[k]] < at.line
      <4>1. ~(~First /\ at.line <= base[names[k]])
        BY <3>2 DEF Steady, Astray
      <4>2. base[names[k]] \in Nat
        BY <1>2, <1>3, NewestEnds
      <4> QED BY <1>3, <4>1, <4>2
    <3> QED BY <3>1, <3>2 DEF FindRotated, Go
  <2> QED BY <2>1, <2>2, <2>3
<1>5. WhereInv'
  BY <1>1, <1>2, <1>4 DEF WhereInv, First, Good, InFiles, Named, Read
<1>6. reader' = "cur" => at.line = base[cur.inode] + CurPos
  <2> SUFFICES ASSUME reader' = "cur" PROVE at.line = base[cur.inode] + CurPos
    OBVIOUS
  <2>1. CASE at.inode = cur.inode
    <3>1. Good(at)
      BY <1>2
    <3>2. size[cur.inode] \in Nat
      BY <1>3 DEF TypeOK
    <3>3. /\ at.line = base[cur.inode] + Smaller(at.pos, size[cur.inode])
          /\ ~(at.pos > size[cur.inode])
      BY <1>2, <1>3, <2>1, <3>1 DEF Good
    <3>4. Smaller(at.pos, size[cur.inode]) = at.pos
      BY <1>3, <3>2, <3>3 DEF Smaller
    <3> QED BY <2>1, <3>3, <3>4 DEF CurPos
  <2>2. CASE at.inode # cur.inode
    BY <1>3, <1>4, <2>2 DEF CurPos
  <2> QED BY <2>1, <2>2
<1>7. Oldest \in Int /\ Oldest >= at.line
  BY <1>3 DEF Oldest, Larger, LastSeen, ScanLimit
<1>8. CoverInv => CoverInv'
  <2>1. CoverInv => 1..at.line \subseteq delivered \cup skipped
    BY <1>1 DEF CoverInv
  <2>2. CurPos' = CurPos
    BY <1>1 DEF CurPos
  <2>3. reader' = "cur" => (at.line + 1)..(base[cur.inode] + CurPos) = {}
    BY <1>3, <1>6
  <2> QED BY <1>1, <2>1, <2>2, <2>3 DEF CoverInv, InOrder, Read
<1>9. BatchInv'
  <2>1. reader' = "cur" => (Oldest + 1)..(base[cur.inode] + CurPos) = {}
    BY <1>3, <1>6, <1>7
  <2>2. /\ Oldest' = Oldest /\ CurPos' = CurPos
    BY <1>1 DEF Oldest, LastSeen, ScanLimit, First, CurPos
  <2>3. batch = {}
    BY <1>1 DEF BatchInv
  <2> QED BY <1>1, <2>1, <2>2, <2>3 DEF BatchInv, InOrder, Read
<1> QED BY <1>5, <1>8, <1>9

\* Reading the newest generation closes the gap between the offset and the log.
LEMMA TailOldSteady ==
    ASSUME TypeOK, FilesInv, CallInv, SteadyInv, TailOld
    PROVE  SteadyInv' /\ (CoverInv => CoverInv')
<1> USE DEF SteadyInv
<1>1. /\ reader = "old"
      /\ UNCHANGED <<names, base, size, written, saved, delivered>>
  BY DEF TailOld, writerVars
<1>2. /\ old.name \in 1..Gens /\ names[old.name] = old.inode /\ old.inode # None
      /\ at.inode = old.inode /\ old.inode # cur.inode /\ old.size = size[old.inode]
      /\ base[old.inode] + old.size = base[cur.inode]
      /\ cur.inode # None /\ cur.size \in 1..size[cur.inode]
      /\ Good(at) /\ InFiles(at) /\ ~First /\ saved = at
      /\ names[0] = cur.inode /\ batch = {}
  BY <1>1 DEF CallInv, NamesInv, WhereInv, BatchInv, First
<1>3. /\ Tail(old.name, old.inode, at.pos, OldFrom)
      /\ reader' = "clearOld" /\ UNCHANGED <<at, cur, old>>
  BY <1>2 DEF TailOld, Go
<1> DEFINE b == base[old.inode]  n == old.size
<1>4. /\ b \in Nat /\ n \in Nat /\ at.pos \in Nat /\ at.line \in Nat /\ cur.size \in Nat
      /\ at.pos <= n /\ at.line = b + at.pos /\ base[cur.inode] = b + n
      /\ size[old.inode] = n /\ ScanLimit \in Nat
  <2>1. b \in Nat /\ size[old.inode] \in Nat
    BY <1>2, NamedFile, GenerationIndex
  <2>2. at.pos <= size[at.inode]
    BY <1>1, <1>2 DEF CallInv, NamesInv
  <2> QED BY <1>2, <2>1, <2>2 DEF Good, Smaller, TypeOK, Offsets, ScanLimit
<1>5. /\ batch' = batch \cup (b + OldFrom + 1)..(b + n)
      /\ skipped' = skipped \cup (b + at.pos + 1)..(b + Smaller(OldFrom, n))
      /\ mark' = [inode |-> old.inode, pos |-> Larger(OldFrom, n), line |-> b + n]
  BY <1>2, <1>3, <1>4 DEF Tail, End
<1>6. CurPos = 0 /\ CurPos' = 0
  BY <1>2, <1>3 DEF CurPos
<1>7. OldFrom \in Nat /\ OldFrom >= at.pos
  BY FromTypes
<1>8. b + OldFrom = Oldest
  BY <1>4 DEF Oldest, OldFrom, LastSeen, Larger
<1>9. WhereInv'
  <2>1. Good(mark)' /\ InFiles(mark)'
    <3>1. /\ mark'.inode = old.inode /\ mark'.pos = Larger(OldFrom, n)
          /\ mark'.line = b + n
      BY <1>5
    <3>2. Smaller(Larger(OldFrom, n), n) = n
      BY <1>4, <1>7 DEF Smaller, Larger
    <3>3. Good(mark)'
      BY <1>1, <1>2, <1>4, <3>1, <3>2 DEF Good
    <3>4. InFiles(mark)'
      BY <1>1, <1>2, <3>1, GenerationIndex DEF InFiles
    <3> QED BY <3>3, <3>4
  <2>2. mark'.inode = old.inode
    BY <1>5
  <2>3. Good(at)' /\ InFiles(at)'
    BY <1>1, <1>2, <1>3 DEF Good, InFiles, Named
  <2> QED BY <1>1, <1>2, <1>3, <2>1, <2>2, <2>3 DEF WhereInv, Read
<1> HIDE DEF b, n
<1>10. CoverInv => CoverInv'
  <2> SUFFICES ASSUME CoverInv PROVE CoverInv'
    OBVIOUS
  <2>1. (at.line + 1)..(b + n) \subseteq batch' \cup skipped'
    <3>1. (b + at.pos + 1)..(b + n) \subseteq
              (b + at.pos + 1)..(b + Smaller(OldFrom, n)) \cup (b + OldFrom + 1)..(b + n)
      BY <1>4, <1>7 DEF Smaller
    <3> QED BY <1>4, <1>5, <3>1
  <2>2. skipped \subseteq skipped' /\ 1..at.line \subseteq delivered \cup skipped
    BY <1>1, <1>5 DEF CoverInv
  <2> QED BY <1>1, <1>2, <1>3, <1>4, <1>6, <2>1, <2>2 DEF CoverInv, InOrder, Read
<1>11. BatchInv'
  <2>1. Oldest' = Oldest
    BY <1>1, <1>3 DEF Oldest, LastSeen, ScanLimit, First
  <2>2. batch' = (Oldest + 1)..(b + n)
    BY <1>2, <1>5, <1>8
  <2> QED BY <1>1, <1>3, <1>4, <1>6, <2>1, <2>2 DEF BatchInv, InOrder, Read
<1> QED BY <1>9, <1>10, <1>11

\* A call that ends early has left the offset and the lines as they were.
LEMMA ReturnSteady ==
    ASSUME TypeOK, SteadyInv, Return, UNCHANGED <<writerVars, saved>>
    PROVE  SteadyInv'
<1>1. reader' = "idle" /\ batch' = {} /\ UNCHANGED <<names, base, size, saved>>
  BY DEF Return, Go, writerVars
<1>2. Good(saved) /\ InFiles(saved)
  BY DEF SteadyInv, WhereInv
<1>3. WhereInv'
  BY <1>1, <1>2 DEF WhereInv, Good, InFiles, Named, Read
<1>4. BatchInv'
  BY <1>1 DEF BatchInv, InOrder, Read
<1> QED BY <1>3, <1>4 DEF SteadyInv

LEMMA ReturnCover ==
    ASSUME TypeOK, CoverInv, Return, reader # "idle", UNCHANGED <<saved, delivered, skipped>>,
           saved = at \/ saved = NoOffset
    PROVE  CoverInv'
<1>1. 1..saved.line \subseteq delivered \cup skipped
  BY DEF CoverInv, NoOffset
<1> QED BY <1>1 DEF CoverInv, InOrder, Read, Return, Go

\* Reading the log makes the lines complete up to its end.
LEMMA TailCurSteady ==
    ASSUME TypeOK, FilesInv, GensInv, CallInv, SteadyInv, TailCur
    PROVE  SteadyInv' /\ (CoverInv => CoverInv')
<1>1. /\ reader = "cur"
      /\ UNCHANGED <<names, base, size, written, saved, delivered>>
  BY DEF TailCur, writerVars
<1>2. /\ names[0] # None /\ names[0] = cur.inode
      /\ Good(at) /\ InFiles(at) /\ cur.size \in 1..size[cur.inode]
      /\ Good(saved) /\ InFiles(saved)
      /\ at.inode = cur.inode => saved = at
      /\ at.inode \in {None, cur.inode, old.inode}
  BY <1>1 DEF CallInv, NamesInv, SteadyInv, WhereInv
<1>3. CASE Return /\ UNCHANGED skipped /\ (names[0] = None \/ at.inode = cur.inode)
  BY <1>1, <1>2, <1>3, ReturnSteady, ReturnCover DEF TailCur
<1>4. CASE /\ at.inode # cur.inode \/ at.pos < cur.size
           /\ Tail(0, cur.inode, CurPos, CurFrom) /\ Go("clearCur") /\ UNCHANGED <<at, cur, old>>
  <2> DEFINE b == base[cur.inode]  n == size[cur.inode]
  <2>1. /\ b \in Nat /\ n \in Nat /\ at.pos \in Nat /\ at.line \in Nat /\ cur.size \in Nat
        /\ cur.size <= n /\ ScanLimit \in Nat /\ cur.inode \in Inodes /\ n > 0
    <3>1. n > 0
      BY <1>2, Zero DEF GensInv, NoEmpty, Named
    <3>2. cur.inode \in Inodes /\ b \in Nat /\ n \in Nat
      BY <1>2, NamedFile, Zero
    <3>3. at.pos \in Nat /\ at.line \in Nat /\ cur.size \in Nat
      BY DEF TypeOK, Offsets
    <3>4. ScanLimit \in Nat
      BY DEF ScanLimit
    <3>5. cur.size <= n
      BY <1>2, <3>2
    <3> QED BY <3>1, <3>2, <3>3, <3>4, <3>5
  <2>2. /\ batch' = batch \cup (b + CurFrom + 1)..(b + n)
        /\ skipped' = skipped \cup (b + CurPos + 1)..(b + Smaller(CurFrom, n))
        /\ mark' = [inode |-> cur.inode, pos |-> Larger(CurFrom, n), line |-> b + n]
        /\ reader' = "clearCur" /\ UNCHANGED <<at, cur, old>>
    BY <1>2, <1>4 DEF Tail, End, Go
  <2>3. CurPos \in Nat /\ CurFrom \in Nat /\ CurFrom >= CurPos
    BY FromTypes
  <2>4. CurFrom <= n /\ Larger(CurFrom, n) = n
    <3>1. CurPos <= n
      BY <1>2, <2>1 DEF CurPos, Good
    <3>2. CurFrom <= n
      BY <2>1, <2>3, <3>1 DEF CurFrom, Larger
    <3> QED BY <2>1, <2>3, <3>2 DEF Larger
  <2>5. /\ LastSeen = b + cur.size
        /\ CurFrom = Larger(CurPos, cur.size - ScanLimit)
        /\ Oldest = Larger(at.line, b + cur.size - ScanLimit)
    BY <2>1 DEF LastSeen, Oldest, CurFrom
  <2>6. batch = (Oldest + 1)..(b + CurPos)
    BY <1>1 DEF SteadyInv, BatchInv, InOrder
  <2>7. at.line <= b + CurPos /\ at.line < b + n
    <3>1. CASE at.inode = cur.inode
      <4>1. at.line = b + at.pos
        BY <1>2, <2>1, <3>1 DEF Good, Smaller
      <4> QED BY <1>4, <2>1, <3>1, <4>1 DEF CurPos
    <3>2. CASE at.inode # cur.inode
      <4>1. at.line <= b
        BY <1>2, <3>2 DEF CallInv, OffsetsInv, Sound, SoundFor
      <4> QED BY <2>1, <2>3, <4>1
    <3> QED BY <3>1, <3>2
  <2> HIDE DEF b, n
  <2>8. WhereInv'
    <3>1. Good(mark)' /\ InFiles(mark)'
      <4>1. mark'.inode = cur.inode /\ mark'.pos = n /\ mark'.line = b + n
        BY <2>2, <2>4
      <4>2. Smaller(n, n) = n
        BY DEF Smaller
      <4> QED BY <1>1, <1>2, <2>1, <4>1, <4>2, Zero DEF Good, InFiles, Named, b, n
    <3>2. Good(at)' /\ InFiles(at)' /\ Good(saved)' /\ InFiles(saved)'
      BY <1>1, <1>2, <2>2 DEF Good, InFiles, Named
    <3>3. mark'.inode = cur.inode
      BY <2>2
    <3> QED BY <1>1, <1>2, <2>2, <3>1, <3>2, <3>3 DEF WhereInv, Read
  <2>9. CoverInv => CoverInv'
    <3> SUFFICES ASSUME CoverInv PROVE CoverInv'
      OBVIOUS
    <3>1. (at.line + 1)..(b + n) \subseteq batch' \cup skipped'
      <4>1. (at.line + 1)..(b + n) \subseteq
                (at.line + 1)..(b + CurPos) \cup (b + CurPos + 1)..(b + Smaller(CurFrom, n))
                    \cup (b + CurFrom + 1)..(b + n)
        <5>1. Smaller(CurFrom, n) = CurFrom
          BY <2>1, <2>3, <2>4 DEF Smaller
        <5>2. CurPos <= CurFrom /\ {at.line, b, n, CurPos, CurFrom} \subseteq Nat
          BY <2>1, <2>3
        <5> HIDE DEF CurPos, CurFrom
        <5> QED BY <2>4, <5>1, <5>2
      <4>2. (at.line + 1)..(b + CurPos) \subseteq batch \cup skipped
        BY <1>1 DEF CoverInv, InOrder, b
      <4> QED BY <2>2, <4>1, <4>2
    <3>2. skipped \subseteq skipped' /\ mark'.line = b + n
      BY <2>2
    <3>3. 1..at.line \subseteq delivered \cup skipped
      BY <1>1 DEF CoverInv
    <3> QED BY <1>1, <2>2, <3>1, <3>2, <3>3 DEF CoverInv, InOrder, Read
  <2>10. BatchInv'
    <3>1. Oldest' = Oldest /\ LastSeen' = LastSeen
      BY <1>1, <2>2 DEF Oldest, LastSeen, ScanLimit, First
    <3>2. batch' = (Oldest + 1)..(b + n)
      <4>0. ASSUME CurFrom = CurPos, Oldest <= b + CurPos, Oldest \in Int
            PROVE  batch' = (Oldest + 1)..(b + n)
        <5>1. b + CurPos \in Int /\ b + n \in Int /\ b + CurPos <= b + n
          BY <2>1, <2>3, <2>4, <4>0
        <5>2. ((Oldest + 1)..(b + CurPos)) \cup ((b + CurPos + 1)..(b + n))
                  = (Oldest + 1)..(b + n)
          BY <4>0, <5>1, Joined
        <5> QED BY <2>2, <2>6, <4>0, <5>2
      <4>1. CASE cur.size <= ScanLimit
        <5>1. CurFrom = CurPos /\ Oldest <= b + CurPos /\ Oldest \in Int
          BY <2>1, <2>3, <2>5, <2>7, <4>1 DEF Larger
        <5> QED BY <4>0, <5>1
      <4>2. CASE cur.size > ScanLimit
        <5>1. CASE CurPos >= cur.size - ScanLimit
          <6>1. CurFrom = CurPos /\ Oldest <= b + CurPos /\ Oldest \in Int
            BY <2>1, <2>3, <2>5, <2>7, <5>1 DEF Larger
          <6> QED BY <4>0, <6>1
        <5>2. CASE CurPos < cur.size - ScanLimit
          <6>1. CurFrom = cur.size - ScanLimit
            BY <2>1, <2>3, <2>5, <5>2 DEF Larger
          <6>2. at.line < b + cur.size - ScanLimit
            BY <2>1, <2>3, <2>7, <5>2
          <6>3. Oldest = b + cur.size - ScanLimit
            BY <2>1, <2>5, <6>2 DEF Larger
          <6>4. Oldest = b + CurFrom /\ b + CurPos < Oldest
            BY <2>1, <2>3, <5>2, <6>1, <6>3
          <6>5. batch = {}
            BY <2>1, <2>3, <2>6, <6>4
          <6> QED BY <2>2, <6>4, <6>5
        <5> QED BY <2>1, <2>3, <5>1, <5>2
      <4> QED BY <2>1, <4>1, <4>2
    <3>3. mark'.line = b + n
      BY <2>2
    <3>4. LastSeen <= b + n /\ at.line < b + n
      BY <2>1, <2>5, <2>7
    <3>5. batch' = (Oldest' + 1)..mark'.line
      BY <3>1, <3>2, <3>3
    <3>6. LastSeen' <= mark'.line
      BY <3>1, <3>3, <3>4
    <3>7. at'.line < mark'.line
      BY <2>2, <3>3, <3>4
    <3>8. reader' = "clearCur"
      BY <2>2
    <3> QED BY <3>5, <3>6, <3>7, <3>8, Zenon DEF BatchInv, InOrder, Read
  <2> QED BY <2>8, <2>9, <2>10 DEF SteadyInv
<1> QED BY <1>3, <1>4 DEF TailCur

LEMMA SaveSteady ==
    ASSUME TypeOK, CallInv, SteadyInv, ClearOffset \/ SaveOffset
    PROVE  SteadyInv' /\ (CoverInv => CoverInv')
<1> USE DEF SteadyInv
<1>1. /\ \/ reader = "clearOld" /\ reader' = "saveOld" /\ saved' = NoOffset
         \/ reader = "clearCur" /\ reader' = "saveCur" /\ saved' = NoOffset
         \/ reader = "saveOld" /\ reader' = "cur" /\ saved' = mark
         \/ reader = "saveCur" /\ reader' = "output" /\ saved' = mark
      /\ UNCHANGED <<names, base, size, written, at, cur, old, mark, batch, delivered, skipped>>
  BY DEF ClearOffset, SaveOffset, Go, writerVars, callVars
<1>2. WhereInv'
  <2>1. Good(mark) /\ InFiles(mark)
    BY <1>1 DEF WhereInv, Read
  <2>2. Good(saved)' /\ InFiles(saved)' /\ Good(mark)' /\ InFiles(mark)'
    BY <1>1, <2>1 DEF Good, InFiles, Named, NoOffset
  <2>3. Good(at)' /\ InFiles(at)'
    BY <1>1 DEF WhereInv, Good, InFiles, Named
  <2> QED BY <1>1, <2>2, <2>3 DEF WhereInv, First, Read
<1>3. CoverInv => CoverInv'
  BY <1>1 DEF CoverInv, InOrder, Read, CurPos
<1>4. BatchInv'
  BY <1>1 DEF BatchInv, InOrder, Read, CurPos, Oldest, LastSeen, ScanLimit, First
<1> QED BY <1>2, <1>3, <1>4

LEMMA OutputSteady ==
    ASSUME TypeOK, CallInv, SteadyInv, Output
    PROVE  SteadyInv' /\ (CoverInv => CoverInv')
<1>1. /\ reader = "output" /\ reader' = "idle"
      /\ delivered' = delivered \cup Kept /\ skipped' = skipped \cup (batch \ Kept)
      /\ UNCHANGED <<names, base, size, written, saved>>
  BY DEF Output, Return, Go, writerVars
<1>2. SteadyInv'
  BY ReturnSteady DEF Output
<1>3. ASSUME CoverInv PROVE 1..saved.line \subseteq delivered' \cup skipped'
  <2>1. /\ 1..at.line \subseteq delivered \cup skipped
        /\ (at.line + 1)..mark.line \subseteq batch \cup skipped
    BY <1>1, <1>3 DEF CoverInv, Read
  <2>2. at.line \in Nat /\ mark.line \in Nat /\ saved = mark
    BY <1>1 DEF TypeOK, Offsets, CallInv, OffsetsInv
  <2>3. 1..mark.line \subseteq 1..at.line \cup (at.line + 1)..mark.line
    BY <2>2
  <2>4. delivered \cup skipped \cup batch \subseteq delivered' \cup skipped'
    BY <1>1
  <2> QED BY <2>1, <2>2, <2>3, <2>4
<1>4. CoverInv => CoverInv'
  BY <1>1, <1>3 DEF CoverInv, InOrder, Read
<1> QED BY <1>2, <1>4

LEMMA KillSteady ==
    ASSUME TypeOK, CallInv, SteadyInv, Kill
    PROVE  SteadyInv' /\ (CoverInv /\ Quiet' => CoverInv')
<1>1. SteadyInv'
  BY ReturnSteady DEF Kill
<1>2. ASSUME CoverInv, Quiet' PROVE CoverInv'
  <2>1. /\ ~(saved.inode = None /\ ~First)
        /\ ~(saved.inode # None /\ saved # at)
    BY <1>2 DEF Kill, Quiet
  <2>2. saved = at \/ saved = NoOffset
    BY <2>1 DEF CallInv, OffsetsInv
  <2> QED BY <1>2, <2>2, ReturnCover DEF Kill
<1> QED BY <1>1, <1>2

\* What has happened is not forgotten.
LEMMA CauseGrows ==
    ASSUME [Next]_vars
    PROVE  cause \subseteq cause'
BY DEF Next, WriterStep, ReaderStep, Log, LogAfterRotate, BeginRotate, WriteLine,
   Rename, StartCall, FindRotated, TailOld, TailCur, ClearOffset, SaveOffset, Output, Kill, vars

LEMMA StepSteady ==
    ASSUME TypeOK, FilesInv, GensInv, Calm => CallInv, Steady => SteadyInv,
           [Next]_vars, Steady'
    PROVE  SteadyInv' /\ (CoverInv /\ Quiet' => CoverInv')
<1>1. Steady
  BY CauseGrows DEF Steady
<1>2. CallInv /\ SteadyInv
  BY <1>1 DEF Calm, Steady, Astray
<1>3. CASE UNCHANGED vars
  <2>1. WhereInv'
    BY <1>2, <1>3 DEF SteadyInv, WhereInv, Good, InFiles, Named, First, Read, vars
  <2>2. BatchInv'
    BY <1>2, <1>3 DEF SteadyInv, BatchInv, InOrder, Read, CurPos, Oldest, LastSeen,
       ScanLimit, First, vars
  <2>3. CoverInv => CoverInv'
    BY <1>3 DEF CoverInv, InOrder, Read, CurPos, vars
  <2> QED BY <2>1, <2>2, <2>3 DEF SteadyInv
<1> QED
  BY <1>2, <1>3, WriterSteady, StartSteady, FindSteady, TailOldSteady, TailCurSteady,
     SaveSteady, OutputSteady, KillSteady DEF Next, ReaderStep

QuietInv == GensInv /\ (Steady => SteadyInv) /\ (Quiet => CoverInv)

\* The invariant of the lines holds together with the one of the offsets.
LEMMA QuietInductive == Spec => []QuietInv
<1>1. Init => QuietInv
  <2> SUFFICES ASSUME Init PROVE QuietInv
    OBVIOUS
  <2>1. \A k \in 0..Gens : names[k] = None
    BY DEF Init
  <2>2. writer = "idle" /\ reader = "idle" /\ saved = NoOffset /\ batch = {}
    BY DEF Init
  <2>3. GensInv
    BY <2>1, <2>2, GenerationIndex DEF GensInv, NoEmpty, Ordered, Chain, Rotating, SomeLowest,
       Lowest, Named
  <2>4. WhereInv /\ BatchInv /\ CoverInv
    BY <2>2 DEF WhereInv, BatchInv, CoverInv, Good, InFiles, NoOffset, Read, InOrder
  <2> QED BY <2>3, <2>4 DEF QuietInv, SteadyInv
<1>2. IInv /\ QuietInv /\ [Next]_vars => QuietInv'
  <2> SUFFICES ASSUME IInv, QuietInv, [Next]_vars PROVE QuietInv'
    OBVIOUS
  <2>1. GensInv'
    BY StepGens DEF IInv, QuietInv
  <2>2. Steady' => SteadyInv' /\ (CoverInv /\ Quiet' => CoverInv')
    BY StepSteady DEF IInv, CallInv, QuietInv
  <2>3. Quiet' => Quiet /\ Steady'
    BY CauseGrows DEF Quiet, Steady
  <2> QED BY <2>1, <2>2, <2>3 DEF QuietInv
<1> QED BY <1>1, <1>2, LogInvariant, PTL DEF Spec

\* However often the log is rotated between calls, and whatever the limits: no
\* line that the offset covers is lost, unless one of the causes has occurred.
THEOREM LogComplete == Spec => []Complete
<1>1. QuietInv => Complete
  BY DEF Quiet, QuietInv, CoverInv, Complete
<1> QED BY <1>1, QuietInductive, PTL

\* And what a call puts out are the newest of the unread lines.
THEOREM LogNewestRead == Spec => []NewestRead
<1>1. IInv /\ QuietInv => NewestRead
  <2> SUFFICES ASSUME IInv, QuietInv, reader = "output", cause = {}
               PROVE  LET last  == base[cur.inode] + cur.size
                          limit == IF at.inode = None THEN FirstLimit ELSE Limit
                      IN  (Larger(at.line, last - limit) + 1)..last \subseteq batch
    BY DEF NewestRead
  <2>1. batch = (Oldest + 1)..mark.line /\ LastSeen <= mark.line
    BY DEF Steady, QuietInv, SteadyInv, BatchInv, Read
  <2>2. LastSeen \in Nat /\ Oldest \in Int /\ mark.line \in Nat
    <3>1. cur.inode \in Inodes /\ cur.size \in Nat /\ at.line \in Nat /\ mark.line \in Nat
      BY DEF Steady, QuietInv, SteadyInv, WhereInv, IInv, TypeOK, Offsets, Files
    <3>2. base[cur.inode] \in Nat
      BY <3>1 DEF IInv, TypeOK
    <3> QED BY <3>1, <3>2 DEF LastSeen, Oldest, Larger, ScanLimit
  <2>3. (Oldest + 1)..LastSeen \subseteq batch
    BY <2>1, <2>2
  <2> QED BY <2>3 DEF Oldest, LastSeen, ScanLimit, First
<1> QED BY <1>1, QuietInductive, LogInvariant, PTL

-----------------------------------------------------------------------------
(* The refinement of LogCursor.                                             *)

\* The ring of results keeps the end of a stretch of lines.
LEMMA KeptLines ==
    ASSUME NEW a \in Int, NEW n \in Nat, batch = (a + 1)..n
    PROVE  Kept = (Larger(a, n - Rows) + 1)..n
<1>1. ASSUME NEW x \in (a + 1)..n
      PROVE  Cardinality({m \in batch : m > x}) < Rows <=> n - x < Rows
  <2>1. {m \in batch : m > x} = (x + 1)..n
    BY <1>1
  <2>2. Cardinality((x + 1)..n) = n - x
    <3>1. x + 1 \in Int /\ n \in Int
      BY <1>1
    <3>2. Cardinality((x + 1)..n) = IF x + 1 > n THEN 0 ELSE n - (x + 1) + 1
      BY <3>1, FS_Interval
    <3> QED BY <1>1, <3>2
  <2> QED BY <2>1, <2>2
<1>2. Kept = {x \in (a + 1)..n : n - x < Rows}
  BY <1>1 DEF Kept
<1> DEFINE m == Larger(a, n - Rows)
<1>3. m \in Int /\ m >= a /\ m >= n - Rows /\ (m = a \/ m = n - Rows)
  BY DEF Larger
<1> HIDE DEF m
<1>4. ASSUME NEW x \in Int
      PROVE  x \in (a + 1)..n /\ n - x < Rows <=> x \in (m + 1)..n
  BY <1>3
<1>5. {x \in (a + 1)..n : n - x < Rows} = (m + 1)..n
  BY <1>3, <1>4
<1> QED BY <1>2, <1>5 DEF m

USE DEF Cursor!vars, Committed

\* A line is logged, or something changes that the cursor does not show.
LEMMA WriterIsAppend ==
    ASSUME TypeOK, SteadyInv, WriterStep, Steady'
    PROVE  [Cursor!Next]_(Cursor!vars)
<1>1. UNCHANGED <<saved, reader, at, cur, batch, delivered>>
  BY DEF WriterStep, Log, LogAfterRotate, BeginRotate, WriteLine, Rename, callVars
<1>2. reader # "idle" => base'[cur.inode] = base[cur.inode]
  <2> SUFFICES ASSUME reader # "idle" PROVE base'[cur.inode] = base[cur.inode]
    OBVIOUS
  <2>1. cur.inode \in Inodes
    BY DEF SteadyInv, WhereInv, TypeOK, Files
  <2> QED BY <2>1, WriterFile DEF Known
<1>3. Kept' = Kept
  BY <1>1 DEF Kept
<1>4. CASE WriteLine
  <2>1. written' = written + 1
    BY <1>4 DEF WriteLine
  <2>2. Cursor!Append
    BY <1>1, <1>2, <1>3, <2>1 DEF Cursor!Append, First
  <2> QED BY <2>2 DEF Cursor!Next
<1>5. CASE UNCHANGED written
  BY <1>1, <1>2, <1>3, <1>5 DEF First
<1> QED
  BY <1>4, <1>5 DEF WriterStep, Log, LogAfterRotate, BeginRotate, Rename

LEMMA StartIsLook ==
    ASSUME TypeOK, FilesInv, CallInv, StartCall
    PROVE  Cursor!Look
<1>1. /\ reader = "idle" /\ reader' = "find" /\ names[0] # None
      /\ cur' = [inode |-> names[0], size |-> size[names[0]]]
      /\ at' = IF saved.inode = None THEN [NoOffset EXCEPT !.line = base[names[0]]] ELSE saved
      /\ UNCHANGED <<base, written, saved, delivered>>
  BY DEF StartCall, Go, writerVars
<1>2. base'[cur'.inode] + cur'.size = written
  BY <1>1 DEF FilesInv, EndsWritten
<1>3. CASE saved.inode = None
  <2>1. saved.line = 0 /\ at'.inode = None
    BY <1>1, <1>3 DEF CallInv, OffsetsInv, NoOffset
  <2> QED BY <1>1, <1>2, <1>3, <2>1 DEF Cursor!Look, First
<1>4. CASE saved.inode # None
  BY <1>1, <1>2, <1>4 DEF Cursor!Look, First
<1> QED BY <1>3, <1>4

\* Before the offset of the log is saved, the call only reads, or has found
\* that there is nothing.
LEMMA ReadingIsHidden ==
    ASSUME TypeOK, CallInv, SteadyInv,
           FindRotated \/ TailOld \/ TailCur \/ ClearOffset
              \/ (SaveOffset /\ reader = "saveOld")
    PROVE  [Cursor!Next]_(Cursor!vars)
<1>1. UNCHANGED <<written, base, delivered>>
  BY DEF FindRotated, TailOld, TailCur, ClearOffset, SaveOffset, writerVars
<1>2. reader \notin {"idle", "output"}
  BY DEF FindRotated, TailOld, TailCur, ClearOffset
<1>3. CASE reader' \notin {"idle", "output"} /\ UNCHANGED <<at, cur>>
  BY <1>1, <1>2, <1>3 DEF First
<1>4. CASE Return /\ TailCur
  <2>1. /\ reader = "cur" /\ names[0] = cur.inode /\ cur.inode # None
        /\ saved' = saved /\ reader' = "idle"
    BY <1>4 DEF TailCur, SteadyInv, WhereInv, CallInv, NamesInv, Return, Go
  <2>2. at.inode = cur.inode /\ at.pos >= cur.size
    BY <1>4, <2>1 DEF TailCur, Return, Go
  <2>3. saved = at /\ ~First /\ at.line = base[cur.inode] + at.pos
    <3>1. Good(at) /\ at.pos \in Nat /\ size[cur.inode] \in Nat
      BY <2>1, <2>2 DEF SteadyInv, WhereInv, TypeOK, Offsets, Files
    <3> QED BY <2>1, <2>2, <3>1 DEF SteadyInv, WhereInv, First, Good, Smaller
  <2>4. base[cur.inode] + cur.size <= at.line
    <3>1. base[cur.inode] \in Nat /\ cur.size \in Nat /\ at.pos \in Nat
      BY <2>1 DEF TypeOK, Offsets, Files
    <3> QED BY <2>2, <2>3, <3>1
  <2>5. Cursor!NothingNew
    BY <1>1, <1>2, <2>1, <2>2, <2>3, <2>4 DEF Cursor!NothingNew, First
  <2> QED BY <2>5 DEF Cursor!Next
<1>5. ASSUME TailOld PROVE reader' = "clearOld" /\ UNCHANGED <<at, cur>>
  BY <1>5 DEF TailOld, CallInv, NamesInv, Go
<1>6. ASSUME TailCur PROVE Return \/ (reader' = "clearCur" /\ UNCHANGED <<at, cur>>)
  BY <1>6 DEF TailCur, Go
<1> QED
  BY <1>3, <1>4, <1>5, <1>6 DEF FindRotated, ClearOffset, SaveOffset, Go, callVars

\* With the offset of the log the call takes what it has read.
LEMMA SaveIsFetch ==
    ASSUME TypeOK, FilesInv, GensInv, CallInv, SteadyInv, SaveOffset, reader = "saveCur"
    PROVE  \E m, n \in 0..written : Cursor!Fetch(m, n)
<1>1. /\ reader' = "output" /\ saved' = mark
      /\ UNCHANGED <<written, base, at, cur, mark, batch, delivered>>
  BY DEF SaveOffset, Go, writerVars, callVars
<1> DEFINE n == mark.line  m == Larger(Oldest, n - Rows)
<1>2. /\ n \in Nat /\ n <= written /\ written \in Nat /\ mark.inode # None
      /\ at.line \in Nat /\ at.line < n /\ LastSeen <= n
      /\ batch = (Oldest + 1)..n
  <2>1. n \in Nat /\ written \in Nat /\ at.line \in Nat
    BY DEF TypeOK, Offsets
  <2>2. n <= written /\ mark.inode # None
    BY DEF CallInv, OffsetsInv, Sound, SoundFor
  <2>3. at.line < n /\ LastSeen <= n /\ batch = (Oldest + 1)..n
    BY DEF SteadyInv, BatchInv, Read
  <2> QED BY <2>1, <2>2, <2>3
<1>3. LastSeen \in Nat /\ LastSeen > 0
  <2>1. cur.inode \in Inodes /\ base[cur.inode] \in Nat /\ size[cur.inode] \in Nat
        /\ cur.size \in 1..size[cur.inode]
    BY DEF SteadyInv, WhereInv, TypeOK, Files
  <2> QED BY <2>1 DEF LastSeen
<1>4. /\ Oldest \in Nat /\ Oldest >= at.line /\ Oldest <= n
      /\ Oldest # at.line => Oldest = LastSeen - ScanLimit
  <2>1. ScanLimit \in Nat
    BY DEF ScanLimit
  <2>2. \/ Oldest = at.line
        \/ Oldest = LastSeen - ScanLimit /\ LastSeen - ScanLimit >= at.line
    BY <1>2, <1>3, <2>1 DEF Oldest, Larger
  <2> QED BY <1>2, <1>3, <2>1, <2>2
<1> HIDE DEF n
<1>5. /\ m \in 0..written /\ n \in 0..written /\ at.line <= m /\ m <= n /\ n - m <= Rows
      /\ ~First /\ m # at.line => n - m >= Smaller(Limit, Rows)
  <2>1. (m = Oldest /\ n - Rows <= m) \/ (m = n - Rows /\ Oldest <= m)
    BY <1>2, <1>4 DEF Larger
  <2>2. Smaller(Limit, Rows) <= Limit /\ Smaller(Limit, Rows) <= Rows
        /\ Smaller(Limit, Rows) \in Nat
    BY DEF Smaller
  <2>3. ~First => ScanLimit = Limit
    BY DEF ScanLimit
  <2> HIDE DEF m
  <2>4. m \in 0..written /\ n \in 0..written /\ at.line <= m /\ m <= n /\ n - m <= Rows
    BY <1>2, <1>4, <2>1
  <2>5. ASSUME ~First, m # at.line PROVE n - m >= Smaller(Limit, Rows)
    <3>1. CASE m = n - Rows
      BY <1>2, <2>2, <2>4, <3>1
    <3>2. CASE m = Oldest
      <4>1. m = LastSeen - Limit
        BY <1>4, <2>3, <2>5, <3>2
      <4> QED BY <1>2, <1>3, <2>2, <4>1
    <3> QED BY <2>1, <3>1, <3>2
  <2> QED BY <2>4, <2>5
<1>6. Kept = (m + 1)..n
  BY <1>2, <1>4, KeptLines
<1>7. Kept' = Kept
  BY <1>1 DEF Kept
<1> HIDE DEF m
<1>8. Cursor!Fetch(m, n)
  BY <1>1, <1>2, <1>3, <1>5, <1>6, <1>7 DEF Cursor!Fetch, First, LastSeen, n
<1> QED BY <1>5, <1>8

LEMMA OutputIsPutOut ==
    ASSUME CallInv, Output
    PROVE  Cursor!PutOut
BY DEF Output, Cursor!PutOut, Return, Go, writerVars

\* A call that is killed keeps the offset or has moved it, and hands on nothing.
LEMMA KillIsInterrupt ==
    ASSUME TypeOK, CallInv, SteadyInv, Kill, Steady'
    PROVE  Cursor!Interrupt
<1>1. /\ reader # "idle" /\ reader' = "idle"
      /\ UNCHANGED <<written, saved, delivered>>
  BY DEF Kill, Return, Go, writerVars
<1>2. saved.line \in 0..written /\ at.line \in Nat
  <2>1. saved.line \in Nat /\ written \in Nat /\ at.line \in Nat
    BY DEF TypeOK, Offsets
  <2>2. saved.line <= written
    BY DEF CallInv, OffsetsInv, Sound, SoundFor
  <2> QED BY <2>1, <2>2
<1>3. ~First => saved.inode # None /\ at.line <= saved.line
  <2>1. ~First => saved.inode # None
    BY DEF Kill, Steady, Astray
  <2> QED BY <1>1, <2>1 DEF CallInv, LinesInv
<1>4. Cursor!Lose(saved.line)
  BY <1>1, <1>2, <1>3 DEF Cursor!Lose, First
<1> QED BY <1>2, <1>4 DEF Cursor!Interrupt

LEMMA StepIsCursor ==
    ASSUME TypeOK, FilesInv, GensInv, CallInv, SteadyInv, [Next]_vars, Steady'
    PROVE  IF kills' = kills THEN [Cursor!Next]_(Cursor!vars)
                             ELSE [Cursor!Interrupt]_(Cursor!vars)
<1>1. CASE Kill
  <2>1. kills' # kills
    BY <1>1 DEF Kill, TypeOK
  <2> QED BY <1>1, <2>1, KillIsInterrupt
<1>2. CASE WriterStep \/ ReaderStep \/ UNCHANGED vars
  <2>1. kills' = kills
    BY <1>2 DEF WriterStep, ReaderStep, Log, LogAfterRotate, BeginRotate, WriteLine, Rename,
       StartCall, FindRotated, TailOld, TailCur, ClearOffset, SaveOffset, Output, vars
  <2>2. CASE WriterStep
    BY <2>1, <2>2, WriterIsAppend
  <2>3. CASE StartCall
    BY <2>1, <2>3, StartIsLook DEF Cursor!Next
  <2>4. CASE FindRotated \/ TailOld \/ TailCur \/ ClearOffset
    BY <2>1, <2>4, ReadingIsHidden
  <2>5. CASE SaveOffset
    <3>1. CASE reader = "saveOld"
      BY <2>1, <2>5, <3>1, ReadingIsHidden
    <3>2. CASE reader = "saveCur"
      BY <2>1, <2>5, <3>2, SaveIsFetch DEF Cursor!Next
    <3> QED BY <2>5, <3>1, <3>2 DEF SaveOffset
  <2>6. CASE Output
    BY <2>1, <2>6, OutputIsPutOut DEF Cursor!Next
  <2>7. CASE UNCHANGED vars
    BY <2>1, <2>7 DEF vars, First, Kept
  <2> QED BY <1>2, <2>2, <2>3, <2>4, <2>5, <2>6, <2>7 DEF ReaderStep
<1> QED BY <1>1, <1>2 DEF Next

LEMMA InitCursor == Init => Cursor!Init
BY DEF Init, Cursor!Init, NoOffset

\* Whatever the split of the log into files, the limits, and the moments at
\* which calls are killed: the calls hand on ascending stretches of lines that
\* reach as far as the log did when they looked, unless one of the causes that
\* no call can make up for has occurred.
THEOREM LogKeepsCursor == Spec => CursorKept
<1>1. IInv /\ QuietInv /\ [Next]_vars =>
          (cause' \cap Astray = {} =>
              IF kills' = kills THEN [Cursor!Next]_(Cursor!vars)
                                ELSE [Cursor!Interrupt]_(Cursor!vars))
  <2> SUFFICES ASSUME IInv, QuietInv, [Next]_vars, Steady'
               PROVE  IF kills' = kills THEN [Cursor!Next]_(Cursor!vars)
                                        ELSE [Cursor!Interrupt]_(Cursor!vars)
    BY DEF Steady
  <2>1. Steady
    BY CauseGrows DEF Steady
  <2>2. TypeOK /\ FilesInv /\ GensInv /\ CallInv /\ SteadyInv
    BY <2>1 DEF IInv, QuietInv, CallInv, Calm, Steady, Astray
  <2> QED BY <2>2, StepIsCursor
<1> QED BY <1>1, InitCursor, LogInvariant, QuietInductive, PTL DEF Spec, CursorKept

=============================================================================
