--------------------------- MODULE DeliveryProofs ---------------------------
(***************************************************************************)
(* For any number of runs, requests, failures and crashes the state of the *)
(* delivery is well-typed. If the runs of the collector come one after the *)
(* other and no request outlives its run, an archive leaves the agent only *)
(* when the web service holds all that the agent has of it, or when it has *)
(* expired; it is in the list when its run hears that it is stored; it is  *)
(* counted by one sync, and by another only if that was killed; and the    *)
(* check point passes over it only if it was sent more than once. Requests *)
(* that outlive their run spoil no archive but one that was sent again.    *)
(***************************************************************************)
EXTENDS Delivery, WellFoundedInduction, TLAPS

\* A request names an archive.
Requested == \A r \in Runs : request[r].stage # "none" => request[r].zip \in Runs

\* A run that transfers has something to send, and what it has listed has
\* been written at some time.
ToSend ==
    \A r \in Runs : /\ pass[r] \in {"reserve", "await"} => todo[r] # {}
                    /\ \A z \in todo[r] : file[z] # "none"

\* A run begins with its archive, or without if zipDir cannot open it.
FileOfRun == \A z \in Runs : file[z] = "none" <=> pass[z] = "none"

BaseInv == TypeOK /\ Requested /\ ToSend /\ FileOfRun

\* The runs come one after the other.
InTurn == \A q, r \in Runs : q < r /\ pass[r] # "none" => pass[q] = "over"

\* An archive is being written only while its run does so.
Written == \A z \in Runs : file[z] = "part" => pass[z] = "zip"

\* The web service is at work for the run that waits for it, and for no other
\* while one is about to send.
Busy(r) == request[r].stage \notin {"none", "done"}

OneRequest ==
    \A q, r \in Runs : Busy(q) => pass[r] # "reserve" /\ (pass[r] = "await" => q = r)

\* What a run waits for is the transfer of its target, of which it has read all
\* there is; once the attachment is stored the staging directory has it.
Answered ==
    \A r \in Runs : pass[r] = "await" =>
        /\ request[r].zip = Target(r)
        /\ file[Target(r)] # "part"
        /\ request[r].data = file[Target(r)]
        /\ request[r].ok => /\ request[r].stage \notin {"arrived", "open"}
                            /\ staged[Target(r)] = file[Target(r)]

TurnInv == BaseInv /\ InTurn /\ Written /\ OneRequest /\ Answered

-----------------------------------------------------------------------------
\* Among archives there is an oldest and a newest one.
LEMMA NatLeast ==
    ASSUME NEW S \in SUBSET Nat, S # {}
    PROVE  \E x \in S : \A y \in S : x <= y
<1>1. PICK x \in S : \A y \in S : <<y, x>> \notin OpToRel(<, Nat)
  BY NatLessThanWellFounded, WFMin
<1>2. \A y \in S : ~(y < x)
  BY <1>1 DEF OpToRel
<1> QED
  BY <1>2

LEMMA MinMax ==
    ASSUME NEW S \in SUBSET Runs, S # {}
    PROVE  /\ Min(S) \in S /\ \A y \in S : Min(S) <= y
           /\ Max(S) \in S /\ \A y \in S : Max(S) >= y
<1>1. \E x \in S : \A y \in S : x <= y
  <2>1. S \in SUBSET Nat
    BY DeliveryAssumption DEF Runs
  <2> QED
    BY <2>1, NatLeast
<1>2. \E x \in S : \A y \in S : x >= y
  <2> DEFINE T == {NumRuns - x : x \in S}
  <2>0. NumRuns \in Nat /\ \A x \in S : x \in Nat /\ x <= NumRuns
    BY DeliveryAssumption DEF Runs
  <2>1. T \in SUBSET Nat /\ T # {}
    BY <2>0
  <2>2. PICK m \in T : \A n \in T : m <= n
    BY <2>1, NatLeast
  <2>3. PICK x \in S : m = NumRuns - x
    OBVIOUS
  <2>4. \A y \in S : NumRuns - x <= NumRuns - y
    BY <2>2, <2>3
  <2>5. \A y \in S : x >= y
    BY <2>0, <2>4
  <2> QED
    BY <2>5
<1> QED
  BY <1>1, <1>2 DEF Min, Max

-----------------------------------------------------------------------------
(* Types.                                                                   *)

LEMMA RunsPositive == Runs \in SUBSET (Nat \ {0})
BY DeliveryAssumption DEF Runs

LEMMA InitBase == Init => BaseInv
<1> SUFFICES ASSUME Init PROVE BaseInv
  OBVIOUS
<1> USE DeliveryAssumption DEF Init
<1>1. TypeOK
  <2>1. request \in [Runs -> [stage : Stages, zip : Runs \cup {0}, data : Contents,
                             ok : BOOLEAN]]
    BY DEF Stages, Idle, Contents
  <2>2. draft \in [Runs -> SUBSET Runs] /\ {list, tmp} \subseteq SUBSET Runs
    OBVIOUS
  <2>3. {present, written, event} \subseteq BOOLEAN /\ {goal, last} \subseteq Runs \cup {0}
    OBVIOUS
  <2>4. crashes \in 0..MaxCrashes /\ paths \in 0..MaxPaths
    OBVIOUS
  <2>5. {work, got, agg} \subseteq [Runs -> Nat]
    OBVIOUS
  <2> QED
    BY <2>1, <2>2, <2>3, <2>4, <2>5 DEF TypeOK
<1>2. Requested /\ ToSend /\ FileOfRun
  BY DEF Requested, ToSend, FileOfRun, Idle
<1> QED
  BY <1>1, <1>2 DEF BaseInv

\* A run that transfers has a target among the archives it has listed.
LEMMA TargetListed ==
    ASSUME BaseInv, NEW r \in Runs, todo[r] # {}
    PROVE  Target(r) \in todo[r] /\ Target(r) \in Runs /\ file[Target(r)] # "none"
<1>1. todo[r] \in SUBSET Runs
  BY DEF BaseInv, TypeOK
<1> QED
  BY <1>1, MinMax DEF Target, BaseInv, ToSend

\* What requests look like.
Requests == [stage : Stages, zip : Runs \cup {0}, data : Contents, ok : BOOLEAN]

LEMMA RequestTypes ==
    ASSUME BaseInv
    PROVE  /\ request \in [Runs -> Requests]
           /\ \A r \in Runs : request[r].stage # "none" => request[r].zip \in Runs
  BY DEF BaseInv, TypeOK, Requested, Requests

\* A run that posts makes a new request for its target.
LEMMA PostWrites ==
    ASSUME BaseInv, NEW r \in Runs, Post(r)
    PROVE  /\ request'[r] = [stage |-> "arrived", zip |-> Target(r),
                             data |-> file[Target(r)], ok |-> FALSE]
           /\ request' = [request EXCEPT ![r] = request'[r]]
           /\ \A q \in Runs \ {r} : request'[q] = request[q]
           /\ pass'[r] = "await" /\ \A q \in Runs \ {r} : pass'[q] = pass[q]
<1> DEFINE z == Target(r)
           d == file[Target(r)]
           new == [Idle EXCEPT !.stage = "arrived", !.zip = z, !.data = d]
<1>1. request' = [request EXCEPT ![r] = new]
  BY DEF Post
<1>2. pass' = [pass EXCEPT ![r] = "await"]
  BY DEF Post, Go
<1>3. pass'[r] = "await" /\ \A q \in Runs \ {r} : pass'[q] = pass[q]
  BY <1>2 DEF BaseInv, TypeOK
<1>4. z \in Runs /\ d \in {"none", "part", "cut", "whole", "gone"}
  BY TargetListed DEF Post, BaseInv, TypeOK, ToSend
<1> HIDE DEF z, d
<1>5. request'[r] = [stage |-> "arrived", zip |-> z, data |-> d, ok |-> FALSE]
  BY <1>1, RequestTypes DEF Idle
<1>6. request' = [request EXCEPT ![r] = request'[r]]
  BY <1>1, RequestTypes
<1>7. \A q \in Runs \ {r} : request'[q] = request[q]
  BY <1>6, RequestTypes
<1> QED
  BY <1>3, <1>5, <1>6, <1>7 DEF z, d

\* What becomes of the archive of a run while zipDir is at it.
LEMMA ArchiveWrites ==
    ASSUME BaseInv, NEW r \in Runs, Archive(r)
    PROVE  /\ pass[r] = "none" /\ Go(r, "zip")
           /\ ~Overlap => \A q \in Runs : q < r => pass[q] = "over"
           /\ file' \in [Runs -> {"none", "part", "cut", "whole", "gone"}]
           /\ file'[r] \in {"part", "gone"} /\ \A z \in Runs \ {r} : file'[z] = file[z]
           /\ UNCHANGED <<todo, soap, request, sends, staged, listVars, sumupVars>>
  BY DEF Archive, BaseInv, TypeOK

LEMMA ArchivedWrites ==
    ASSUME BaseInv, NEW r \in Runs, Archived(r)
    PROVE  /\ pass[r] = "zip" /\ Go(r, "list")
           /\ file' \in [Runs -> {"none", "part", "cut", "whole", "gone"}]
           /\ IF file[r] = "part" THEN file'[r] \in {"cut", "whole"} ELSE file'[r] = file[r]
           /\ \A z \in Runs \ {r} : file'[z] = file[z]
           /\ UNCHANGED <<todo, soap, request, sends, staged, listVars, sumupVars>>
  BY DEF Archived, BaseInv, TypeOK

\* Every step of the agent keeps the base invariant.
LEMMA AgentBase == ASSUME BaseInv, NEW r \in Runs, AgentStep(r) PROVE BaseInv'
<1> USE DEF BaseInv, TypeOK, Requested, ToSend, FileOfRun, Go, listVars, sumupVars
<1>1. CASE Archive(r)
  <2>1. pass' \in [Runs -> {"none", "zip", "list", "next", "reserve", "await", "over"}]
    BY <1>1 DEF Archive
  <2> QED
    BY <1>1, <2>1, ArchiveWrites
<1>2. CASE Archived(r)
  <2>1. pass' \in [Runs -> {"none", "zip", "list", "next", "reserve", "await", "over"}]
    BY <1>2 DEF Archived
  <2> QED
    BY <1>2, <2>1, ArchivedWrites
<1>3. CASE ListArchives(r)
  BY <1>3 DEF ListArchives, Contents
<1>4. CASE DropExpired(r) \/ SendSucceeds(r)
  <2>1. /\ Unlink(r)
        /\ soap' \in {soap, 0}
        /\ UNCHANGED <<request, sends, staged, draft, list, tmp, present, written, event,
                       paths, work, got, goal, last, agg, crashes>>
    BY <1>4 DEF DropExpired, SendSucceeds
  <2>2. /\ pass' \in [Runs -> {"none", "zip", "list", "next", "reserve", "await", "over"}]
        /\ pass'[r] \in {"over", "next"}
        /\ \A q \in Runs \ {r} : pass'[q] = pass[q]
    BY <2>1 DEF Unlink
  <2>3. todo' \in [Runs -> SUBSET Runs] /\ \A q \in Runs : todo'[q] \subseteq todo[q]
    BY <2>1 DEF Unlink
  <2>4. \A q \in Runs \ {r} : todo'[q] = todo[q]
    BY <2>1 DEF Unlink
  <2>5. /\ file' \in [Runs -> {"none", "part", "cut", "whole", "gone"}]
        /\ \A z \in Runs : file[z] # "none" => file'[z] # "none"
    BY <2>1 DEF Unlink
  <2>6. TypeOK' /\ Requested'
    BY <2>1, <2>2, <2>3, <2>5
  <2>7. ToSend' /\ FileOfRun'
    <3>1. \A z \in Runs : file'[z] = "none" => file[z] = "none"
      BY <2>5
    <3>2. pass[r] # "none" /\ file'[r] # "none"
      BY <1>4, <3>1 DEF DropExpired, SendSucceeds
    <3>3. \A z \in Runs \ {r} : file'[z] = "none" <=> pass'[z] = "none"
      <4>1. todo[r] # {} => Target(r) \in Runs /\ file[Target(r)] # "none"
        BY TargetListed
      <4>2. todo[r] # {}
        BY <1>4 DEF DropExpired, SendSucceeds
      <4>3. \A z \in Runs : file[z] = "none" => file'[z] = "none"
        BY <2>1, <4>1, <4>2 DEF Unlink
      <4> QED
        BY <2>2, <3>1, <4>3
    <3>4. ToSend'
      BY <2>2, <2>3, <2>4, <2>5
    <3> QED
      BY <2>2, <3>2, <3>3, <3>4
  <2> QED
    BY <2>6, <2>7
<1>5. CASE Reserve(r)
  BY <1>5 DEF Reserve
<1>6. CASE Post(r)
  <2>1. Target(r) \in Runs /\ file[Target(r)] \in Contents
    BY <1>6, TargetListed DEF Post, Contents
  <2>2. /\ request' \in [Runs -> Requests]
        /\ request'[r].zip \in Runs
        /\ \A q \in Runs \ {r} : request'[q] = request[q]
    <3>1. request'[r] = [stage |-> "arrived", zip |-> Target(r), data |-> file[Target(r)],
                         ok |-> FALSE]
      BY <1>6, PostWrites
    <3>2. request'[r] \in Requests /\ request'[r].zip \in Runs
      BY <2>1, <3>1 DEF Requests, Stages
    <3>3. /\ request' = [request EXCEPT ![r] = request'[r]]
          /\ \A q \in Runs \ {r} : request'[q] = request[q]
      BY <1>6, PostWrites
    <3> QED
      BY <3>2, <3>3, RequestTypes
  <2>3. sends' \in [Runs -> Nat]
    BY <1>6, <2>1 DEF Post
  <2>4. /\ UNCHANGED <<todo, file, soap, staged, listVars, sumupVars>>
        /\ pass[r] = "reserve" /\ pass' = [pass EXCEPT ![r] = "await"]
    BY <1>6 DEF Post
  <2>5. TypeOK' /\ Requested'
    BY <2>2, <2>3, <2>4 DEF Requests
  <2>6. ToSend' /\ FileOfRun'
    BY <2>4
  <2> QED
    BY <2>5, <2>6
<1>7. CASE SendFails(r)
  BY <1>7 DEF SendFails
<1>8. CASE AllSent(r)
  BY <1>8 DEF AllSent
<1> QED
  BY <1>1, <1>2, <1>3, <1>4, <1>5, <1>6, <1>7, <1>8 DEF AgentStep

\* A request that moves on stays a request for the same archive.
LEMMA RequestMoves ==
    ASSUME BaseInv, NEW r \in Runs, NEW s \in Stages, NEW b \in BOOLEAN,
           request[r].stage # "none",
           request'[r] = [stage |-> s, zip |-> request[r].zip, data |-> request[r].data, ok |-> b],
           request' = [request EXCEPT ![r] = request'[r]]
    PROVE  request' \in [Runs -> Requests] /\ Requested'
<1>1. request[r] \in Requests /\ request[r].zip \in Runs
  BY RequestTypes
<1>2. request[r].data \in Contents
  BY <1>1 DEF Requests
<1>3. request'[r] \in Requests /\ request'[r].zip \in Runs
  BY <1>1, <1>2 DEF Requests
<1>4. request' \in [Runs -> Requests]
  BY <1>3, RequestTypes
<1>5. \A q \in Runs \ {r} : request'[q] = request[q]
  BY RequestTypes
<1> QED
  BY <1>3, <1>4, <1>5, RequestTypes DEF Requested

LEMMA MoveKeeps ==
    ASSUME BaseInv, NEW r \in Runs, NEW s \in Stages, Move(r, s), request[r].stage # "none"
    PROVE  request' \in [Runs -> Requests] /\ Requested'
<1>1. request[r] \in Requests
  BY RequestTypes
<1>2. request' = [request EXCEPT ![r] = [request[r] EXCEPT !.stage = s]]
  BY DEF Move
<1>3. request'[r] = [request[r] EXCEPT !.stage = s]
  BY <1>2, RequestTypes
<1>4. request'[r] = [stage |-> s, zip |-> request[r].zip, data |-> request[r].data,
                     ok |-> request[r].ok]
  BY <1>1, <1>3 DEF Requests
<1>5. request[r].ok \in BOOLEAN
  BY <1>1 DEF Requests
<1>6. request' = [request EXCEPT ![r] = request'[r]]
  BY <1>2, <1>3
<1> QED
  BY <1>4, <1>5, <1>6, RequestMoves

LEMMA StoreKeeps ==
    ASSUME BaseInv, NEW r \in Runs, request[r].stage # "none",
           request' = [request EXCEPT ![r].stage = "stored", ![r].ok = TRUE]
    PROVE  request' \in [Runs -> Requests] /\ Requested'
<1>1. request[r] \in Requests
  BY RequestTypes
<1>2. request'[r] = [stage |-> "stored", zip |-> request[r].zip, data |-> request[r].data,
                     ok |-> TRUE]
  BY <1>1, RequestTypes DEF Requests
<1>3. request' = [request EXCEPT ![r] = request'[r]]
  BY RequestTypes
<1>4. "stored" \in Stages
  BY DEF Stages
<1> QED
  BY <1>2, <1>3, <1>4, RequestMoves

\* What the web service may write.
LEMMA ServiceWrites ==
    ASSUME BaseInv, UNCHANGED agentVars, UNCHANGED sends, UNCHANGED sumupVars,
           request' \in [Runs -> Requests], Requested',
           staged' \in [Runs -> Contents \cup {"none"}],
           draft' \in [Runs -> SUBSET Runs],
           list' \in SUBSET Runs, tmp' \in SUBSET Runs,
           present' \in BOOLEAN, written' \in BOOLEAN, event' \in BOOLEAN
    PROVE  BaseInv'
<1>1. TypeOK'
  BY DEF BaseInv, TypeOK, Requests, agentVars, sumupVars
<1>2. ToSend' /\ FileOfRun'
  BY DEF BaseInv, ToSend, FileOfRun, agentVars
<1> QED
  BY <1>1, <1>2 DEF BaseInv

\* Every step of the web service keeps the base invariant.
LEMMA ServiceBase == ASSUME BaseInv, NEW r \in Runs, ServiceStep(r) PROVE BaseInv'
<1>0. /\ staged \in [Runs -> Contents \cup {"none"}]
      /\ draft \in [Runs -> SUBSET Runs] /\ list \in SUBSET Runs /\ tmp \in SUBSET Runs
      /\ present \in BOOLEAN /\ written \in BOOLEAN /\ event \in BOOLEAN
      /\ {"open", "stored", "read", "tmp", "away", "done"} \subseteq Stages
  BY DEF BaseInv, TypeOK, Stages
<1>1. UNCHANGED agentVars /\ UNCHANGED sends /\ UNCHANGED sumupVars
  <2>1. CASE OpenStaging(r) \/ Store(r)
    BY <2>1 DEF OpenStaging, Store
  <2>2. CASE ReadList(r) \/ WriteTmp(r)
    BY <2>2 DEF ReadList, WriteTmp
  <2>3. CASE MoveAway(r) \/ MoveIn(r)
    BY <2>3 DEF MoveAway, MoveIn
  <2> QED
    BY <2>1, <2>2, <2>3 DEF ServiceStep
<1>2. request' \in [Runs -> Requests] /\ Requested'
  <2>1. request[r].stage # "none"
    BY DEF ServiceStep, OpenStaging, Store, ReadList, WriteTmp, MoveAway, MoveIn, At
  <2>2. \/ \E s \in Stages : Move(r, s)
        \/ request' = [request EXCEPT ![r].stage = "stored", ![r].ok = TRUE]
    BY <1>0 DEF ServiceStep, OpenStaging, Store, ReadList, WriteTmp, MoveAway, MoveIn
  <2> QED
    BY <2>1, <2>2, MoveKeeps, StoreKeeps
<1>3. staged' \in [Runs -> Contents \cup {"none"}]
  <2>1. CASE OpenStaging(r)
    BY <1>0, <2>1 DEF OpenStaging, Contents
  <2>2. CASE Store(r)
    <3>1. request[r].data \in Contents
      BY RequestTypes DEF Requests
    <3> QED
      BY <1>0, <2>2, <3>1 DEF Store
  <2>3. CASE ReadList(r)
    BY <1>0, <2>3 DEF ReadList
  <2>4. CASE WriteTmp(r) \/ MoveAway(r) \/ MoveIn(r)
    BY <1>0, <2>4 DEF WriteTmp, MoveAway, MoveIn
  <2> QED
    BY <2>1, <2>2, <2>3, <2>4 DEF ServiceStep
<1>4. draft' \in [Runs -> SUBSET Runs]
  <2>1. CASE ReadList(r)
    <3>1. request[r].zip \in Runs
      BY <2>1, RequestTypes DEF ReadList, At
    <3>2. Renew(list, request[r].zip) \in SUBSET Runs
      BY <1>0, <3>1 DEF Renew
    <3> QED
      BY <1>0, <2>1, <3>2 DEF ReadList
  <2>2. CASE WriteTmp(r)
    BY <1>0, <2>2 DEF WriteTmp
  <2>3. CASE OpenStaging(r) \/ Store(r) \/ MoveAway(r) \/ MoveIn(r)
    BY <1>0, <2>3 DEF OpenStaging, Store, MoveAway, MoveIn, listVars
  <2> QED
    BY <2>1, <2>2, <2>3 DEF ServiceStep
<1>5. /\ list' \in SUBSET Runs /\ tmp' \in SUBSET Runs
      /\ present' \in BOOLEAN /\ written' \in BOOLEAN /\ event' \in BOOLEAN
  <2>1. CASE OpenStaging(r) \/ Store(r) \/ ReadList(r)
    BY <1>0, <2>1 DEF OpenStaging, Store, ReadList, listVars
  <2>2. CASE WriteTmp(r)
    BY <1>0, <2>2 DEF WriteTmp
  <2>3. CASE MoveAway(r)
    BY <1>0, <2>3 DEF MoveAway
  <2>4. CASE MoveIn(r)
    BY <1>0, <2>4 DEF MoveIn
  <2> QED
    BY <2>1, <2>2, <2>3, <2>4 DEF ServiceStep
<1> QED
  BY <1>1, <1>2, <1>3, <1>4, <1>5, ServiceWrites

-----------------------------------------------------------------------------
(* Every step keeps the types.                                              *)

LEMMA SumUpBase == ASSUME BaseInv, SumUpStep \/ Crash PROVE BaseInv'
<1>1. /\ goal \in Runs \cup {0} /\ last \in Runs \cup {0}
      /\ work \in [Runs -> Nat] /\ got \in [Runs -> Nat] /\ agg \in [Runs -> Nat]
      /\ list \in SUBSET Runs /\ event \in BOOLEAN
      /\ crashes \in 0..MaxCrashes /\ paths \in 0..MaxPaths
      /\ MaxCrashes \in Nat /\ MaxPaths \in Nat /\ Runs \in SUBSET Nat
  BY RunsPositive, DeliveryAssumption DEF BaseInv, TypeOK
<1>2. SUFFICES /\ UNCHANGED Others /\ event' \in BOOLEAN
               /\ paths' \in 0..MaxPaths /\ crashes' \in 0..MaxCrashes
               /\ work' \in [Runs -> Nat] /\ got' \in [Runs -> Nat] /\ agg' \in [Runs -> Nat]
               /\ goal' \in Runs \cup {0} /\ last' \in Runs \cup {0}
  <2>1. TypeOK'
    BY <1>2 DEF Others, agentVars, BaseInv, TypeOK
  <2>2. Requested' /\ ToSend' /\ FileOfRun'
    BY <1>2 DEF Others, agentVars, BaseInv, Requested, ToSend, FileOfRun
  <2> QED
    BY <2>1, <2>2 DEF BaseInv
<1>3. CASE Wake
  <2>1. event' = FALSE /\ paths' \in 0..MaxPaths
    BY <1>1, <1>3 DEF Wake
  <2>2. UNCHANGED <<Others, work, got, goal, last, agg, crashes>>
    BY <1>3 DEF Wake
  <2> QED
    BY <1>1, <2>1, <2>2
<1>4. CASE ReadZips
  <2> DEFINE new == {z \in list : z > last}
  <2>1. /\ paths > 0 /\ paths' = paths - 1
        /\ work' = [z \in Runs |-> IF z \in new THEN work[z] + 1 ELSE work[z]]
        /\ goal' = IF new = {} THEN goal ELSE Max(new)
        /\ UNCHANGED <<Others, event, got, last, agg, crashes>>
    BY <1>4 DEF ReadZips
  <2>2. new \in SUBSET Runs
    BY <1>1
  <2> HIDE DEF new
  <2>3. goal' \in Runs \cup {0}
    BY <1>1, <2>1, <2>2, MinMax
  <2>4. work' \in [Runs -> Nat] /\ paths' \in 0..MaxPaths
    BY <1>1, <2>1
  <2> QED
    BY <1>1, <2>1, <2>3, <2>4
<1>5. ASSUME NEW z \in Runs, Extract(z)
      PROVE  /\ UNCHANGED <<Others, event, paths, goal, last, agg, crashes>>
             /\ work' \in [Runs -> Nat] /\ got' \in [Runs -> Nat]
  BY <1>1, <1>5 DEF Extract
<1>6. ASSUME NEW z \in Runs, Aggregate(z)
      PROVE  /\ UNCHANGED <<Others, event, paths, work, goal, last, crashes>>
             /\ got' \in [Runs -> Nat] /\ agg' \in [Runs -> Nat]
  BY <1>1, <1>6 DEF Aggregate
<1>7. CASE Save
  BY <1>1, <1>7 DEF Save
<1>8. CASE Crash
  <2>1. event' = FALSE /\ UNCHANGED <<Others, last, agg>>
    BY <1>8 DEF Crash
  <2>2. paths' \in 0..MaxPaths /\ crashes' \in 0..MaxCrashes /\ goal' = 0
    BY <1>1, <1>8 DEF Crash
  <2>3. work' \in [Runs -> Nat] /\ got' \in [Runs -> Nat]
    BY <1>8 DEF Crash, None
  <2> QED
    BY <1>1, <2>1, <2>2, <2>3
<1> QED
  BY <1>1, <1>3, <1>4, <1>5, <1>6, <1>7, <1>8 DEF SumUpStep

\* The aggregator reads what is staged and listed, and writes none of it.
LEMMA SumUpOthers == ASSUME SumUpStep \/ Crash PROVE UNCHANGED Others
  BY DEF SumUpStep, Wake, ReadZips, Extract, Aggregate, Save, Crash

LEMMA BaseInductive == BaseInv /\ [Next]_vars => BaseInv'
<1> SUFFICES ASSUME BaseInv, [Next]_vars PROVE BaseInv'
  OBVIOUS
<1>1. CASE UNCHANGED vars
  BY <1>1 DEF vars, BaseInv, TypeOK, Requested, ToSend, FileOfRun
<1> QED
  BY <1>1, AgentBase, ServiceBase, SumUpBase DEF Next

\* The state of agent, web service and aggregator keeps its types.
THEOREM DeliveryTypeCorrect == Spec => []TypeOK
<1>1. BaseInv => TypeOK
  BY DEF BaseInv
<1> QED
  BY InitBase, BaseInductive, <1>1, PTL DEF Spec

-----------------------------------------------------------------------------
(* Nothing is lost by the agent as long as the runs come one after the      *)
(* other.                                                                   *)

LEMMA InitTurn == Init => TurnInv
<1> SUFFICES ASSUME Init PROVE TurnInv
  OBVIOUS
<1>1. BaseInv
  BY InitBase
<1>2. InTurn /\ Written /\ OneRequest /\ Answered
  BY DEF Init, InTurn, Written, OneRequest, Busy, Answered, Idle
<1> QED
  BY <1>1, <1>2 DEF TurnInv

\* At most one run is under way.
LEMMA OneRun ==
    ASSUME InTurn, NEW q \in Runs, NEW r \in Runs,
           pass[q] \notin {"none", "over"}, pass[r] \notin {"none", "over"}
    PROVE  q = r
<1>1. q < r \/ r < q \/ q = r
  BY RunsPositive
<1> QED
  BY <1>1 DEF InTurn

\* A run that goes on, or is over, keeps the runs in turn.
LEMMA GoKeepsTurn ==
    ASSUME BaseInv, InTurn, NEW r \in Runs, NEW p, Go(r, p), pass[r] # "over",
           pass[r] # "none" \/ \A q \in Runs : q < r => pass[q] = "over"
    PROVE  InTurn'
<1>1. pass'[r] = p /\ \A q \in Runs \ {r} : pass'[q] = pass[q]
  BY DEF Go, BaseInv, TypeOK
<1>2. \A q \in Runs : q < r => pass[q] = "over"
  BY DEF InTurn
<1>3. \A q \in Runs : r < q => pass[q] = "none"
  BY DEF InTurn
<1>4. ~(r < r) /\ \A q \in Runs : q < r => q # r
  BY RunsPositive
<1> QED
  BY <1>1, <1>2, <1>3, <1>4 DEF InTurn

\* A run that does not post is the only one under way: none waits for an answer.
LEMMA NoneWaits ==
    ASSUME Overlap = FALSE, BaseInv, InTurn, NEW r \in Runs, AgentStep(r), ~Post(r)
    PROVE  /\ UNCHANGED <<request, sends, staged, listVars, sumupVars>>
           /\ \A q \in Runs \ {r} : pass'[q] = pass[q]
           /\ pass'[r] = "reserve" => pass[r] = "reserve" \/ Reserve(r)
           /\ \A q \in Runs : pass'[q] # "await"
<1>1. /\ UNCHANGED <<request, sends, staged, listVars, sumupVars>>
      /\ pass[r] # "over" /\ pass'[r] # "await"
      /\ \A q \in Runs \ {r} : pass'[q] = pass[q]
      /\ pass'[r] = "reserve" => Reserve(r)
  BY DEF AgentStep, Archive, Archived, ListArchives, DropExpired, AllSent, Reserve,
         SendFails, SendSucceeds, Unlink, Go, BaseInv, TypeOK
<1>2. ASSUME NEW q \in Runs, q # r, pass[q] = "await" PROVE FALSE
  <2>1. CASE pass[r] = "none"
    <3>1. Archive(r)
      BY <2>1 DEF AgentStep, Archived, ListArchives, DropExpired, AllSent, Reserve,
                  SendFails, SendSucceeds
    <3>2. q < r => pass[q] = "over"
      BY <3>1 DEF Archive
    <3>3. r < q => pass[r] = "over"
      BY <1>2 DEF InTurn
    <3> QED
      BY <1>1, <1>2, <3>2, <3>3, RunsPositive
  <2>2. CASE pass[r] # "none"
    BY <1>1, <1>2, <2>2, OneRun
  <2> QED
    BY <2>1, <2>2
<1> QED
  BY <1>1, <1>2

\* Every step of the agent keeps the runs in turn, and the archive that one of
\* them writes to it.
LEMMA AgentInTurn ==
    ASSUME Overlap = FALSE, BaseInv, InTurn, Written, NEW r \in Runs, AgentStep(r)
    PROVE  InTurn' /\ Written'
<1>1. /\ file \in [Runs -> {"none", "part", "cut", "whole", "gone"}]
      /\ pass \in [Runs -> {"none", "zip", "list", "next", "reserve", "await", "over"}]
  BY DEF BaseInv, TypeOK
<1>2. CASE Archive(r)
  <2>1. /\ Go(r, "zip") /\ pass[r] = "none"
        /\ \A q \in Runs : q < r => pass[q] = "over"
        /\ \A z \in Runs \ {r} : file'[z] = file[z]
    BY <1>2, ArchiveWrites
  <2> QED
    BY <1>1, <2>1, GoKeepsTurn DEF Written, Go
<1>3. CASE Archived(r)
  <2>1. /\ Go(r, "list") /\ pass[r] = "zip"
        /\ file'[r] # "part" /\ \A z \in Runs \ {r} : file'[z] = file[z]
    BY <1>3, ArchivedWrites
  <2> QED
    BY <1>1, <2>1, GoKeepsTurn DEF Written, Go
<1>4. CASE DropExpired(r) \/ SendSucceeds(r)
  <2>1. /\ pass[r] \in {"next", "await"}
        /\ Go(r, "over") \/ Go(r, "next")
        /\ file' = [file EXCEPT ![Target(r)] = "gone"]
    BY <1>4 DEF DropExpired, SendSucceeds, Unlink
  <2>2. \A z \in Runs : file'[z] = "part" => file[z] = "part"
    BY <1>1, <2>1
  <2>3. \A z \in Runs : pass[z] = "zip" => pass'[z] = "zip"
    BY <1>1, <2>1 DEF Go
  <2> QED
    BY <2>1, <2>2, <2>3, GoKeepsTurn DEF Written
<1>5. CASE ListArchives(r) \/ Reserve(r) \/ Post(r) \/ SendFails(r) \/ AllSent(r)
  <2>1. /\ pass[r] \in {"list", "next", "reserve", "await"}
        /\ \E p \in {"next", "reserve", "await", "over"} : Go(r, p)
        /\ UNCHANGED file
    BY <1>5 DEF ListArchives, Reserve, Post, SendFails, AllSent
  <2> QED
    BY <1>1, <2>1, GoKeepsTurn DEF Written, Go
<1> QED
  BY <1>2, <1>3, <1>4, <1>5 DEF AgentStep

LEMMA AgentTurn ==
    ASSUME Overlap = FALSE, Late = FALSE, TurnInv, NEW r \in Runs, AgentStep(r)
    PROVE  TurnInv'
<1>1. BaseInv' /\ InTurn' /\ Written'
  BY AgentBase, AgentInTurn DEF TurnInv
<1>2. BaseInv /\ InTurn /\ Written /\ OneRequest /\ Answered
  BY DEF TurnInv
<1>3. CASE ~Post(r)
  <2>1. /\ UNCHANGED request
        /\ \A q \in Runs \ {r} : pass'[q] = pass[q]
        /\ pass'[r] = "reserve" => pass[r] = "reserve" \/ Reserve(r)
        /\ \A q \in Runs : pass'[q] # "await"
    BY <1>2, <1>3, NoneWaits
  <2>2. Reserve(r) => \A q \in Runs : ~Busy(q)
    BY DEF Reserve, Busy
  <2>3. OneRequest'
    BY <1>2, <2>1, <2>2 DEF OneRequest, Busy
  <2>4. Answered'
    BY <2>1 DEF Answered
  <2> QED
    BY <1>1, <2>3, <2>4 DEF TurnInv
<1>4. CASE Post(r)
  <2>1. pass[r] = "reserve" /\ UNCHANGED <<todo, file, staged>>
    BY <1>4 DEF Post
  <2>2. /\ request'[r] = [stage |-> "arrived", zip |-> Target(r),
                          data |-> file[Target(r)], ok |-> FALSE]
        /\ \A q \in Runs \ {r} : request'[q] = request[q]
        /\ pass'[r] = "await" /\ \A q \in Runs \ {r} : pass'[q] = pass[q]
    BY <1>2, <1>4, PostWrites
  <2>3. \A q \in Runs \ {r} : pass[q] \notin {"reserve", "await"} /\ ~Busy(q)
    BY <1>2, <2>1, OneRun DEF OneRequest
  <2>4. file[Target(r)] # "part"
    <3>1. Target(r) \in Runs
      BY <1>2, <2>1, TargetListed DEF BaseInv, ToSend
    <3> QED
      BY <1>2, <2>1, <3>1, OneRun DEF Written
  <2>5. OneRequest'
    BY <2>2, <2>3 DEF OneRequest, Busy
  <2>6. Answered'
    <3>1. /\ request'[r].zip = Target(r)
          /\ request'[r].data = file[Target(r)] /\ request'[r].ok = FALSE
      BY <2>2
    <3>2. Target(r)' = Target(r) /\ file' = file
      BY <2>1 DEF Target
    <3>3. \A q \in Runs \ {r} : pass'[q] # "await"
      BY <2>2, <2>3
    <3> QED
      BY <2>4, <3>1, <3>2, <3>3 DEF Answered
  <2> QED
    BY <1>1, <2>5, <2>6 DEF TurnInv
<1> QED
  BY <1>3, <1>4

\* A handler is busy, changes its own request only and leaves the agent alone.
LEMMA ServiceEffect ==
    ASSUME BaseInv, NEW r \in Runs, ServiceStep(r)
    PROVE  /\ UNCHANGED <<pass, todo, file>>
           /\ Busy(r)
           /\ \A q \in Runs \ {r} : request'[q] = request[q]
           /\ request'[r].zip = request[r].zip /\ request'[r].data = request[r].data
           /\ request'[r].stage \notin {"none", "arrived"}
<1> USE DEF At, Move, Busy, agentVars, BaseInv, TypeOK
<1>1. CASE OpenStaging(r)
  BY <1>1 DEF OpenStaging
<1>2. CASE Store(r)
  BY <1>2 DEF Store
<1>3. CASE ReadList(r)
  BY <1>3 DEF ReadList
<1>4. CASE WriteTmp(r)
  BY <1>4 DEF WriteTmp
<1>5. CASE MoveAway(r)
  BY <1>5 DEF MoveAway
<1>6. CASE MoveIn(r)
  BY <1>6 DEF MoveIn
<1> QED
  BY <1>1, <1>2, <1>3, <1>4, <1>5, <1>6 DEF ServiceStep

\* A request whose attachment has been stored leaves it where it is.
LEMMA ServiceAnswers ==
    ASSUME BaseInv, NEW r \in Runs, ServiceStep(r), pass[r] = "await",
           request[r].zip = Target(r),
           request[r].ok => /\ request[r].stage \notin {"arrived", "open"}
                            /\ staged[Target(r)] = request[r].data,
           request'[r].ok
    PROVE  request'[r].stage # "open" /\ staged'[Target(r)] = request[r].data
<1>1. /\ request[r].zip = Target(r) /\ Target(r) \in Runs
      /\ request[r].ok => /\ request[r].stage \notin {"arrived", "open"}
                          /\ staged[Target(r)] = request[r].data
  BY TargetListed DEF BaseInv, ToSend
<1>2. request \in [Runs -> [stage : Stages, zip : Runs \cup {0}, data : Contents,
                            ok : BOOLEAN]]
  BY DEF BaseInv, TypeOK
<1>3. staged \in [Runs -> Contents \cup {"none"}]
  BY DEF BaseInv, TypeOK
<1>4. CASE OpenStaging(r)
  <2>1. request[r].stage = "arrived" /\ request'[r].ok = request[r].ok
    BY <1>2, <1>4 DEF OpenStaging, At, Move
  <2> QED
    BY <1>1, <2>1
<1>5. CASE Store(r)
  <2>1. request[r].stage = "open"
    BY <1>5 DEF Store, At
  <2>2. CASE Move(r, "stored")
    BY <1>1, <1>2, <2>1, <2>2 DEF Move
  <2>3. CASE /\ request' = [request EXCEPT ![r].stage = "stored", ![r].ok = TRUE]
             /\ staged' = [staged EXCEPT ![request[r].zip] = request[r].data]
    BY <1>1, <1>2, <1>3, <2>3
  <2> QED
    BY <1>5, <2>2, <2>3 DEF Store
<1>6. CASE ReadList(r)
  <2>1. request'[r].ok = request[r].ok /\ request'[r].stage = "read"
    BY <1>2, <1>6 DEF ReadList, Move
  <2>2. ~(Target(r) < Target(r) - Keep)
    <3>1. Target(r) \in Nat /\ Keep \in Nat
      BY <1>1, RunsPositive, DeliveryAssumption
    <3> QED
      BY <3>1
  <2>3. staged'[Target(r)] = staged[Target(r)]
    BY <1>1, <1>6, <2>2 DEF ReadList
  <2> QED
    BY <1>1, <2>1, <2>3
<1>7. CASE WriteTmp(r) \/ MoveAway(r) \/ MoveIn(r)
  <2>1. /\ \E s \in {"tmp", "away", "done"} : Move(r, s)
        /\ staged' = staged
    BY <1>7 DEF WriteTmp, MoveAway, MoveIn
  <2>2. PICK s \in {"tmp", "away", "done"} : Move(r, s)
    BY <2>1
  <2>3. request'[r].ok = request[r].ok /\ request'[r].stage = s
    BY <1>2, <2>2 DEF Move
  <2> QED
    BY <1>1, <2>1, <2>3
<1> QED
  BY <1>4, <1>5, <1>6, <1>7 DEF ServiceStep

LEMMA ServiceTurn ==
    ASSUME TurnInv, NEW r \in Runs, ServiceStep(r)
    PROVE  TurnInv'
<1>1. BaseInv'
  BY ServiceBase DEF TurnInv
<1>2. /\ UNCHANGED <<pass, todo, file>>
      /\ Busy(r)
      /\ \A q \in Runs \ {r} : request'[q] = request[q]
      /\ request'[r].zip = request[r].zip /\ request'[r].data = request[r].data
      /\ request'[r].stage \notin {"none", "arrived"}
  BY ServiceEffect DEF TurnInv
<1>3. InTurn' /\ Written'
  BY <1>2 DEF TurnInv, InTurn, Written
<1>4. OneRequest'
  BY <1>2 DEF TurnInv, OneRequest, Busy
<1>5. Answered'
  <2> SUFFICES ASSUME NEW q \in Runs, pass[q] = "await"
               PROVE  /\ request'[q].zip = Target(q)
                      /\ file[Target(q)] # "part"
                      /\ request'[q].data = file[Target(q)]
                      /\ request'[q].ok => /\ request'[q].stage \notin {"arrived", "open"}
                                           /\ staged'[Target(q)] = file[Target(q)]
    BY <1>2 DEF Answered, Target
  <2>1. q = r
    BY <1>2 DEF TurnInv, OneRequest
  <2> QED
    BY <1>2, <2>1, ServiceAnswers DEF TurnInv, Answered
<1> QED
  BY <1>1, <1>3, <1>4, <1>5 DEF TurnInv

LEMMA TurnInductive ==
    ASSUME Overlap = FALSE, Late = FALSE, TurnInv, [Next]_vars
    PROVE  TurnInv'
<1>1. CASE UNCHANGED vars
  BY <1>1 DEF vars, TurnInv, BaseInv, TypeOK, Requested, ToSend, FileOfRun, InTurn, Written,
              OneRequest, Busy, Answered, Target
<1>2. ASSUME NEW r \in Runs, AgentStep(r) PROVE TurnInv'
  BY <1>2, AgentTurn
<1>3. ASSUME NEW r \in Runs, ServiceStep(r) PROVE TurnInv'
  BY <1>3, ServiceTurn
<1>4. CASE SumUpStep \/ Crash
  <2>1. UNCHANGED Others
    BY <1>4, SumUpOthers
  <2>2. InTurn' /\ Written' /\ OneRequest' /\ Answered'
    BY <2>1 DEF Others, agentVars, TurnInv, InTurn, Written, OneRequest, Busy, Answered, Target
  <2>3. BaseInv'
    BY <1>4, SumUpBase DEF TurnInv
  <2> QED
    BY <2>2, <2>3 DEF TurnInv
<1> QED
  BY <1>1, <1>2, <1>3, <1>4 DEF Next

\* Only a run removes an archive, and only its target.
LEMMA RemovedBy ==
    ASSUME BaseInv, [Next]_vars, NEW z \in Runs,
           file[z] \in Contents, file'[z] = "gone"
    PROVE  \E r \in Runs : z = Target(r) /\ (DropExpired(r) \/ SendSucceeds(r))
<1>1. file \in [Runs -> {"none", "part", "cut", "whole", "gone"}] /\ file' # file
  BY DEF BaseInv, TypeOK, Contents
<1>2. PICK r \in Runs : DropExpired(r) \/ SendSucceeds(r)
  <2>1. ASSUME NEW r \in Runs, AgentStep(r) PROVE DropExpired(r) \/ SendSucceeds(r)
    <3>1. ~Archive(r) /\ ~Archived(r)
      <4>1. file[z] # "gone" /\ file[z] # "none"
        BY <1>1 DEF Contents
      <4>2. ~Archive(r)
        BY <1>1, <4>1, ArchiveWrites DEF BaseInv, FileOfRun
      <4>3. ~Archived(r)
        BY <1>1, <4>1, ArchivedWrites
      <4> QED
        BY <4>2, <4>3
    <3> QED
      BY <1>1, <2>1, <3>1 DEF AgentStep, ListArchives, AllSent, Reserve, Post, SendFails
  <2>2. \A r \in Runs : ~ServiceStep(r)
    BY <1>1, ServiceEffect
  <2>3. ~SumUpStep /\ ~Crash /\ ~UNCHANGED vars
    BY <1>1, SumUpOthers DEF Others, agentVars, vars
  <2> QED
    BY <2>1, <2>2, <2>3 DEF Next
<1>3. z = Target(r)
  <2>1. file' = [file EXCEPT ![Target(r)] = "gone"]
    BY <1>2 DEF DropExpired, SendSucceeds, Unlink
  <2>2. file[z] # "gone"
    BY DEF Contents
  <2> QED
    BY <1>1, <2>1, <2>2
<1> QED
  BY <1>2, <1>3

\* A step that removes an archive removes one of which the web service has all,
\* or one that has expired.
LEMMA RemovedIsSent ==
    ASSUME TurnInv, [Next]_vars, NEW z \in Runs,
           file[z] \in Contents, file'[z] = "gone"
    PROVE  Delivered(z) \/ TooOld(z)
<1>1. PICK r \in Runs : z = Target(r) /\ (DropExpired(r) \/ SendSucceeds(r))
  BY RemovedBy DEF TurnInv
<1>2. CASE DropExpired(r)
  BY <1>1, <1>2 DEF DropExpired, Expired, TooOld
<1>3. CASE SendSucceeds(r)
  BY <1>1, <1>3 DEF TurnInv, SendSucceeds, Answered, Delivered
<1> QED
  BY <1>1, <1>2, <1>3

\* With runs that come one after the other and no request left over from an
\* earlier one, all that the agent has of an archive it removes, whether zipDir
\* left it whole or not, is stored by the web service, or the archive is older
\* than RECOVERY_HOUR, whatever else fails.
THEOREM NothingUnsentIsRemoved ==
    ASSUME Overlap = FALSE, Late = FALSE
    PROVE  Spec => UnsentArchivesStay
<1>1. TurnInv /\ [Next]_vars => TurnInv'
  BY TurnInductive
<1>2. TurnInv /\ [Next]_vars
      => [\A z \in Runs : file[z] \in Contents /\ file'[z] = "gone"
                          => Delivered(z) \/ TooOld(z)]_vars
  BY RemovedIsSent
<1> QED
  BY InitTurn, <1>1, <1>2, PTL DEF Spec, UnsentArchivesStay

-----------------------------------------------------------------------------
(* Where an archive is, between agent, web service and aggregator.          *)

\* The web service has been asked to store it.
Known(z) == sends[z] > 0

\* The agent sends the oldest archive first, of all that it has.
TodoHasAll ==
    \A r \in Runs : pass[r] \in {"next", "reserve", "await"} =>
        \A z \in Runs : file[z] \in Contents => z \in todo[r]
InOrder == \A m, z \in Runs : Known(m) /\ z < m => file[z] = "gone"

OrderInv == TodoHasAll /\ InOrder

\* Names reach web service and aggregator by requests.
KnownNames ==
    /\ \A z \in list \cup tmp : Known(z)
    /\ \A r \in Runs : \A z \in draft[r] : Known(z)
    /\ \A z \in Runs : z = goal \/ z = last => Known(z)
    /\ \A r \in Runs : request[r].stage # "none" => Known(request[r].zip)
    /\ \A z \in Runs : staged[z] # "none" => Known(z)

\* One handler is at work, with the newest archive there is. If it is the first
\* to have it, neither list nor aggregator know of it.
OneBusy == \A q, r \in Runs : Busy(q) /\ Busy(r) => q = r
BusyIsNewest == \A q, m \in Runs : Busy(q) /\ Known(m) => m <= request[q].zip
FirstUnknown ==
    \A q \in Runs : Busy(q) /\ sends[request[q].zip] = 1 =>
        request[q].zip \notin list /\ goal < request[q].zip /\ last < request[q].zip

\* Its name goes into the list.
ZipKept ==
    \A q \in Runs :
        /\ At(q, "read") => request[q].zip \in draft[q]
        /\ At(q, "tmp") => request[q].zip \in tmp /\ written
        /\ At(q, "away") => request[q].zip \in tmp /\ written /\ ~present /\ list = {}
        /\ At(q, "done") /\ pass[q] = "await" => request[q].zip \in list

\* An archive that was sent once and is stored whole is listed, and stays in
\* the list while that is renewed.
Once(z) == sends[z] = 1 /\ staged[z] = "whole"
Shelved ==
    \A z \in Runs : Once(z) =>
        /\ z \in list \/ \E q \in Runs : At(q, "away") \/ (Busy(q) /\ request[q].zip = z)
        /\ \A q \in Runs : /\ At(q, "read") => z \in draft[q]
                           /\ At(q, "tmp") \/ At(q, "away") => z \in tmp

\* If it has not been counted it is yet to come, or part of the present sync.
Taken(z) == work[z] > 0 \/ got[z] > 0
InSync ==
    \A z \in Runs : Once(z) /\ agg[z] = 0 => z > last /\ (z <= goal => Taken(z))

\* The list does not go back behind what the present sync has read in it.
GoalListed == goal = 0 \/ list = {} \/ \E y \in list : goal <= y

\* What the syncs that were killed may have counted of an archive.
Earlier == MaxPaths * crashes

\* An archive past the check point has been counted by killed syncs only, or
\* is one of the present sync, which counts it once for each path at the most.
Counting ==
    /\ goal # 0 => last < goal
    /\ \A z \in Runs :
         /\ Taken(z) => last < z /\ z <= goal
         /\ agg[z] <= Earlier + MaxPaths
         /\ last < z /\ goal < z => agg[z] <= Earlier
         /\ last < z /\ z <= goal => agg[z] + work[z] + got[z] + paths <= Earlier + MaxPaths

ShelfInv ==
    /\ KnownNames /\ OneBusy /\ BusyIsNewest /\ FirstUnknown /\ ZipKept /\ Shelved
    /\ InSync /\ GoalListed /\ Counting

PlaceInv == TurnInv /\ OrderInv /\ ShelfInv

LEMMA InitPlace == Init => OrderInv /\ ShelfInv
<1> SUFFICES ASSUME Init PROVE OrderInv /\ ShelfInv
  OBVIOUS
<1>1. OrderInv
  BY DEF Init, OrderInv, TodoHasAll, InOrder, Known
<1>2. \A r \in Runs : request[r].stage = "none"
  BY DEF Init, Idle
<1>3. \A z \in Runs : staged[z] = "none" /\ z # 0
  BY RunsPositive DEF Init
<1>4. KnownNames
  BY <1>2, <1>3 DEF Init, KnownNames
<1>5. OneBusy /\ BusyIsNewest /\ FirstUnknown /\ ZipKept
  BY <1>2 DEF OneBusy, BusyIsNewest, FirstUnknown, ZipKept, Busy, At
<1>6. Shelved /\ InSync /\ GoalListed
  BY <1>3 DEF Init, Shelved, InSync, Once, GoalListed
<1>7. Counting
  <2>1. Earlier = 0 /\ MaxPaths \in Nat
    BY DeliveryAssumption DEF Init, Earlier
  <2> QED
    BY <2>1, RunsPositive DEF Init, Counting, Taken
<1> QED
  BY <1>1, <1>4, <1>5, <1>6, <1>7 DEF ShelfInv

\* Requests, lists and aggregator do not notice a step of an agent that does
\* not post.
LEMMA ShelfUnmoved ==
    ASSUME ShelfInv,
           UNCHANGED <<request, sends, staged, listVars, sumupVars>>,
           \A q \in Runs : pass'[q] = "await" => pass[q] = "await"
    PROVE  ShelfInv'
<1> USE DEF ShelfInv, listVars, sumupVars
<1>1. KnownNames' /\ OneBusy' /\ BusyIsNewest' /\ FirstUnknown'
  BY DEF KnownNames, Known, OneBusy, BusyIsNewest, FirstUnknown, Busy
<1>2. ZipKept'
  BY DEF ZipKept, At
<1>3. Shelved' /\ InSync'
  BY DEF Shelved, InSync, Once, Taken, At, Busy
<1>4. GoalListed' /\ Counting'
  BY DEF GoalListed, Counting, Taken, Earlier
<1> QED
  BY <1>1, <1>2, <1>3, <1>4

LEMMA OrderUnmoved ==
    ASSUME OrderInv, UNCHANGED <<pass, todo, file, sends>>
    PROVE  OrderInv'
  BY DEF OrderInv, TodoHasAll, InOrder, Known

\* The agent removes the oldest archive of its list and begins a new one when
\* no other run is under way.
LEMMA QuietAgentOrder ==
    ASSUME Overlap = FALSE, BaseInv, InTurn, OrderInv, NEW r \in Runs, AgentStep(r), ~Post(r)
    PROVE  OrderInv'
<1> USE DEF OrderInv
<1>0. /\ pass \in [Runs -> {"none", "zip", "list", "next", "reserve", "await", "over"}]
      /\ file \in [Runs -> {"none", "part", "cut", "whole", "gone"}]
      /\ todo \in [Runs -> SUBSET Runs]
  BY DEF BaseInv, TypeOK
<1>1. /\ UNCHANGED sends
      /\ \A q \in Runs \ {r} : pass'[q] = pass[q]
      /\ pass'[r] # "await" /\ pass'[r] # "none"
  BY <1>0 DEF AgentStep, Archive, Archived, ListArchives, DropExpired, AllSent, Reserve,
              SendFails, SendSucceeds, Unlink, Go
<1>2. CASE Archive(r)
  <2>1. /\ pass[r] = "none" /\ pass'[r] = "zip" /\ UNCHANGED todo
        /\ \A q \in Runs : q < r => pass[q] = "over"
        /\ file'[r] \in {"part", "gone"} /\ \A z \in Runs \ {r} : file'[z] = file[z]
    BY <1>0, <1>2, ArchiveWrites DEF Go
  <2>2. file[r] = "none" /\ \A q \in Runs : r < q => pass[q] = "none"
    BY <1>0, <2>1 DEF BaseInv, FileOfRun, InTurn
  <2>3. \A q \in Runs : pass'[q] \notin {"next", "reserve", "await"}
    BY <1>0, <1>1, <2>1, <2>2, RunsPositive
  <2>4. TodoHasAll'
    BY <2>3 DEF TodoHasAll
  <2>5. InOrder'
    BY <1>0, <1>1, <2>1, <2>2 DEF InOrder, Known
  <2> QED
    BY <2>4, <2>5
<1>3. CASE Archived(r)
  <2>1. /\ pass[r] = "zip" /\ pass'[r] = "list" /\ UNCHANGED todo
        /\ file[r] = "gone" => file'[r] = "gone"
        /\ \A z \in Runs \ {r} : file'[z] = file[z]
    BY <1>0, <1>3, ArchivedWrites DEF Go
  <2>2. \A q \in Runs \ {r} : pass[q] \in {"none", "over"}
    BY <1>0, <2>1, OneRun
  <2>3. \A q \in Runs : pass'[q] \notin {"next", "reserve", "await"}
    BY <1>1, <2>1, <2>2
  <2>4. TodoHasAll'
    BY <2>3 DEF TodoHasAll
  <2>5. InOrder'
    BY <1>0, <1>1, <2>1 DEF InOrder, Known
  <2> QED
    BY <2>4, <2>5
<1>4. CASE ListArchives(r)
  <2>1. /\ pass[r] = "list" /\ UNCHANGED file
        /\ todo' = [todo EXCEPT ![r] = {z \in Runs : file[z] \in Contents}]
    BY <1>4 DEF ListArchives
  <2> QED
    BY <1>0, <1>1, <2>1 DEF TodoHasAll, InOrder, Known
<1>5. CASE DropExpired(r) \/ SendSucceeds(r)
  <2> DEFINE y == Target(r)
  <2>1. /\ pass[r] \in {"next", "await"} /\ todo[r] # {}
        /\ todo' = [todo EXCEPT ![r] = @ \ {y}]
        /\ file' = [file EXCEPT ![y] = "gone"]
    BY <1>0, <1>5 DEF DropExpired, SendSucceeds, Unlink, BaseInv, ToSend
  <2>2. y \in Runs /\ file[y] # "none"
    BY <1>0, <2>1, TargetListed
  <2> HIDE DEF y
  <2>3. file'[y] = "gone" /\ \A z \in Runs \ {y} : file'[z] = file[z]
    BY <1>0, <2>1, <2>2
  <2>4. \A z \in Runs : file'[z] \in Contents => z # y /\ file[z] \in Contents
    BY <2>3 DEF Contents
  <2>5. TodoHasAll'
    BY <1>0, <1>1, <2>1, <2>4 DEF TodoHasAll
  <2>6. InOrder'
    BY <1>1, <2>3 DEF InOrder, Known
  <2> QED
    BY <2>5, <2>6
<1>6. CASE Reserve(r) \/ SendFails(r) \/ AllSent(r)
  <2>1. /\ pass[r] \in {"next", "reserve", "await"} /\ UNCHANGED <<file, todo>>
    BY <1>6 DEF Reserve, SendFails, AllSent
  <2> QED
    BY <1>1, <2>1 DEF TodoHasAll, InOrder, Known
<1> QED
  BY <1>2, <1>3, <1>4, <1>5, <1>6 DEF AgentStep

LEMMA QuietAgentPlace ==
    ASSUME Overlap = FALSE, PlaceInv, NEW r \in Runs, AgentStep(r), ~Post(r)
    PROVE  OrderInv' /\ ShelfInv'
<1>1. OrderInv'
  BY QuietAgentOrder DEF PlaceInv, TurnInv
<1>2. /\ UNCHANGED <<request, sends, staged, listVars, sumupVars>>
      /\ \A q \in Runs : pass'[q] = "await" => pass[q] = "await"
  BY DEF AgentStep, Archive, Archived, ListArchives, DropExpired, AllSent, Reserve,
         SendFails, SendSucceeds, Unlink, Go, PlaceInv, TurnInv, BaseInv, TypeOK
<1> QED
  BY <1>1, <1>2, ShelfUnmoved DEF PlaceInv

\* A request is for the newest archive that was ever sent: those before it are
\* gone when it is sent, and those after it have not been sent.
LEMMA PostOrder ==
    ASSUME BaseInv, InTurn, OrderInv, NEW r \in Runs, Post(r)
    PROVE  /\ OrderInv'
           /\ Target(r) \in Runs /\ file[Target(r)] \in Contents
           /\ \A m \in Runs : Known(m) => m <= Target(r)
<1> USE DEF OrderInv
<1>0. /\ pass \in [Runs -> {"none", "zip", "list", "next", "reserve", "await", "over"}]
      /\ file \in [Runs -> {"none", "part", "cut", "whole", "gone"}]
      /\ todo \in [Runs -> SUBSET Runs]
      /\ sends \in [Runs -> Nat]
  BY DEF BaseInv, TypeOK
<1> DEFINE y == Target(r)
<1>1. /\ pass[r] = "reserve" /\ file[y] # "gone"
      /\ pass' = [pass EXCEPT ![r] = "await"]
      /\ sends' = [sends EXCEPT ![y] = @ + 1]
      /\ UNCHANGED <<todo, file>>
  BY DEF Post, Go
<1>2. y \in todo[r] /\ y \in Runs /\ file[y] # "none" /\ \A x \in todo[r] : y <= x
  <2>1. todo[r] # {}
    BY <1>1 DEF BaseInv, ToSend
  <2> QED
    BY <1>0, <2>1, TargetListed, MinMax DEF Target
<1> HIDE DEF y
<1>3. \A z \in Runs : z < y => file[z] = "gone"
  <2> SUFFICES ASSUME NEW z \in Runs, z < y PROVE file[z] = "gone"
    OBVIOUS
  <2>1. ~(y <= z)
    BY <1>2, RunsPositive
  <2>2. file[z] \notin Contents
    BY <1>1, <1>2, <2>1 DEF TodoHasAll
  <2>3. pass[y] # "none" /\ pass[z] = "over"
    BY <1>0, <1>2 DEF BaseInv, FileOfRun, InTurn
  <2>4. file[z] # "none"
    BY <2>3 DEF BaseInv, FileOfRun
  <2> QED
    BY <1>0, <1>1, <1>2, <2>2, <2>4 DEF Contents
<1>4. \A m \in Runs : Known(m) => m <= y
  <2> SUFFICES ASSUME NEW m \in Runs, Known(m), ~(m <= y) PROVE FALSE
    OBVIOUS
  <2>1. y < m
    BY <1>2, RunsPositive
  <2> QED
    BY <1>1, <1>2, <2>1 DEF InOrder
<1>5. \A z \in Runs : Known(z)' => Known(z) \/ z = y
  BY <1>0, <1>1, <1>2 DEF Known
<1>6. TodoHasAll'
  BY <1>0, <1>1 DEF TodoHasAll
<1>7. InOrder'
  BY <1>1, <1>3, <1>5 DEF InOrder
<1>8. file[y] \in Contents
  BY <1>0, <1>1, <1>2 DEF Contents
<1> QED
  BY <1>2, <1>4, <1>6, <1>7, <1>8 DEF y

LEMMA PostPlace ==
    ASSUME PlaceInv, NEW r \in Runs, Post(r)
    PROVE  OrderInv' /\ ShelfInv'
<1> USE DEF PlaceInv, OrderInv, ShelfInv
<1>0. /\ pass \in [Runs -> {"none", "zip", "list", "next", "reserve", "await", "over"}]
      /\ file \in [Runs -> {"none", "part", "cut", "whole", "gone"}]
      /\ todo \in [Runs -> SUBSET Runs]
      /\ sends \in [Runs -> Nat]
      /\ request \in [Runs -> [stage : Stages, zip : Runs \cup {0}, data : Contents,
                               ok : BOOLEAN]]
      /\ goal \in Runs \cup {0} /\ last \in Runs \cup {0}
      /\ list \subseteq Runs /\ tmp \subseteq Runs /\ draft \in [Runs -> SUBSET Runs]
      /\ InTurn /\ BaseInv /\ OneRequest /\ RunsPositive
  BY RunsPositive DEF TurnInv, BaseInv, TypeOK
<1> DEFINE y == Target(r)
<1>1. /\ pass[r] = "reserve" /\ file[y] # "gone"
      /\ pass' = [pass EXCEPT ![r] = "await"]
      /\ request' = [request EXCEPT ![r] = [Idle EXCEPT !.stage = "arrived", !.zip = y,
                                                       !.data = file[y]]]
      /\ sends' = [sends EXCEPT ![y] = @ + 1]
      /\ UNCHANGED <<todo, file, staged, listVars, sumupVars>>
  BY DEF Post, Go
<1>2. y \in todo[r] /\ y \in Runs /\ file[y] # "none" /\ \A x \in todo[r] : y <= x
  <2>1. todo[r] # {}
    BY <1>0, <1>1 DEF BaseInv, ToSend
  <2> QED
    BY <1>0, <2>1, TargetListed, MinMax DEF Target
<1> HIDE DEF y
<1>3. /\ request'[r] = [stage |-> "arrived", zip |-> y, data |-> file[y], ok |-> FALSE]
      /\ \A q \in Runs \ {r} : request'[q] = request[q]
  BY <1>0, PostWrites DEF y
<1>4. sends'[y] = sends[y] + 1 /\ \A z \in Runs \ {y} : sends'[z] = sends[z]
  BY <1>0, <1>1, <1>2
<1>5. OrderInv'
  BY <1>0, PostOrder
<1>6. \A m \in Runs : Known(m) => m <= y
  BY <1>0, PostOrder DEF y
<1>7. \A z \in Runs : Known(z)' <=> Known(z) \/ z = y
  BY <1>0, <1>2, <1>4 DEF Known
<1>8. \A q \in Runs : ~Busy(q)
  BY <1>1 DEF OneRequest, TurnInv
<1>9. KnownNames'
  <2>1. \A z \in Runs : Known(z) => Known(z)'
    BY <1>7
  <2>2. \A q \in Runs \ {r} : request'[q].stage # "none" => request'[q].zip \in Runs
    BY <1>0, <1>3 DEF BaseInv, Requested
  <2>3. \A q \in Runs : request'[q].stage # "none" => sends'[request'[q].zip] > 0
    <3>1. ASSUME NEW q \in Runs, q # r, request'[q].stage # "none"
          PROVE  sends'[request'[q].zip] > 0
      <4>1. /\ request'[q].zip = request[q].zip /\ request[q].zip \in Runs
            /\ Known(request[q].zip)
        BY <1>3, <2>2, <3>1 DEF KnownNames
      <4>2. \A z \in Runs : Known(z) => sends'[z] > 0
        BY <2>1 DEF Known
      <4> QED
        BY <4>1, <4>2
    <3>2. request'[r].zip = y /\ sends'[y] > 0
      BY <1>2, <1>3, <1>7 DEF Known
    <3> QED
      BY <3>1, <3>2
  <2>4. UNCHANGED <<list, tmp, draft, goal, last, staged>>
    BY <1>1 DEF listVars, sumupVars
  <2> QED
    BY <1>0, <2>1, <2>3, <2>4 DEF KnownNames, Known
<1>10. \A q \in Runs : Busy(q)' <=> q = r
  BY <1>3, <1>8 DEF Busy
<1>11. OneBusy'
  BY <1>10 DEF OneBusy
<1>12. BusyIsNewest'
  <2>1. \A m \in Runs : Known(m)' => m <= y
    BY <1>2, <1>6, <1>7, RunsPositive
  <2> QED
    BY <1>3, <1>10, <2>1 DEF BusyIsNewest
<1>13. FirstUnknown'
  <2> SUFFICES ASSUME sends'[y] = 1
               PROVE  y \notin list /\ goal < y /\ last < y
    BY <1>1, <1>3, <1>10 DEF FirstUnknown, listVars, sumupVars
  <2>1. ~Known(y)
    BY <1>0, <1>2, <1>4 DEF Known
  <2>2. y \notin list /\ y # goal /\ y # last
    BY <1>2, <2>1 DEF KnownNames
  <2>3. (goal = 0 \/ goal <= y) /\ (last = 0 \/ last <= y)
    BY <1>0, <1>6 DEF KnownNames
  <2>4. y \in Nat /\ y > 0 /\ goal \in Nat /\ last \in Nat
    BY <1>0, <1>2, RunsPositive
  <2> QED
    BY <2>2, <2>3, <2>4
<1>14. ZipKept'
  <2> SUFFICES ASSUME NEW q \in Runs
               PROVE  /\ At(q, "read")' => request'[q].zip \in draft'[q]
                      /\ At(q, "tmp")' => request'[q].zip \in tmp' /\ written'
                      /\ At(q, "away")' => request'[q].zip \in tmp' /\ written' /\ ~present'
                                          /\ list' = {}
                      /\ At(q, "done")' /\ pass'[q] = "await" => request'[q].zip \in list'
    BY DEF ZipKept
  <2>1. CASE q = r
    BY <1>3, <2>1 DEF At
  <2>2. CASE q # r
    <3>1. pass'[q] = pass[q] /\ request'[q] = request[q]
      BY <1>0, <1>1, <1>3, <2>2
    <3> QED
      BY <1>1, <3>1 DEF ZipKept, At, listVars
  <2> QED
    BY <2>1, <2>2
<1>15. \A z \in Runs : Once(z)' => Once(z)
  <2>1. staged[y] = "whole" => Known(y)
    BY <1>2 DEF KnownNames
  <2> QED
    BY <1>0, <1>1, <1>2, <1>4, <2>1 DEF Once, Known
<1>16. Shelved'
  <2>1. \A q \in Runs : ~At(q, "away") /\ ~At(q, "read") /\ ~At(q, "tmp")
    BY <1>8 DEF Busy, At
  <2>2. \A q \in Runs : ~At(q, "away")' /\ ~At(q, "read")' /\ ~At(q, "tmp")'
    BY <1>3, <2>1 DEF At
  <2>3. \A z \in Runs : Once(z) => z \in list
    BY <1>8, <2>1 DEF Shelved
  <2> QED
    BY <1>1, <1>15, <2>2, <2>3 DEF Shelved, listVars
<1>17. InSync'
  BY <1>1, <1>15 DEF InSync, Taken, sumupVars
<1>18. GoalListed' /\ Counting'
  BY <1>1 DEF GoalListed, Counting, Taken, Earlier, listVars, sumupVars
<1> QED
  BY <1>5, <1>9, <1>11, <1>12, <1>13, <1>14, <1>16, <1>17, <1>18

\* A handler writes names it has read, and the one of its archive.
LEMMA ServiceNames ==
    ASSUME BaseInv, NEW r \in Runs, ServiceStep(r)
    PROVE  /\ UNCHANGED <<sends, sumupVars>>
           /\ list' \cup tmp' \subseteq list \cup tmp \cup draft[r]
           /\ request'[r].stage # "done" => list' \subseteq list
           /\ \A q \in Runs : draft'[q] \subseteq draft[q] \cup list \cup {request[r].zip}
           /\ \A z \in Runs : staged'[z] # "none" =>
                  staged[z] = staged'[z] \/ z = request[r].zip
<1>0. /\ request \in [Runs -> [stage : Stages, zip : Runs \cup {0}, data : Contents,
                               ok : BOOLEAN]]
      /\ draft \in [Runs -> SUBSET Runs]
      /\ staged \in [Runs -> Contents \cup {"none"}]
  BY DEF BaseInv, TypeOK
<1>1. CASE OpenStaging(r) \/ Store(r)
  BY <1>0, <1>1 DEF OpenStaging, Store, listVars
<1>2. CASE ReadList(r)
  <2>1. /\ UNCHANGED <<sends, list, tmp, sumupVars>>
        /\ draft' = [draft EXCEPT ![r] = Renew(list, request[r].zip)]
        /\ staged' = [y \in Runs |-> IF y \in list /\ y < request[r].zip - Keep
                                     THEN "none" ELSE staged[y]]
    BY <1>2 DEF ReadList
  <2>2. Renew(list, request[r].zip) \subseteq list \cup {request[r].zip}
    BY DEF Renew
  <2>3. \A z \in Runs : staged'[z] # "none" => staged[z] = staged'[z]
    BY <2>1
  <2> QED
    BY <1>0, <2>1, <2>2, <2>3
<1>3. CASE WriteTmp(r)
  BY <1>0, <1>3 DEF WriteTmp
<1>4. CASE MoveAway(r)
  BY <1>0, <1>4 DEF MoveAway
<1>5. CASE MoveIn(r)
  <2>1. /\ UNCHANGED <<sends, staged, draft, sumupVars>>
        /\ (list' = list /\ tmp' = tmp) \/ (list' = tmp /\ tmp' = {})
        /\ request'[r].stage = "done"
    BY <1>0, <1>5 DEF MoveIn, Move
  <2> QED
    BY <1>0, <2>1
<1> QED
  BY <1>1, <1>2, <1>3, <1>4, <1>5 DEF ServiceStep

\* The handler keeps its own name, and every archive of the list that it does
\* not purge.
LEMMA ServiceShelf ==
    ASSUME PlaceInv, NEW r \in Runs, ServiceStep(r)
    PROVE  ShelfInv'
<1> USE DEF PlaceInv, ShelfInv
<1> DEFINE x == request[r].zip
<1>0. /\ request \in [Runs -> [stage : Stages, zip : Runs \cup {0}, data : Contents,
                               ok : BOOLEAN]]
      /\ draft \in [Runs -> SUBSET Runs]
      /\ list \subseteq Runs /\ tmp \subseteq Runs
      /\ goal \in Runs \cup {0} /\ last \in Runs \cup {0}
      /\ BaseInv /\ OneRequest
  BY DEF TurnInv, BaseInv, TypeOK
<1>1. /\ UNCHANGED <<pass, sends>>
      /\ Busy(r) /\ Known(x) /\ x \in Runs
      /\ \A q \in Runs \ {r} : request'[q] = request[q]
      /\ request'[r].zip = x /\ request'[r].stage # "none"
  BY <1>0, ServiceEffect, ServiceNames DEF KnownNames, BaseInv, Requested, Busy
<1>2. /\ UNCHANGED <<paths, work, got, goal, last, agg, crashes>>
      /\ list' \cup tmp' \subseteq list \cup tmp \cup draft[r]
      /\ request'[r].stage # "done" => list' \subseteq list
      /\ \A q \in Runs : draft'[q] \subseteq draft[q] \cup list \cup {x}
      /\ \A z \in Runs : staged'[z] # "none" => staged[z] = staged'[z] \/ z = x
  BY <1>0, ServiceNames DEF sumupVars
<1>3. \A q \in Runs \ {r} : ~Busy(q) /\ pass[q] # "await" /\ request'[q] = request[q]
  BY <1>0, <1>1 DEF OneBusy, OneRequest
<1>4. x \in Nat /\ Keep \in Nat /\ \A n \in list : n \in Nat /\ n <= x
  BY <1>0, <1>1, RunsPositive, DeliveryAssumption DEF KnownNames, BusyIsNewest
<1>5. \A z \in Runs : Once(z)' => Once(z) \/ z = x
  BY <1>1, <1>2 DEF Once
<1>6. KnownNames'
  <2>1. \A z \in list' \cup tmp' : z \in Runs /\ sends'[z] > 0
    BY <1>0, <1>1, <1>2 DEF KnownNames, Known
  <2>2. \A q \in Runs : \A z \in draft'[q] : sends'[z] > 0
    BY <1>0, <1>1, <1>2 DEF KnownNames, Known
  <2>3. \A z \in Runs : z = goal' \/ z = last' => sends'[z] > 0
    BY <1>1, <1>2 DEF KnownNames, Known
  <2>4. \A q \in Runs : request'[q].stage # "none" => sends'[request'[q].zip] > 0
    BY <1>1 DEF KnownNames, Known
  <2>5. \A z \in Runs : staged'[z] # "none" => sends'[z] > 0
    BY <1>1, <1>2 DEF KnownNames, Known
  <2> QED
    BY <2>1, <2>2, <2>3, <2>4, <2>5 DEF KnownNames, Known
<1>7. \A q \in Runs : Busy(q)' => q = r
  BY <1>3 DEF Busy
<1>8. OneBusy' /\ BusyIsNewest'
  BY <1>1, <1>7 DEF OneBusy, BusyIsNewest, Known
<1>9. FirstUnknown'
  <2> SUFFICES ASSUME Busy(r)', sends[x] = 1
               PROVE  x \notin list' /\ goal' < x /\ last' < x
    BY <1>1, <1>7 DEF FirstUnknown
  <2>1. request'[r].stage # "done"
    BY DEF Busy
  <2> QED
    BY <1>1, <1>2, <2>1 DEF FirstUnknown
<1>10. InSync'
  <2> SUFFICES ASSUME NEW z \in Runs, Once(z)', agg'[z] = 0
               PROVE  z > last' /\ (z <= goal' => Taken(z)')
    BY DEF InSync
  <2>1. CASE Once(z)
    BY <1>2, <2>1 DEF InSync, Taken
  <2>2. CASE z = x
    <3>1. sends[x] = 1
      BY <1>1, <2>2 DEF Once
    <3>2. goal < x /\ last < x
      BY <1>1, <3>1 DEF FirstUnknown
    <3>3. goal \in Nat /\ last \in Nat
      BY <1>0, RunsPositive
    <3>4. z > last /\ ~(z <= goal)
      BY <1>4, <2>2, <3>2, <3>3
    <3> QED
      BY <1>2, <3>4
  <2> QED
    BY <1>5, <2>1, <2>2
<1> HIDE DEF x
\* Where the handler takes the names, and where it leaves them.
<1>11. /\ At(r, "read")' => At(r, "stored") /\ draft'[r] = Renew(list, x)
                            /\ \A y \in list : staged'[y] = "whole" => ~(y < x - Keep)
       /\ At(r, "tmp")' => At(r, "read") /\ tmp' = draft[r] /\ written'
       /\ At(r, "away")' => At(r, "tmp") /\ tmp' = tmp /\ written' = written
                            /\ ~present' /\ list' = {}
       /\ At(r, "done")' => At(r, "away") /\ (written /\ ~present => list' = tmp)
       /\ At(r, "done")' \/ At(r, "away")' \/ list' = list
       /\ At(r, "tmp")' \/ At(r, "away")' => UNCHANGED staged
  <2> USE DEF At, Move
  <2>1. CASE OpenStaging(r) \/ Store(r)
    <3>1. request'[r].stage \in {"open", "stored"} /\ list' = list
      BY <1>0, <2>1 DEF OpenStaging, Store, listVars
    <3> QED
      BY <3>1
  <2>2. CASE ReadList(r)
    <3>1. /\ request'[r].stage = "read" /\ list' = list
          /\ request[r].stage = "stored"
          /\ draft' = [draft EXCEPT ![r] = Renew(list, x)]
          /\ staged' = [y \in Runs |-> IF y \in list /\ y < x - Keep
                                       THEN "none" ELSE staged[y]]
      BY <1>0, <2>2 DEF ReadList, x
    <3>2. draft'[r] = Renew(list, x)
      BY <1>0, <3>1
    <3>3. \A y \in list : staged'[y] = "whole" => ~(y < x - Keep)
      BY <1>0, <3>1
    <3> QED
      BY <3>1, <3>2, <3>3
  <2>3. CASE WriteTmp(r)
    <3>1. /\ request'[r].stage = "tmp" /\ request[r].stage = "read"
          /\ tmp' = draft[r] /\ written' /\ list' = list /\ staged' = staged
      BY <1>0, <2>3 DEF WriteTmp
    <3> QED
      BY <3>1
  <2>4. CASE MoveAway(r)
    <3>1. /\ request'[r].stage = "away" /\ request[r].stage = "tmp"
          /\ tmp' = tmp /\ written' = written /\ ~present' /\ list' = {} /\ staged' = staged
      BY <1>0, <2>4 DEF MoveAway
    <3> QED
      BY <3>1
  <2>5. CASE MoveIn(r)
    <3>1. /\ request'[r].stage = "done" /\ request[r].stage = "away"
          /\ written /\ ~present => list' = tmp
      BY <1>0, <2>5 DEF MoveIn
    <3> QED
      BY <3>1
  <2> QED
    BY <2>1, <2>2, <2>3, <2>4, <2>5 DEF ServiceStep
<1>12. ZipKept'
  <2> SUFFICES ASSUME NEW q \in Runs
               PROVE  /\ At(q, "read")' => request'[q].zip \in draft'[q]
                      /\ At(q, "tmp")' => request'[q].zip \in tmp' /\ written'
                      /\ At(q, "away")' => request'[q].zip \in tmp' /\ written' /\ ~present'
                                          /\ list' = {}
                      /\ At(q, "done")' /\ pass'[q] = "await" => request'[q].zip \in list'
    BY DEF ZipKept
  <2>1. CASE q # r
    BY <1>1, <1>3, <2>1 DEF At, Busy
  <2>2. CASE q = r
    <3>1. x \in Renew(list, x)
      <4>1. CASE x \in list
        <5>1. x >= x - Keep
          BY <1>4
        <5> QED
          BY <4>1, <5>1 DEF Renew
      <4>2. CASE x \notin list
        <5>1. \A n \in list : n < x
          BY <1>4, <4>2
        <5> QED
          BY <5>1 DEF Renew
      <4> QED
        BY <4>1, <4>2
    <3>2. At(r, "read") => x \in draft[r]
      BY DEF ZipKept, x
    <3>3. At(r, "tmp") => x \in tmp /\ written
      BY DEF ZipKept, x
    <3>4. At(r, "away") => x \in tmp /\ written /\ ~present
      BY DEF ZipKept, x
    <3> QED
      BY <1>1, <1>11, <2>2, <3>1, <3>2, <3>3, <3>4
  <2> QED
    BY <2>1, <2>2
<1>13. Shelved'
  <2> SUFFICES ASSUME NEW y \in Runs, Once(y)'
               PROVE  /\ \/ y \in list'
                         \/ \E q \in Runs : At(q, "away")' \/ (Busy(q)' /\ request'[q].zip = y)
                      /\ \A q \in Runs :
                            /\ At(q, "read")' => y \in draft'[q]
                            /\ At(q, "tmp")' \/ At(q, "away")' => y \in tmp'
    BY DEF Shelved
  <2>1. y = x \/ Once(y)
    BY <1>5 DEF x
  <2>2. \A q \in Runs : At(q, "away") => q = r
    BY <1>3 DEF At, Busy
  <2>3. Once(y) /\ ~At(r, "away") => y \in list \/ y = x
    BY <1>3, <2>2 DEF Shelved, x
  <2>4. y \in list' \/ At(r, "away")' \/ (Busy(r)' /\ request'[r].zip = y)
    <3>1. CASE At(r, "done")'
      <4>1. Once(y) => y \in tmp
        BY <1>11, <3>1 DEF Shelved
      <4>2. x \in tmp /\ written /\ ~present
        BY <1>11, <3>1 DEF ZipKept, x
      <4> QED
        BY <1>11, <2>1, <3>1, <4>1, <4>2
    <3>2. CASE ~At(r, "done")' /\ ~At(r, "away")'
      <4>1. Busy(r)' /\ request'[r].zip = x /\ list' = list
        BY <1>1, <1>11, <3>2 DEF At, Busy, x
      <4>2. At(r, "away") => FALSE
        BY <1>0, <3>2 DEF ServiceStep, OpenStaging, Store, ReadList, WriteTmp, MoveAway, MoveIn,
                          At, Move
      <4> QED
        BY <2>1, <2>3, <4>1, <4>2
    <3> QED
      BY <3>1, <3>2
  <2>5. \A q \in Runs \ {r} : ~At(q, "read")' /\ ~At(q, "tmp")' /\ ~At(q, "away")'
    BY <1>3 DEF At, Busy
  <2>6. At(r, "read")' => y \in draft'[r]
    <3> SUFFICES ASSUME At(r, "read")' PROVE y \in Renew(list, x)
      BY <1>11
    <3>1. y = x => y \in draft'[r]
      BY <1>1, <1>12 DEF ZipKept, x
    <3>2. ASSUME y \in list PROVE y \in Renew(list, x)
      <4>1. ~(y < x - Keep) /\ y \in Nat
        BY <1>4, <1>11, <3>2 DEF Once
      <4>2. y >= x - Keep
        BY <1>4, <4>1
      <4> QED
        BY <3>2, <4>2 DEF Renew
    <3>3. ~At(r, "away")
      BY <1>11 DEF At
    <3> QED
      BY <1>11, <2>1, <2>3, <3>1, <3>2, <3>3
  <2>7. At(r, "tmp")' \/ At(r, "away")' => y \in tmp'
    <3> SUFFICES ASSUME At(r, "tmp")' \/ At(r, "away")' PROVE y \in tmp'
      OBVIOUS
    <3>1. Once(y)
      BY <1>1, <1>11 DEF Once
    <3> QED
      BY <1>11, <3>1 DEF Shelved
  <2> QED
    BY <2>4, <2>5, <2>6, <2>7
<1>14. GoalListed'
  <2>1. goal # 0 => goal <= x
    BY <1>0, <1>1 DEF KnownNames, BusyIsNewest, x
  <2>2. CASE At(r, "done")'
    <3>1. list' = tmp /\ x \in tmp
      BY <1>11, <2>2 DEF ZipKept, x
    <3> QED
      BY <1>2, <2>1, <3>1 DEF GoalListed
  <2>3. CASE ~At(r, "done")'
    BY <1>2, <1>11, <2>3 DEF GoalListed
  <2> QED
    BY <2>2, <2>3
<1>15. Counting'
  BY <1>2 DEF Counting, Taken, Earlier
<1> QED
  BY <1>6, <1>8, <1>9, <1>10, <1>12, <1>13, <1>14, <1>15

\* What a sync does with an archive it reads, extracts or counts.
LEMMA SumUpTypes ==
    ASSUME BaseInv
    PROVE  /\ goal \in Nat /\ last \in Nat /\ paths \in Nat /\ MaxPaths \in Nat
           /\ work \in [Runs -> Nat] /\ got \in [Runs -> Nat] /\ agg \in [Runs -> Nat]
           /\ crashes \in Nat /\ paths <= MaxPaths /\ list \in SUBSET Runs
           /\ \A z \in Runs : z \in Nat /\ z > 0 /\ work[z] \in Nat /\ got[z] \in Nat
                              /\ agg[z] \in Nat
           /\ Earlier \in Nat
<1>1. /\ goal \in Runs \cup {0} /\ last \in Runs \cup {0} /\ list \in SUBSET Runs
      /\ work \in [Runs -> Nat] /\ got \in [Runs -> Nat] /\ agg \in [Runs -> Nat]
      /\ crashes \in 0..MaxCrashes /\ paths \in 0..MaxPaths
      /\ MaxPaths \in Nat /\ MaxCrashes \in Nat
  BY DeliveryAssumption DEF BaseInv, TypeOK
<1>2. \A z \in Runs : z \in Nat /\ z > 0
  BY RunsPositive
<1>3. crashes \in Nat
  BY <1>1
<1>4. Earlier \in Nat
  BY <1>1, <1>3 DEF Earlier
<1> QED
  BY <1>1, <1>2, <1>3, <1>4

LEMMA ReadZipsTakes ==
    ASSUME BaseInv, GoalListed, goal # 0 => last < goal, ReadZips
    PROVE  /\ paths > 0 /\ paths' = paths - 1
           /\ UNCHANGED <<Others, event, got, last, agg, crashes>>
           /\ goal' = goal \/ (goal' \in list /\ last < goal')
           /\ goal <= goal' /\ goal' \in Nat
           /\ \A z \in Runs : IF z \in list /\ last < z THEN work'[z] = work[z] + 1 /\ z <= goal'
                                                        ELSE work'[z] = work[z]
<1> DEFINE new == {z \in list : z > last}
<1>1. /\ paths > 0 /\ paths' = paths - 1
      /\ work' = [z \in Runs |-> IF z \in new THEN work[z] + 1 ELSE work[z]]
      /\ goal' = IF new = {} THEN goal ELSE Max(new)
      /\ UNCHANGED <<Others, event, got, last, agg, crashes>>
  BY DEF ReadZips
<1>2. /\ goal \in Nat /\ last \in Nat /\ list \in SUBSET Runs
      /\ \A z \in Runs : z \in Nat
  BY SumUpTypes
<1>3. new \in SUBSET Runs /\ \A z \in Runs : z \in new <=> z \in list /\ last < z
  BY <1>2
<1>4. GoalListed => goal = 0 \/ new = {} \/ \E y \in new : goal <= y
  <2>1. ASSUME NEW y \in list, goal <= y, goal # 0 PROVE y \in new
    BY <1>2, <2>1
  <2>2. list = {} => new = {}
    OBVIOUS
  <2> QED
    BY <2>1, <2>2 DEF GoalListed
<1> HIDE DEF new
<1>5. CASE new = {}
  BY <1>1, <1>2, <1>3, <1>5
<1>6. CASE new # {}
  <2>1. goal' \in new /\ \A y \in new : goal' >= y
    BY <1>1, <1>3, <1>6, MinMax
  <2>2. goal' \in Nat /\ goal' \in list /\ last < goal'
    BY <1>2, <1>3, <2>1
  <2>3. goal <= goal'
    <3>1. CASE goal = 0
      BY <2>2, <3>1
    <3>2. CASE goal # 0
      <4>1. PICK y \in new : goal <= y
        BY <1>4, <1>6, <3>2
      <4>2. y \in Nat /\ goal' >= y
        BY <1>2, <1>3, <2>1
      <4> QED
        BY <1>2, <2>2, <4>1, <4>2
    <3> QED
      BY <3>1, <3>2
  <2>4. \A z \in new : z <= goal'
    BY <1>2, <1>3, <2>1, <2>2
  <2> QED
    BY <1>1, <1>3, <2>2, <2>3, <2>4
<1> QED
  BY <1>5, <1>6

\* What remains to be done and has been done for one archive.
LEMMA ExtractMoves ==
    ASSUME BaseInv, NEW m \in Runs, Extract(m)
    PROVE  /\ work[m] > 0 /\ work'[m] = work[m] - 1
           /\ IF staged[m] = "whole" THEN got'[m] = got[m] + 1 ELSE got'[m] = got[m]
           /\ \A z \in Runs \ {m} : work'[z] = work[z] /\ got'[z] = got[z]
           /\ UNCHANGED <<Others, paths, goal, last, agg, crashes>>
  BY SumUpTypes DEF Extract

LEMMA AggregateMoves ==
    ASSUME BaseInv, NEW m \in Runs, Aggregate(m)
    PROVE  /\ got[m] > 0 /\ got'[m] = got[m] - 1 /\ agg'[m] = agg[m] + 1
           /\ \A z \in Runs \ {m} : agg'[z] = agg[z] /\ got'[z] = got[z]
           /\ UNCHANGED <<Others, paths, work, goal, last, crashes>>
  BY SumUpTypes DEF Aggregate

\* A sync counts what it takes once for each path it has read, and takes nothing
\* that an earlier one has been through with.
LEMMA SumUpCounts ==
    ASSUME BaseInv, GoalListed, Counting, SumUpStep \/ Crash
    PROVE  GoalListed' /\ Counting'
<1>1. /\ goal \in Nat /\ last \in Nat /\ paths \in Nat /\ MaxPaths \in Nat
      /\ crashes \in Nat /\ paths <= MaxPaths /\ Earlier \in Nat
      /\ \A z \in Runs : z \in Nat /\ z > 0 /\ work[z] \in Nat /\ got[z] \in Nat
                         /\ agg[z] \in Nat
  BY SumUpTypes
<1>2. UNCHANGED list
  BY SumUpOthers DEF Others
<1>3. UNCHANGED crashes => Earlier' = Earlier
  BY DEF Earlier
<1>4. CASE Wake
  <2>1. /\ goal = 0 /\ UNCHANGED <<work, got, goal, last, agg, crashes>>
    BY <1>4 DEF Wake
  <2>2. Earlier' = Earlier
    BY <1>3, <2>1
  <2>3. \A z \in Runs : ~(z <= goal)
    BY <1>1, <2>1
  <2> QED
    BY <1>2, <2>1, <2>2, <2>3 DEF GoalListed, Counting, Taken
<1>5. CASE ReadZips
  <2>1. /\ paths > 0 /\ paths' = paths - 1
        /\ UNCHANGED <<got, last, agg, crashes>>
        /\ goal' = goal \/ (goal' \in list /\ last < goal')
        /\ goal <= goal' /\ goal' \in Nat
        /\ \A z \in Runs : IF z \in list /\ last < z THEN work'[z] = work[z] + 1 /\ z <= goal'
                                                     ELSE work'[z] = work[z]
    BY <1>5, ReadZipsTakes DEF Counting
  <2>2. Earlier' = Earlier
    BY <1>3, <2>1
  <2>3. GoalListed'
    BY <1>1, <1>2, <2>1 DEF GoalListed
  <2>4. goal' # 0 => last' < goal'
    BY <2>1 DEF Counting
  <2>5. ASSUME NEW z \in Runs
        PROVE  /\ Taken(z)' => last' < z /\ z <= goal'
               /\ agg'[z] <= Earlier' + MaxPaths
               /\ last' < z /\ goal' < z => agg'[z] <= Earlier'
               /\ last' < z /\ z <= goal' =>
                      agg'[z] + work'[z] + got'[z] + paths' <= Earlier' + MaxPaths
    <3>1. /\ agg[z] <= Earlier + MaxPaths
          /\ last < z /\ goal < z => agg[z] <= Earlier
          /\ last < z /\ z <= goal => agg[z] + work[z] + got[z] + paths <= Earlier + MaxPaths
          /\ work[z] > 0 \/ got[z] > 0 => last < z /\ z <= goal
      BY DEF Counting, Taken
    <3>2. /\ work'[z] = work[z] \/ (work'[z] = work[z] + 1 /\ last < z /\ z <= goal')
          /\ got'[z] = got[z] /\ agg'[z] = agg[z] /\ last' = last
      BY <2>1
    <3>3. z <= goal => z <= goal'
      BY <1>1, <2>1
    <3>4. Taken(z)' => last' < z /\ z <= goal'
      BY <1>1, <3>1, <3>2, <3>3 DEF Taken
    <3>5. last < z /\ goal' < z => agg[z] <= Earlier
      BY <1>1, <2>1, <3>1
    <3>6. ASSUME last < z, z <= goal'
          PROVE  agg[z] + work'[z] + got[z] + paths' <= Earlier + MaxPaths
      <4>1. work'[z] <= work[z] + 1 /\ work'[z] \in Nat
        BY <1>1, <3>2
      <4>2. CASE z <= goal
        BY <1>1, <2>1, <3>1, <3>6, <4>1, <4>2
      <4>3. CASE ~(z <= goal)
        <5>1. work[z] = 0 /\ got[z] = 0 /\ agg[z] <= Earlier
          BY <1>1, <3>1, <3>6, <4>3
        <5> QED
          BY <1>1, <2>1, <4>1, <5>1
      <4> QED
        BY <4>2, <4>3
    <3> QED
      BY <2>2, <3>1, <3>2, <3>4, <3>5, <3>6
  <2> QED
    BY <2>3, <2>4, <2>5 DEF Counting
<1>6. ASSUME NEW m \in Runs, Extract(m) PROVE GoalListed' /\ Counting'
  <2>1. /\ work[m] > 0 /\ work'[m] = work[m] - 1
        /\ got'[m] = got[m] + 1 \/ got'[m] = got[m]
        /\ \A z \in Runs \ {m} : work'[z] = work[z] /\ got'[z] = got[z]
        /\ UNCHANGED <<paths, goal, last, agg, crashes>>
    BY <1>6, ExtractMoves
  <2>2. Earlier' = Earlier
    BY <1>3, <2>1
  <2>3. ASSUME NEW z \in Runs
        PROVE  (Taken(z)' => Taken(z)) /\ work'[z] + got'[z] <= work[z] + got[z]
               /\ work'[z] \in Int /\ got'[z] \in Int
    BY <1>1, <2>1 DEF Taken
  <2>4. ASSUME NEW z \in Runs,
               agg[z] + work[z] + got[z] + paths <= Earlier + MaxPaths
        PROVE  agg[z] + work'[z] + got'[z] + paths <= Earlier + MaxPaths
    BY <1>1, <2>3, <2>4
  <2> QED
    BY <1>2, <2>1, <2>2, <2>3, <2>4 DEF GoalListed, Counting
<1>7. ASSUME NEW m \in Runs, Aggregate(m) PROVE GoalListed' /\ Counting'
  <2>1. /\ got[m] > 0 /\ got'[m] = got[m] - 1 /\ agg'[m] = agg[m] + 1
        /\ \A z \in Runs \ {m} : agg'[z] = agg[z] /\ got'[z] = got[z]
        /\ UNCHANGED <<paths, work, goal, last, crashes>>
    BY <1>7, AggregateMoves
  <2>2. Earlier' = Earlier
    BY <1>3, <2>1
  <2>3. \A z \in Runs : (Taken(z)' => Taken(z)) /\ agg'[z] + got'[z] = agg[z] + got[z]
                         /\ agg'[z] \in Nat /\ got'[z] \in Nat
    BY <1>1, <2>1 DEF Taken
  <2>4. last < m /\ m <= goal
    BY <2>1 DEF Counting, Taken
  <2>5. \A z \in Runs : last < z /\ z <= goal =>
                           agg'[z] + work[z] + got'[z] + paths <= Earlier + MaxPaths
    <3> SUFFICES ASSUME NEW z \in Runs,
                        agg[z] + work[z] + got[z] + paths <= Earlier + MaxPaths
                 PROVE  agg'[z] + work[z] + got'[z] + paths <= Earlier + MaxPaths
      BY DEF Counting
    <3> QED
      BY <1>1, <2>3
  <2>6. agg'[m] <= Earlier + MaxPaths
    BY <1>1, <2>3, <2>4, <2>5
  <2>7. \A z \in Runs : agg'[z] <= Earlier + MaxPaths
    BY <2>1, <2>6 DEF Counting
  <2>8. \A z \in Runs : last < z /\ goal < z => agg'[z] <= Earlier
    <3>1. ~(goal < m)
      BY <1>1, <2>4
    <3> QED
      BY <2>1, <3>1 DEF Counting
  <2>9. GoalListed'
    BY <1>2, <2>1 DEF GoalListed
  <2> QED
    BY <2>1, <2>2, <2>3, <2>5, <2>7, <2>8, <2>9 DEF Counting
<1>8. CASE Save
  <2>1. /\ goal # 0 /\ work = None /\ got = None
        /\ last' = goal /\ goal' = 0
        /\ UNCHANGED <<paths, work, got, agg, crashes>>
    BY <1>8 DEF Save
  <2>2. Earlier' = Earlier
    BY <1>3, <2>1
  <2>3. \A z \in Runs : work[z] = 0 /\ got[z] = 0
    BY <2>1 DEF None
  <2>4. \A z \in Runs : goal < z => agg[z] <= Earlier
    <3>1. \A z \in Runs : goal < z => last < z
      BY <1>1, <2>1 DEF Counting
    <3> QED
      BY <3>1 DEF Counting
  <2>5. \A z \in Runs : ~(z <= 0)
    BY <1>1
  <2> QED
    BY <2>1, <2>2, <2>3, <2>4, <2>5 DEF GoalListed, Counting, Taken
<1>9. CASE Crash
  <2>1. /\ crashes' = crashes + 1
        /\ work' = None /\ got' = None /\ goal' = 0
        /\ UNCHANGED <<last, agg>>
    BY <1>9 DEF Crash
  <2>2. Earlier' = Earlier + MaxPaths
    BY <1>1, <2>1 DEF Earlier
  <2>3. \A z \in Runs : work'[z] = 0 /\ got'[z] = 0
    BY <2>1 DEF None
  <2>4. \A z \in Runs : agg[z] <= Earlier' /\ agg[z] <= Earlier' + MaxPaths
    BY <1>1, <2>2 DEF Counting
  <2>5. \A z \in Runs : ~(z <= 0)
    BY <1>1
  <2> QED
    BY <2>1, <2>3, <2>4, <2>5 DEF GoalListed, Counting, Taken
<1> QED
  BY <1>4, <1>5, <1>6, <1>7, <1>8, <1>9 DEF SumUpStep

\* The aggregator takes all that is listed past its check point, and moves the
\* check point when it has counted all that it could extract.
LEMMA SumUpShelf ==
    ASSUME PlaceInv, SumUpStep \/ Crash
    PROVE  OrderInv' /\ ShelfInv'
<1> USE DEF PlaceInv, ShelfInv
<1>1. /\ BaseInv /\ list \in SUBSET Runs
      /\ goal \in Nat /\ last \in Nat
      /\ \A z \in Runs : /\ z \in Nat /\ z > 0 /\ work[z] \in Nat /\ got[z] \in Nat
                         /\ agg[z] \in Nat
  BY SumUpTypes DEF TurnInv
<1>2. GoalListed' /\ Counting'
  BY <1>1, SumUpCounts
<1>3. UNCHANGED <<pass, todo, file, request, sends, staged, draft, list, tmp, present, written>>
  BY SumUpOthers DEF Others, agentVars
<1>4. \A q \in Runs : Busy(q) => request[q].zip \in Runs
  BY <1>1 DEF BaseInv, Requested, Busy
\* What depends on the aggregator.
<1> DEFINE GoalKnown == \A z \in Runs : z = goal' \/ z = last' => Known(z)
           GoalFirst == \A q \in Runs : Busy(q) /\ sends[request[q].zip] = 1 =>
                           goal' < request[q].zip /\ last' < request[q].zip
           Counted == \A z \in Runs : Once(z) /\ agg'[z] = 0 =>
                           z > last' /\ (z <= goal' => Taken(z)')
<1>5. SUFFICES GoalKnown /\ GoalFirst /\ Counted
  <2>1. KnownNames' /\ OneBusy' /\ BusyIsNewest'
    BY <1>3, <1>5 DEF KnownNames, OneBusy, BusyIsNewest, Busy, Known
  <2>2. FirstUnknown'
    BY <1>3, <1>5 DEF FirstUnknown, Busy
  <2>3. ZipKept'
    BY <1>3 DEF ZipKept, At
  <2>4. Shelved'
    BY <1>3 DEF Shelved, Once, At, Busy
  <2>5. InSync'
    BY <1>3, <1>5 DEF InSync, Once
  <2> QED
    BY <1>2, <1>3, <2>1, <2>2, <2>3, <2>4, <2>5, OrderUnmoved
<1>6. CASE Wake
  <2>1. UNCHANGED <<work, got, goal, last, agg>>
    BY <1>6 DEF Wake
  <2>2. Counted
    BY <2>1 DEF InSync, Taken
  <2> QED
    BY <2>1, <2>2 DEF KnownNames, FirstUnknown
<1>7. CASE ReadZips
  <2>1. /\ UNCHANGED <<got, last, agg>>
        /\ goal' = goal \/ (goal' \in list /\ last < goal')
        /\ goal' \in Nat
        /\ \A z \in Runs : IF z \in list /\ last < z THEN work'[z] = work[z] + 1 /\ z <= goal'
                                                     ELSE work'[z] = work[z]
    BY <1>1, <1>7, ReadZipsTakes DEF Counting
  <2>2. GoalKnown
    BY <1>1, <2>1 DEF KnownNames
  <2>3. GoalFirst
    <3> SUFFICES ASSUME NEW q \in Runs, Busy(q), sends[request[q].zip] = 1
                 PROVE  goal' < request[q].zip /\ last' < request[q].zip
      OBVIOUS
    <3>1. /\ request[q].zip \notin list /\ last < request[q].zip /\ request[q].zip \in Runs
          /\ goal < request[q].zip
      BY <1>4 DEF FirstUnknown
    <3>2. goal' \in list => goal' \in Runs /\ goal' <= request[q].zip /\ goal' # request[q].zip
      BY <1>1, <3>1 DEF KnownNames, BusyIsNewest
    <3> QED
      BY <1>1, <2>1, <3>1, <3>2
  <2>4. Counted
    <3> SUFFICES ASSUME NEW z \in Runs, Once(z), agg'[z] = 0
                 PROVE  z > last' /\ (z <= goal' => Taken(z)')
      OBVIOUS
    <3>1. z > last /\ (z <= goal => Taken(z))
      BY <2>1 DEF InSync
    <3>2. Taken(z) => Taken(z)'
      <4>1. work'[z] >= work[z] /\ got'[z] = got[z] /\ work'[z] \in Nat
        BY <1>1, <2>1
      <4> QED
        BY <1>1, <4>1 DEF Taken
    <3>3. CASE z \in list
      <4>1. work'[z] = work[z] + 1
        BY <1>1, <2>1, <3>1, <3>3
      <4>2. Taken(z)'
        BY <1>1, <4>1 DEF Taken
      <4> QED
        BY <2>1, <3>1, <4>2
    <3>4. CASE \E q \in Runs : At(q, "away")
      <4>1. list = {}
        BY <3>4 DEF ZipKept
      <4> QED
        BY <2>1, <3>1, <3>2, <4>1
    <3>5. CASE \E q \in Runs : Busy(q) /\ request[q].zip = z
      <4>1. goal' < z
        BY <2>3, <3>5 DEF Once
      <4>2. ~(z <= goal')
        BY <1>1, <2>1, <4>1
      <4> QED
        BY <2>1, <3>1, <4>2
    <3> QED
      BY <3>3, <3>4, <3>5 DEF Shelved
  <2> QED
    BY <2>2, <2>3, <2>4
<1>8. ASSUME NEW m \in Runs, Extract(m) PROVE GoalKnown /\ GoalFirst /\ Counted
  <2>1. /\ IF staged[m] = "whole" THEN got'[m] = got[m] + 1 ELSE got'[m] = got[m]
        /\ \A z \in Runs \ {m} : work'[z] = work[z] /\ got'[z] = got[z]
        /\ UNCHANGED <<goal, last, agg>>
    BY <1>1, <1>8, ExtractMoves
  <2>2. \A z \in Runs : Once(z) /\ Taken(z) => Taken(z)'
    BY <1>1, <2>1 DEF Once, Taken
  <2>3. Counted
    BY <2>1, <2>2 DEF InSync
  <2> QED
    BY <2>1, <2>3 DEF KnownNames, FirstUnknown
<1>9. ASSUME NEW m \in Runs, Aggregate(m) PROVE GoalKnown /\ GoalFirst /\ Counted
  <2>1. /\ agg'[m] = agg[m] + 1
        /\ \A z \in Runs \ {m} : agg'[z] = agg[z] /\ got'[z] = got[z]
        /\ UNCHANGED <<work, goal, last>>
    BY <1>1, <1>9, AggregateMoves
  <2>2. agg'[m] # 0
    BY <1>1, <2>1
  <2>3. Counted
    BY <2>1, <2>2 DEF InSync, Taken
  <2> QED
    BY <2>1, <2>3 DEF KnownNames, FirstUnknown
<1>10. CASE Save
  <2>1. /\ work = None /\ got = None /\ last' = goal /\ goal' = 0
        /\ UNCHANGED <<work, got, agg>>
    BY <1>10 DEF Save
  <2>2. \A z \in Runs : ~Taken(z) /\ ~(z <= goal')
    BY <1>1, <2>1 DEF None, Taken
  <2>3. GoalKnown
    BY <1>1, <2>1 DEF KnownNames
  <2>4. GoalFirst
    BY <1>1, <1>4, <2>1 DEF FirstUnknown
  <2>5. Counted
    BY <1>1, <2>1, <2>2 DEF InSync
  <2> QED
    BY <2>3, <2>4, <2>5
<1>11. CASE Crash
  <2>1. goal' = 0 /\ UNCHANGED <<last, agg>>
    BY <1>11 DEF Crash
  <2>2. GoalKnown
    BY <1>1, <2>1 DEF KnownNames
  <2>3. GoalFirst
    BY <1>1, <1>4, <2>1 DEF FirstUnknown
  <2>4. Counted
    BY <1>1, <2>1 DEF InSync
  <2> QED
    BY <2>2, <2>3, <2>4
<1> QED
  BY <1>6, <1>7, <1>8, <1>9, <1>10, <1>11 DEF SumUpStep

LEMMA PlaceInductive ==
    ASSUME Overlap = FALSE, Late = FALSE, PlaceInv, [Next]_vars
    PROVE  PlaceInv'
<1> USE DEF PlaceInv
<1>1. TurnInv'
  BY TurnInductive
<1>2. CASE UNCHANGED vars
  <2>1. OrderInv'
    BY <1>2, OrderUnmoved DEF vars
  <2>2. ShelfInv'
    BY <1>2, ShelfUnmoved DEF vars, listVars, sumupVars
  <2> QED
    BY <1>1, <2>1, <2>2
<1>3. ASSUME NEW r \in Runs, AgentStep(r) PROVE OrderInv' /\ ShelfInv'
  BY <1>3, QuietAgentPlace, PostPlace
<1>4. ASSUME NEW r \in Runs, ServiceStep(r) PROVE OrderInv' /\ ShelfInv'
  <2>1. UNCHANGED <<pass, todo, file, sends>>
    BY <1>4, ServiceEffect, ServiceNames DEF TurnInv
  <2> QED
    BY <1>4, <2>1, OrderUnmoved, ServiceShelf
<1>5. ASSUME SumUpStep \/ Crash PROVE OrderInv' /\ ShelfInv'
  BY <1>5, SumUpShelf
<1>6. OrderInv' /\ ShelfInv'
  BY <1>2, <1>3, <1>4, <1>5 DEF Next
<1> QED
  BY <1>1, <1>6

\* With runs that come one after the other and no request left over from an
\* earlier one, the check point of the aggregator passes over an archive that
\* the web service holds whole only if it was sent more than once, whatever
\* else fails and however often the aggregator dies.
THEOREM OnlyResentIsSkipped ==
    ASSUME Overlap = FALSE, Late = FALSE
    PROVE  Spec => []SkippedOnlyIfResent
<1>1. PlaceInv => SkippedOnlyIfResent
  <2> SUFFICES ASSUME PlaceInv, NEW z \in Runs, staged[z] = "whole", z <= last, agg[z] = 0
               PROVE  sends[z] > 1
    BY DEF SkippedOnlyIfResent
  <2>1. sends[z] \in Nat /\ z \in Nat /\ last \in Nat
    <3>1. sends \in [Runs -> Nat] /\ last \in Runs \cup {0}
      BY DEF PlaceInv, TurnInv, BaseInv, TypeOK
    <3> QED
      BY <3>1, RunsPositive
  <2>2. sends[z] > 0
    BY DEF PlaceInv, ShelfInv, KnownNames, Known
  <2>3. ~(z > last)
    BY <2>1
  <2>4. sends[z] # 1
    BY <2>3 DEF PlaceInv, ShelfInv, InSync, Once
  <2> QED
    BY <2>1, <2>2, <2>4
<1>2. Init => PlaceInv
  BY InitTurn, InitPlace DEF PlaceInv
<1>3. PlaceInv /\ [Next]_vars => PlaceInv'
  BY PlaceInductive
<1> QED
  BY <1>1, <1>2, <1>3, PTL DEF Spec

\* As long as the runs come one after the other and no request is left over,
\* every archive that is stored and answered OK is listed when its run hears
\* of it, although circulate adds a name only past all that are listed.
THEOREM AnsweredIsListed ==
    ASSUME Overlap = FALSE, Late = FALSE
    PROVE  Spec => []NewFileListed
<1>1. PlaceInv => NewFileListed
  BY DEF PlaceInv, ShelfInv, ZipKept, At, NewFileListed
<1>2. Init => PlaceInv
  BY InitTurn, InitPlace DEF PlaceInv
<1>3. PlaceInv /\ [Next]_vars => PlaceInv'
  BY PlaceInductive
<1> QED
  BY <1>1, <1>2, <1>3, PTL DEF Spec

\* Under the same assumptions a sync counts an archive once for each path it
\* was told of, and only one that is killed leaves it to another: however the
\* list is replaced while it is read, what a complete sync has counted is
\* behind its check point.
THEOREM CountedOnce ==
    ASSUME Overlap = FALSE, Late = FALSE
    PROVE  Spec => []CountedByOneSync
<1>1. PlaceInv => CountedByOneSync
  <2> SUFFICES ASSUME PlaceInv, NEW z \in Runs PROVE agg[z] <= MaxPaths * (1 + crashes)
    BY DEF CountedByOneSync
  <2>1. agg[z] <= Earlier + MaxPaths
    BY DEF PlaceInv, ShelfInv, Counting
  <2>2. MaxPaths \in Nat /\ crashes \in Nat
    BY SumUpTypes DEF PlaceInv, TurnInv
  <2>3. MaxPaths * (1 + crashes) = Earlier + MaxPaths
    BY <2>2 DEF Earlier
  <2> QED
    BY <2>1, <2>3
<1>2. Init => PlaceInv
  BY InitTurn, InitPlace DEF PlaceInv
<1>3. PlaceInv /\ [Next]_vars => PlaceInv'
  BY PlaceInductive
<1> QED
  BY <1>1, <1>2, <1>3, PTL DEF Spec

-----------------------------------------------------------------------------
(* Requests that outlive their run.                                         *)

\* The agent removes no archive but one that is stored as it is, one that has
\* expired, and one it has sent more than once: only an earlier transfer of the
\* same archive can spoil what is stored, however late a request is answered.
OnlyResentIsLost ==
    [][\A z \in Runs : file[z] \in Contents /\ file'[z] = "gone"
                       => Delivered(z) \/ TooOld(z) \/ sends[z] > 1]_vars

\* An archive that was sent once has one request.
Asked(r) == request[r].stage # "none"
AskedOnce ==
    /\ \A r \in Runs : Asked(r) => Known(request[r].zip)
    /\ \A q, r \in Runs : Asked(q) /\ Asked(r) /\ request[q].zip = request[r].zip
                          /\ sends[request[r].zip] = 1 => q = r

\* What a run waits for is its own request, for its target, of which it has read
\* all there is and which it has not removed. When it is OK and the only one for that archive,
\* the staging directory has it.
Awaited(r) ==
    /\ Asked(r) /\ request[r].zip = Target(r) /\ request[r].data = file[Target(r)]
    /\ file[Target(r)] \notin {"part", "gone"}
    /\ request[r].ok /\ sends[Target(r)] = 1 =>
           request[r].stage \notin {"arrived", "open"} /\ staged[Target(r)] = file[Target(r)]
AwaitedAll == \A r \in Runs : pass[r] = "await" => Awaited(r)

LateInv == BaseInv /\ InTurn /\ Written /\ OrderInv /\ AskedOnce /\ AwaitedAll

LEMMA InitLate == Init => LateInv
<1> SUFFICES ASSUME Init PROVE LateInv
  OBVIOUS
<1>1. BaseInv /\ InTurn /\ Written
  BY InitTurn DEF TurnInv
<1>2. OrderInv
  BY InitPlace
<1>3. AskedOnce /\ AwaitedAll
  BY DEF Init, AskedOnce, Asked, AwaitedAll, Idle
<1> QED
  BY <1>1, <1>2, <1>3 DEF LateInv

\* While requests, staged archives, lists and the archives of the runs that
\* wait are as before, so is what they wait for.
LEMMA LateUnmoved ==
    ASSUME AskedOnce, AwaitedAll, UNCHANGED <<request, sends, staged>>,
           \A q \in Runs : pass'[q] = "await" =>
               pass[q] = "await" /\ todo'[q] = todo[q] /\ file'[Target(q)] = file[Target(q)]
    PROVE  AskedOnce' /\ AwaitedAll'
<1>1. AskedOnce'
  BY DEF AskedOnce, Asked, Known
<1>2. AwaitedAll'
  BY DEF AwaitedAll, Awaited, Asked, Target
<1> QED
  BY <1>1, <1>2

\* A run that does not send leaves the others their requests: none of them waits.
LEMMA QuietAgentLate ==
    ASSUME Overlap = FALSE, LateInv, NEW r \in Runs, AgentStep(r), ~Post(r)
    PROVE  AskedOnce' /\ AwaitedAll'
<1>1. BaseInv /\ InTurn /\ AskedOnce /\ AwaitedAll
  BY DEF LateInv
<1>2. UNCHANGED <<request, sends, staged>> /\ \A q \in Runs : pass'[q] # "await"
  BY <1>1, NoneWaits
<1> QED
  BY <1>1, <1>2, LateUnmoved

\* A run that sends has no request of another run for its archive but one that
\* makes it sent more than once.
LEMMA PostLate ==
    ASSUME LateInv, NEW r \in Runs, Post(r)
    PROVE  AskedOnce' /\ AwaitedAll'
<1> DEFINE y == Target(r)
<1>1. BaseInv /\ InTurn /\ Written /\ OrderInv /\ AskedOnce /\ AwaitedAll
  BY DEF LateInv
<1>2. /\ sends \in [Runs -> Nat]
      /\ request \in [Runs -> [stage : Stages, zip : Runs \cup {0}, data : Contents,
                               ok : BOOLEAN]]
      /\ pass \in [Runs -> {"none", "zip", "list", "next", "reserve", "await", "over"}]
      /\ \A q \in Runs : Asked(q) => request[q].zip \in Runs
  BY <1>1 DEF BaseInv, TypeOK, Requested, Asked
<1>3. y \in Runs /\ file[y] \in Contents
  BY <1>1, PostOrder
<1>4. /\ pass[r] = "reserve" /\ pass' = [pass EXCEPT ![r] = "await"]
      /\ request' = [request EXCEPT ![r] = [Idle EXCEPT !.stage = "arrived", !.zip = y,
                                                       !.data = file[y]]]
      /\ sends' = [sends EXCEPT ![y] = @ + 1]
      /\ UNCHANGED <<todo, file, staged>>
  BY DEF Post, Go
<1>5. file[y] \notin {"part", "gone"}
  BY <1>1, <1>2, <1>3, <1>4, OneRun DEF Written, Contents
<1>6. \A q \in Runs \ {r} : pass'[q] # "await"
  BY <1>1, <1>2, <1>4, OneRun
<1>7. Target(r)' = y
  BY <1>4 DEF Target
<1> HIDE DEF y
<1>8. /\ request'[r] = [stage |-> "arrived", zip |-> y, data |-> file[y], ok |-> FALSE]
      /\ \A q \in Runs \ {r} : request'[q] = request[q]
      /\ sends'[y] = sends[y] + 1 /\ \A z \in Runs \ {y} : sends'[z] = sends[z]
  BY <1>2, <1>3, <1>4 DEF Idle
<1>9. \A q \in Runs : Asked(q)' <=> Asked(q) \/ q = r
  BY <1>8 DEF Asked
<1>10. ASSUME NEW q \in Runs, Asked(q)' PROVE sends'[request'[q].zip] > 0
  <2>1. CASE q = r
    BY <1>2, <1>3, <1>8, <2>1
  <2>2. CASE q # r
    <3>1. request'[q].zip = request[q].zip /\ request[q].zip \in Runs
          /\ sends[request[q].zip] > 0
      BY <1>1, <1>2, <1>8, <1>9, <1>10, <2>2 DEF AskedOnce, Known
    <3> QED
      BY <1>2, <1>3, <1>8, <3>1
  <2> QED
    BY <2>1, <2>2
<1>11. ASSUME NEW q \in Runs, q # r, Asked(q)', request'[q].zip = y, sends'[y] = 1
       PROVE  FALSE
  <2>1. sends[y] > 0
    BY <1>1, <1>8, <1>9, <1>11 DEF AskedOnce, Known
  <2> QED
    BY <1>2, <1>3, <1>8, <1>11, <2>1
<1>12. AskedOnce'
  <2>1. \A q \in Runs : Asked(q)' => sends'[request'[q].zip] > 0
    BY <1>10
  <2>2. ASSUME NEW p \in Runs, NEW q \in Runs, Asked(p)', Asked(q)',
               request'[p].zip = request'[q].zip, sends'[request'[q].zip] = 1
        PROVE  p = q
    <3>1. CASE p = r \/ q = r
      BY <1>8, <1>11, <2>2, <3>1
    <3>2. CASE p # r /\ q # r
      <4>1. /\ Asked(p) /\ Asked(q) /\ request[p].zip = request[q].zip
            /\ request[q].zip = request'[q].zip /\ request[q].zip \in Runs
        BY <1>2, <1>8, <1>9, <2>2, <3>2
      <4>2. request[q].zip # y
        BY <1>11, <2>2, <3>2, <4>1
      <4>3. sends[request[q].zip] = 1
        BY <1>8, <2>2, <4>1, <4>2
      <4> QED
        BY <1>1, <4>1, <4>3 DEF AskedOnce
    <3> QED
      BY <3>1, <3>2
  <2> QED
    BY <2>1, <2>2 DEF AskedOnce, Known
<1>13. AwaitedAll'
  <2>1. /\ request'[r].zip = y /\ request'[r].data = file'[y] /\ request'[r].ok = FALSE
    <3>1. file' = file
      BY <1>4
    <3>2. request'[r] = [stage |-> "arrived", zip |-> y, data |-> file[y], ok |-> FALSE]
      BY <1>8
    <3> QED
      BY <3>1, <3>2
  <2>2. file'[y] \notin {"part", "gone"} /\ Asked(r)'
    <3>1. file'[y] \notin {"part", "gone"}
      BY <1>4, <1>5
    <3>2. Asked(r)'
      BY <1>9
    <3> QED
      BY <3>1, <3>2
  <2>3. Awaited(r)'
    BY <1>7, <2>1, <2>2 DEF Awaited
  <2> QED
    BY <1>6, <2>3 DEF AwaitedAll
<1> QED
  BY <1>12, <1>13

\* A handler touches the staging directory where its archive is, and where
\* those are that are older.
LEMMA ServiceStaged ==
    ASSUME BaseInv, NEW r \in Runs, ServiceStep(r), NEW z \in Runs
    PROVE  staged'[z] = staged[z] \/ z = request[r].zip \/ z < request[r].zip
<1>1. staged \in [Runs -> Contents \cup {"none"}] /\ request[r].zip \in Runs
  BY ServiceEffect DEF BaseInv, TypeOK, Requested, Busy
<1>2. CASE ReadList(r)
  <2>1. staged'[z] = staged[z] \/ z < request[r].zip - Keep
    BY <1>1, <1>2 DEF ReadList
  <2>2. z \in Nat /\ request[r].zip \in Nat /\ Keep \in Nat
    BY <1>1, RunsPositive, DeliveryAssumption
  <2> QED
    BY <2>1, <2>2
<1>3. CASE ~ReadList(r)
  BY <1>1, <1>3 DEF ServiceStep, OpenStaging, Store, WriteTmp, MoveAway, MoveIn
<1> QED
  BY <1>2, <1>3

\* A late handler does not disturb what a run waits for: with the same archive
\* that one would have been sent twice, and with a newer one the archive would
\* be gone.
LEMMA ServiceLate ==
    ASSUME LateInv, NEW r \in Runs, ServiceStep(r)
    PROVE  AskedOnce' /\ AwaitedAll'
<1>1. BaseInv /\ OrderInv /\ AskedOnce /\ AwaitedAll
  BY DEF LateInv
<1>2. /\ UNCHANGED <<pass, todo, file, sends>>
      /\ Busy(r)
      /\ \A q \in Runs \ {r} : request'[q] = request[q]
      /\ request'[r].zip = request[r].zip /\ request'[r].data = request[r].data
      /\ request'[r].stage \notin {"none", "arrived"}
  BY <1>1, ServiceEffect, ServiceNames
<1>3. Asked(r) /\ Asked(r)'
  BY <1>2 DEF Asked, Busy
<1>4. \A q \in Runs : (Asked(q)' <=> Asked(q)) /\ request'[q].zip = request[q].zip
  BY <1>2, <1>3 DEF Asked
<1>5. AskedOnce'
  BY <1>1, <1>2, <1>4 DEF AskedOnce, Known
<1>6. ASSUME NEW q \in Runs, pass[q] = "await" PROVE Awaited(q)'
  <2>1. /\ Awaited(q) /\ Target(q)' = Target(q)
        /\ Target(q) \in Runs /\ request[q].zip = Target(q)
    BY <1>1, <1>2, <1>6, TargetListed DEF AwaitedAll, Awaited, Target, BaseInv, ToSend
  <2>2. /\ Asked(q)' /\ request'[q].zip = Target(q)
        /\ request'[q].data = request[q].data /\ request[q].data = file[Target(q)]
        /\ file'[Target(q)] = file[Target(q)] /\ file[Target(q)] \notin {"part", "gone"}
    BY <1>2, <1>4, <2>1 DEF Awaited
  <2>3. ASSUME request'[q].ok, sends[Target(q)] = 1
        PROVE  /\ request'[q].stage \notin {"arrived", "open"}
               /\ staged'[Target(q)] = file[Target(q)]
    <3>1. CASE q = r
      BY <1>1, <1>2, <1>6, <2>1, <2>2, <2>3, <3>1, ServiceAnswers DEF Awaited
    <3>2. CASE q # r
      <4>1. /\ request[q].stage \notin {"arrived", "open"}
            /\ staged[Target(q)] = file[Target(q)]
        BY <1>2, <2>1, <2>3, <3>2 DEF Awaited
      <4>2. request[r].zip # Target(q)
        BY <1>1, <1>3, <2>1, <2>3, <3>2 DEF AskedOnce, Awaited
      <4>3. ~(Target(q) < request[r].zip)
        <5>1. request[r].zip \in Runs /\ Known(request[r].zip)
          BY <1>1, <1>3 DEF BaseInv, Requested, AskedOnce, Asked
        <5> QED
          BY <1>1, <2>1, <5>1 DEF OrderInv, InOrder, Awaited
      <4> QED
        BY <1>1, <1>2, <2>1, <3>2, <4>1, <4>2, <4>3, ServiceStaged
    <3> QED
      BY <3>1, <3>2
  <2> QED
    BY <1>2, <2>1, <2>2, <2>3 DEF Awaited
<1>7. AwaitedAll'
  BY <1>2, <1>6 DEF AwaitedAll
<1> QED
  BY <1>5, <1>7

LEMMA LateInductive ==
    ASSUME Overlap = FALSE, LateInv, [Next]_vars
    PROVE  LateInv'
<1>1. BaseInv' /\ BaseInv /\ InTurn /\ Written /\ OrderInv /\ AskedOnce /\ AwaitedAll
  BY BaseInductive DEF LateInv
<1>2. ASSUME NEW r \in Runs, AgentStep(r) PROVE LateInv'
  <2>1. InTurn' /\ Written'
    BY <1>1, <1>2, AgentInTurn
  <2>2. OrderInv'
    BY <1>1, <1>2, QuietAgentOrder, PostOrder
  <2>3. AskedOnce' /\ AwaitedAll'
    BY <1>2, QuietAgentLate, PostLate
  <2> QED
    BY <1>1, <2>1, <2>2, <2>3 DEF LateInv
<1>3. ASSUME NEW r \in Runs, ServiceStep(r) PROVE LateInv'
  <2>1. UNCHANGED <<pass, todo, file, sends>>
    BY <1>1, <1>3, ServiceEffect, ServiceNames
  <2>2. InTurn' /\ Written' /\ OrderInv'
    BY <1>1, <2>1, OrderUnmoved DEF InTurn, Written
  <2> QED
    BY <1>1, <1>3, <2>2, ServiceLate DEF LateInv
<1>4. CASE SumUpStep \/ Crash \/ UNCHANGED vars
  <2>1. UNCHANGED <<pass, todo, file, request, sends, staged>>
    BY <1>4, SumUpOthers DEF Others, agentVars, vars
  <2>2. InTurn' /\ Written' /\ OrderInv'
    BY <1>1, <2>1, OrderUnmoved DEF InTurn, Written
  <2>3. AskedOnce' /\ AwaitedAll'
    BY <1>1, <2>1, LateUnmoved
  <2> QED
    BY <1>1, <2>2, <2>3 DEF LateInv
<1> QED
  BY <1>2, <1>3, <1>4 DEF Next

\* Whatever requests of earlier runs are still at work, the agent loses no
\* archive that it sent once and that has not expired.
THEOREM LateAnswersLoseOnlyResent ==
    ASSUME Overlap = FALSE
    PROVE  Spec => OnlyResentIsLost
<1>1. LateInv /\ [Next]_vars => LateInv'
  BY LateInductive
<1>2. ASSUME LateInv, [Next]_vars, NEW z \in Runs,
             file[z] \in Contents, file'[z] = "gone"
      PROVE  Delivered(z) \/ TooOld(z) \/ sends[z] > 1
  <2>1. PICK r \in Runs : z = Target(r) /\ (DropExpired(r) \/ SendSucceeds(r))
    BY <1>2, RemovedBy DEF LateInv
  <2>2. CASE DropExpired(r)
    BY <2>1, <2>2 DEF DropExpired, Expired, TooOld
  <2>3. CASE SendSucceeds(r)
    <3>1. Awaited(r) /\ request[r].ok
      BY <1>2, <2>3 DEF SendSucceeds, LateInv, AwaitedAll
    <3>2. sends[z] \in Nat /\ sends[z] > 0
      BY <1>2, <2>1, <3>1 DEF LateInv, BaseInv, TypeOK, AskedOnce, Awaited, Known
    <3>3. sends[z] = 1 => Delivered(z)
      BY <2>1, <3>1 DEF Awaited, Delivered
    <3> QED
      BY <3>2, <3>3
  <2> QED
    BY <2>1, <2>2, <2>3
<1>3. LateInv /\ [Next]_vars
      => [\A z \in Runs : file[z] \in Contents /\ file'[z] = "gone"
                          => Delivered(z) \/ TooOld(z) \/ sends[z] > 1]_vars
  BY <1>2
<1> QED
  BY InitLate, <1>1, <1>3, PTL DEF Spec, OnlyResentIsLost

=============================================================================
