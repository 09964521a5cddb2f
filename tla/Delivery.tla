------------------------------ MODULE Delivery ------------------------------
(***************************************************************************)
(* The way of one collector's archives from an agent to the aggregator:    *)
(*   agent        gpfArchiveData and gpfSendCollectorDataAll (gpf_agent.c) *)
(*                zip the output of a run and send what the archive        *)
(*                directory holds, through getperfsoap (getperfsoap.c);    *)
(*   web service  sendData (StagingData.java) stores an archive, and       *)
(*                circulate (StagingFileHandler.java) renews the list of   *)
(*                staged archives;                                         *)
(*   aggregator   sync (SumUp.pm) extracts what is listed past the name it *)
(*                has last aggregated.                                     *)
(*                                                                         *)
(* Run r writes archive r: names sort by start time, and so do numbers. An *)
(* hour is the distance of two runs. The lists of the agent and of the web *)
(* service are sets, which both sort and circulate rids of duplicates. The *)
(* aggregator drops none: it appends the list once for every path that its *)
(* watcher reports, so what it has to extract and to count are bags.       *)
(*                                                                         *)
(* A getperfsoap that fails, is killed after its thirty seconds, loses its *)
(* connection or has its exit status taken away looks the same to the      *)
(* agent, and the web service goes on with the request it has. An agent    *)
(* that is killed and started again looks like a run whose archive stays   *)
(* incomplete, if it was at that, and whose transfer fails.                *)
(***************************************************************************)
EXTENDS Integers, FiniteSetsExt

CONSTANTS
    NumRuns,     \* bound on the runs of the collector
    Recovery,    \* RECOVERY_HOUR: archives this old are dropped
    Keep,        \* GETPERF_WS_ZIP_PURGE_HOUR: staged files older are purged
    Overlap,     \* TRUE: a run may begin before the earlier ones are over
    Late,        \* TRUE: abandoned requests may still be at work at the next
    ZipFails,    \* the runs whose archive may fail
    StoreFails,  \* those whose archive may reach the web service cut off or not at all
    MaxPaths,    \* bound on the paths that the watcher reports at once
    MaxCrashes   \* bound on the crashes of the aggregator

Runs == 1..NumRuns

ASSUME DeliveryAssumption ==
    /\ {NumRuns, Recovery, Keep, MaxCrashes} \subseteq Nat
    /\ MaxPaths \in Nat \ {0}
    /\ ZipFails \subseteq Runs /\ StoreFails \subseteq Runs
    /\ {Overlap, Late} \subseteq BOOLEAN

VARIABLES
    pass,     \* pass[r]: where the run is
    todo,     \* todo[r]: the archives it has yet to send
    file,     \* file[z]: the archive in the agent's directory: being written, left
              \* incomplete, whole, or not there any more
    soap,     \* the run that holds gpfSoapAccessFlag, or 0
    request,  \* request[r]: the latest sendData request of the run
    sends,    \* sends[z]: number of requests made for an archive (history)
    staged,   \* staged[z]: the archive in the staging directory
    draft,    \* draft[r]: the list that request is about to write
    list,     \* the list of staged archives, {} while there is no such file
    tmp,      \* the list in the temporary file
    present,  \* is there a list file?
    written,  \* is there a temporary file?
    event,    \* the list file was touched since the aggregator last woke
    paths,    \* how many of the reported paths the aggregator has yet to read
    work,     \* work[z]: how often it has yet to extract an archive in this sync
    got,      \* got[z]: how often it has extracted it and not yet counted
    goal,     \* the last name of this sync, 0 if it found nothing new
    last,     \* its check point: the last archive aggregated
    agg,      \* agg[z]: how often the archive was aggregated whole (history)
    crashes   \* crashes so far (history)

agentVars == <<pass, todo, file, soap>>
listVars == <<draft, list, tmp, present, written, event>>
sumupVars == <<paths, work, got, goal, last, agg, crashes>>
vars == <<pass, todo, file, soap, request, sends, staged, draft, list, tmp, present,
          written, event, paths, work, got, goal, last, agg, crashes>>

Stages == {"none", "arrived", "open", "stored", "read", "tmp", "away", "done"}

\* A file is still being written, was left incomplete, or is whole.
Contents == {"part", "cut", "whole"}

TypeOK ==
    /\ pass \in [Runs -> {"none", "zip", "list", "next", "reserve", "await", "over"}]
    /\ todo \in [Runs -> SUBSET Runs]
    /\ file \in [Runs -> {"none", "part", "cut", "whole", "gone"}]
    /\ soap \in Runs \cup {0}
    /\ request \in [Runs -> [stage : Stages, zip : Runs \cup {0}, data : Contents,
                             ok : BOOLEAN]]
    /\ sends \in [Runs -> Nat]
    /\ staged \in [Runs -> Contents \cup {"none"}]
    /\ draft \in [Runs -> SUBSET Runs]
    /\ {list, tmp} \subseteq SUBSET Runs
    /\ {present, written, event} \subseteq BOOLEAN
    /\ paths \in 0..MaxPaths
    /\ {work, got, agg} \subseteq [Runs -> Nat]
    /\ {goal, last} \subseteq Runs \cup {0}
    /\ crashes \in 0..MaxCrashes

Idle == [stage |-> "none", zip |-> 0, data |-> "part", ok |-> FALSE]

Init ==
    /\ pass = [r \in Runs |-> "none"]
    /\ todo = [r \in Runs |-> {}]
    /\ file = [z \in Runs |-> "none"]
    /\ soap = 0
    /\ request = [r \in Runs |-> Idle]
    /\ sends = [z \in Runs |-> 0]
    /\ staged = [z \in Runs |-> "none"]
    /\ draft = [r \in Runs |-> {}]
    /\ list = {} /\ tmp = {}
    /\ present = FALSE /\ written = FALSE /\ event = FALSE
    /\ paths = 0 /\ goal = 0 /\ last = 0
    /\ work = [z \in Runs |-> 0] /\ got = [z \in Runs |-> 0]
    /\ agg = [z \in Runs |-> 0]
    /\ crashes = 0

-----------------------------------------------------------------------------
(* Agent.                                                                   *)

Go(r, p) == pass' = [pass EXCEPT ![r] = p]

\* zipDir begins to write the archive of the run, under its final name, or
\* cannot open it.
Archive(r) ==
    /\ pass[r] = "none"
    /\ ~Overlap => \A q \in Runs : q < r => pass[q] = "over"
    /\ Go(r, "zip")
    /\ \/ file' = [file EXCEPT ![r] = "part"]
       \/ r \in ZipFails /\ file' = [file EXCEPT ![r] = "gone"]
    /\ UNCHANGED <<todo, soap, request, sends, staged, listVars, sumupVars>>

\* It is through with the archive, which may be whole or not: the result is
\* logged and ignored. Another run may have removed the file meanwhile.
Archived(r) ==
    /\ pass[r] = "zip"
    /\ Go(r, "list")
    /\ \/ file' = [file EXCEPT ![r] = IF @ = "part" THEN "whole" ELSE @]
       \/ r \in ZipFails /\ file' = [file EXCEPT ![r] = IF @ = "part" THEN "cut" ELSE @]
    /\ UNCHANGED <<todo, soap, request, sends, staged, listVars, sumupVars>>

\* The archive directory is read, and the names are sorted.
ListArchives(r) ==
    /\ pass[r] = "list"
    /\ todo' = [todo EXCEPT ![r] = {z \in Runs : file[z] \in Contents}]
    /\ Go(r, "next")
    /\ UNCHANGED <<file, soap, request, sends, staged, listVars, sumupVars>>

\* Mutant: the newest comes first.
TargetNewest(r) == Max(todo[r])

Target(r) == Min(todo[r])

\* Too old to be sent, unless it is the newest of the directory.
Expired(r) == Target(r) <= r - Recovery /\ Target(r) # Max(todo[r])

\* unlink of the target; if it is not there any more the run gives up.
Unlink(r) ==
    /\ todo' = [todo EXCEPT ![r] = @ \ {Target(r)}]
    /\ file' = [file EXCEPT ![Target(r)] = "gone"]
    /\ Go(r, IF file[Target(r)] = "gone" THEN "over" ELSE "next")

DropExpired(r) ==
    /\ pass[r] = "next"
    /\ todo[r] # {}
    /\ Expired(r)
    /\ Unlink(r)
    /\ UNCHANGED <<soap, request, sends, staged, listVars, sumupVars>>

\* getperfsoap starts, one at a time, and asks for a reservation.
Reserve(r) ==
    /\ pass[r] = "next"
    /\ todo[r] # {}
    /\ ~Expired(r)
    /\ soap = 0
    /\ ~Late => \A q \in Runs : request[q].stage \in {"none", "done"}
    /\ soap' = r
    /\ Go(r, "reserve")
    /\ UNCHANGED <<todo, file, request, sends, staged, listVars, sumupVars>>

\* With the reservation it reads the archive and posts it.
Post(r) ==
    /\ pass[r] = "reserve"
    /\ file[Target(r)] # "gone"
    /\ request' = [request EXCEPT ![r] =
                     [Idle EXCEPT !.stage = "arrived", !.zip = Target(r),
                                  !.data = file[Target(r)]]]
    /\ sends' = [sends EXCEPT ![Target(r)] = @ + 1]
    /\ Go(r, "await")
    /\ UNCHANGED <<todo, file, soap, staged, listVars, sumupVars>>

\* Three refusals, a missing archive, an error, a timeout: the pass is over.
SendFails(r) ==
    /\ pass[r] \in {"reserve", "await"}
    /\ Go(r, "over")
    /\ soap' = 0
    /\ UNCHANGED <<todo, file, request, sends, staged, listVars, sumupVars>>

\* Mutant: any answer will do.
SendSucceedsUnread(r) ==
    /\ pass[r] = "await"
    /\ request[r].stage = "done"
    /\ soap' = 0
    /\ Unlink(r)
    /\ UNCHANGED <<request, sends, staged, listVars, sumupVars>>

\* Answered OK: the agent removes the archive and goes on to the next.
SendSucceeds(r) ==
    /\ pass[r] = "await"
    /\ request[r].stage = "done" /\ request[r].ok
    /\ soap' = 0
    /\ Unlink(r)
    /\ UNCHANGED <<request, sends, staged, listVars, sumupVars>>

AllSent(r) ==
    /\ pass[r] = "next"
    /\ todo[r] = {}
    /\ Go(r, "over")
    /\ UNCHANGED <<todo, file, soap, request, sends, staged, listVars, sumupVars>>

-----------------------------------------------------------------------------
(* Web service.                                                             *)

At(r, s) == request[r].stage = s
Move(r, s) == request' = [request EXCEPT ![r].stage = s]

\* extractAttachment opens the staging file, which empties it; without an
\* attachment it throws before that, and circulate runs all the same.
OpenStaging(r) ==
    /\ At(r, "arrived")
    /\ \/ /\ Move(r, "open")
          /\ staged' = [staged EXCEPT ![request[r].zip] = "part"]
       \/ /\ request[r].zip \in StoreFails
          /\ Move(r, "stored")
          /\ UNCHANGED staged
    /\ UNCHANGED <<agentVars, sends, listVars, sumupVars>>

\* The attachment is written, or breaks off.
Store(r) ==
    /\ At(r, "open")
    /\ \/ /\ request' = [request EXCEPT ![r].stage = "stored", ![r].ok = TRUE]
          /\ staged' = [staged EXCEPT ![request[r].zip] = request[r].data]
       \/ /\ request[r].zip \in StoreFails
          /\ Move(r, "stored")
          /\ UNCHANGED staged
    /\ UNCHANGED <<agentVars, sends, listVars, sumupVars>>

\* circulate: drop duplicates, sort, drop what is older than the purge hour
\* of the new archive, add the new one if it is newer than all there were.
Renew(names, z) ==
    {y \in names : y >= z - Keep} \cup {y \in {z} : \A n \in names : n < z}

\* readStagingFileLists and the purge of the files that drop out.
ReadList(r) ==
    /\ At(r, "stored")
    /\ LET z == request[r].zip
       IN  /\ draft' = [draft EXCEPT ![r] = Renew(list, z)]
           /\ staged' = [y \in Runs |-> IF y \in list /\ y < z - Keep
                                        THEN "none" ELSE staged[y]]
    /\ Move(r, "read")
    /\ UNCHANGED <<agentVars, sends, list, tmp, present, written, event, sumupVars>>

\* writeStagingFileLists: the temporary file ...
WriteTmp(r) ==
    /\ At(r, "read")
    /\ tmp' = draft[r]
    /\ draft' = [draft EXCEPT ![r] = {}]
    /\ written' = TRUE
    /\ Move(r, "tmp")
    /\ UNCHANGED <<agentVars, sends, staged, list, present, event, sumupVars>>

\* ... the old list moves to the backup ...
MoveAway(r) ==
    /\ At(r, "tmp")
    /\ list' = {}
    /\ present' = FALSE
    /\ event' = (event \/ present)
    /\ Move(r, "away")
    /\ UNCHANGED <<agentVars, sends, staged, draft, tmp, written, sumupVars>>

\* Mutant: the aggregator is not told of the new list.
MoveInSilently(r) ==
    /\ At(r, "away")
    /\ IF written /\ ~present
       THEN /\ list' = tmp
            /\ present' = TRUE
            /\ tmp' = {}
            /\ written' = FALSE
            /\ UNCHANGED event
       ELSE UNCHANGED <<list, tmp, present, written, event>>
    /\ Move(r, "done")
    /\ UNCHANGED <<agentVars, sends, staged, draft, sumupVars>>

\* ... and the temporary file becomes the list, unless another handler has
\* moved it or a list is there again. sendData answers either way.
MoveIn(r) ==
    /\ At(r, "away")
    /\ IF written /\ ~present
       THEN /\ list' = tmp
            /\ present' = TRUE
            /\ tmp' = {}
            /\ written' = FALSE
            /\ event' = TRUE
       ELSE UNCHANGED <<list, tmp, present, written, event>>
    /\ Move(r, "done")
    /\ UNCHANGED <<agentVars, sends, staged, draft, sumupVars>>

-----------------------------------------------------------------------------
(* Aggregator.                                                              *)

Others == <<agentVars, request, sends, staged, draft, list, tmp, present, written>>
None == [z \in Runs |-> 0]

\* run_as_daemon: the watcher reports the path of the list, once, or once for
\* each change, as its backend has it.
Wake ==
    /\ event /\ paths = 0 /\ goal = 0
    /\ event' = FALSE
    /\ paths' \in 1..MaxPaths
    /\ UNCHANGED <<Others, work, got, goal, last, agg, crashes>>

\* Mutant: the check point is saved before the work is done.
ReadZipsSaves ==
    LET new == {z \in list : z > last}
    IN  /\ paths > 0
        /\ paths' = paths - 1
        /\ work' = [z \in Runs |-> IF z \in new THEN work[z] + 1 ELSE work[z]]
        /\ goal' = IF new = {} THEN goal ELSE Max(new)
        /\ last' = IF new = {} THEN last ELSE Max(new)
        /\ UNCHANGED <<Others, event, got, agg, crashes>>

\* Mutant: the archive of the check point is taken again.
ReadZipsFromLast ==
    LET new == {z \in list : z >= last}
    IN  /\ paths > 0
        /\ paths' = paths - 1
        /\ work' = [z \in Runs |-> IF z \in new THEN work[z] + 1 ELSE work[z]]
        /\ goal' = IF new = {} THEN goal ELSE Max(new)
        /\ UNCHANGED <<Others, event, got, last, agg, crashes>>

\* read_zips reads the list for every path, and sync takes the names past its
\* check point, duplicates and all. The last name of the last list is to be
\* the new check point.
ReadZips ==
    LET new == {z \in list : z > last}
    IN  /\ paths > 0
        /\ paths' = paths - 1
        /\ work' = [z \in Runs |-> IF z \in new THEN work[z] + 1 ELSE work[z]]
        /\ goal' = IF new = {} THEN goal ELSE Max(new)
        /\ UNCHANGED <<Others, event, got, last, agg, crashes>>

\* unzip: the lists are gone through, here in any order. An archive that is
\* missing or incomplete does not come out whole, and nobody notices.
Extract(z) ==
    /\ paths = 0
    /\ work[z] > 0
    /\ work' = [work EXCEPT ![z] = @ - 1]
    /\ got' = [got EXCEPT ![z] = IF staged[z] = "whole" THEN @ + 1 ELSE @]
    /\ UNCHANGED <<Others, event, paths, goal, last, agg, crashes>>

\* aggrigate: when all are extracted, their files are counted, those of an
\* archive as often as it was extracted.
Aggregate(z) ==
    /\ paths = 0 /\ work = None
    /\ got[z] > 0
    /\ got' = [got EXCEPT ![z] = @ - 1]
    /\ agg' = [agg EXCEPT ![z] = @ + 1]
    /\ UNCHANGED <<Others, event, paths, work, goal, last, crashes>>

\* Mutant: the check point names the archive to come.
SaveNext ==
    /\ goal # 0
    /\ paths = 0 /\ work = None /\ got = None
    /\ last' = goal + 1
    /\ goal' = 0
    /\ UNCHANGED <<Others, event, paths, work, got, agg, crashes>>

\* save_lastzips: the check point moves to the last name of the sync.
Save ==
    /\ goal # 0
    /\ paths = 0 /\ work = None /\ got = None
    /\ last' = goal
    /\ goal' = 0
    /\ UNCHANGED <<Others, event, paths, work, got, agg, crashes>>

\* The aggregator is killed, at work or with a change to look at; a new one
\* waits for the next change of the list.
Crash ==
    /\ event \/ paths > 0 \/ goal # 0
    /\ crashes < MaxCrashes
    /\ crashes' = crashes + 1
    /\ paths' = 0 /\ work' = None /\ got' = None /\ goal' = 0
    /\ event' = FALSE
    /\ UNCHANGED <<Others, last, agg>>

-----------------------------------------------------------------------------
AgentStep(r) ==
    \/ Archive(r) \/ Archived(r) \/ ListArchives(r) \/ DropExpired(r) \/ AllSent(r)
    \/ Reserve(r) \/ Post(r) \/ SendFails(r) \/ SendSucceeds(r)

ServiceStep(r) ==
    \/ OpenStaging(r) \/ Store(r) \/ ReadList(r)
    \/ WriteTmp(r) \/ MoveAway(r) \/ MoveIn(r)

SumUpStep ==
    \/ Wake \/ ReadZips \/ Save
    \/ \E z \in Runs : Extract(z) \/ Aggregate(z)

Next ==
    \/ \E r \in Runs : AgentStep(r) \/ ServiceStep(r)
    \/ SumUpStep \/ Crash

Spec == Init /\ [][Next]_vars

\* The web service finishes what it has begun, and the aggregator daemon runs.
FairSpec ==
    /\ Spec
    /\ \A r \in Runs : WF_vars(ServiceStep(r))
    /\ WF_vars(SumUpStep)

-----------------------------------------------------------------------------
(* Properties.                                                              *)

TooOld(z) == \E r \in Runs : pass[r] # "none" /\ z <= r - Recovery

\* The staging directory holds all that the agent has of an archive.
Delivered(z) == file[z] # "part" /\ staged[z] = file[z]

\* "Transfer all unsent data": an archive leaves the agent only when the
\* staging directory holds all of it, or when it is older than RECOVERY_HOUR.
\* One that zipDir has left incomplete is sent, and removed, as it is.
UnsentArchivesStay ==
    [][\A z \in Runs : file[z] \in Contents /\ file'[z] = "gone"
                       => Delivered(z) \/ TooOld(z)]_vars

\* As long as the runs of the collector do not overlap, the check point
\* passes over a received archive only if it had to be sent more than once.
SkippedOnlyIfResent ==
    \A z \in Runs : staged[z] = "whole" /\ z <= last /\ agg[z] = 0 => sends[z] > 1

\* An archive is counted by one sync, and by another only if the first was
\* killed: within the sync once for each path that the watcher reported, for
\* nobody drops the duplicates. This hangs on the order of the archives: the
\* list may be replaced between two readings, and must not go back.
CountedByOneSync == \A z \in Runs : agg[z] <= MaxPaths * (1 + crashes)

\* "Purge older staging files, and add new one": circulate adds a name only
\* past all the listed ones, and so relies on the order in which the agent
\* sends. As long as the runs do not overlap, that order has every archive
\* listed that is stored and answered OK.
NewFileListed ==
    \A r \in Runs : request[r].stage = "done" /\ request[r].ok /\ pass[r] = "await"
                    => request[r].zip \in list

\* A listed archive does not wait for ever: the aggregator gets to it or past
\* it. One that dies leaves its work to the next change of the list.
ListedIsReached ==
    \A z \in Runs : z \in list ~> last >= z \/ crashes > 0

=============================================================================
