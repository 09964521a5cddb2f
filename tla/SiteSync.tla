------------------------------ MODULE SiteSync ------------------------------
(***************************************************************************)
(* The other way to the aggregator (Sync.pm): cron starts a sitesync every *)
(* few minutes. It takes the lock of its site, a symbolic link that names  *)
(* its process id, and in each of its turns copies the staging directory   *)
(* of the web server with rsync, extracts the archives rsync has reported, *)
(* and aggregates what it extracted.                                       *)
(*                                                                         *)
(* An archive has versions, for the agent may send it again: an odd one is *)
(* being written by the web service, an even one is whole, 0 is no file.   *)
(* Each process has an id of its own. A turn that takes too long makes the *)
(* next one be skipped; time is otherwise left out.                        *)
(***************************************************************************)
EXTENDS Integers

CONSTANTS
    Procs,      \* process ids of the sitesyncs of one site
    NoPid,      \* not a process id
    Zips,       \* archives
    Times,      \* turns of a process
    MaxSends,   \* bound on the versions of an archive
    MaxCuts,    \* bound on the rsyncs that are cut off
    MaxCrashes  \* bound on the processes that are killed

ASSUME SyncAssumption ==
    /\ NoPid \notin Procs
    /\ {Times, MaxSends, MaxCuts, MaxCrashes} \subseteq Nat

VARIABLES
    lock,      \* the process the lock file names
    pc,        \* where each process is
    found,     \* found[p]: the process p read in the lock file
    turn,      \* turn[p]: turns begun
    plan,      \* plan[p]: what the rsync of this turn is to copy
    zips,      \* zips[p]: the archives rsync reported
    files,     \* files[p]: how often each archive is in staging_files
    source,    \* version of each archive at the web server
    sent,      \* versions written so far
    mirror,    \* the version rsync has copied
    analysis,  \* the version extracted last
    done,      \* the version aggregated last (history)
    agg,       \* how often each archive was aggregated (history)
    botched,   \* a takeover hit a lock that was not the dead one's (history)
    cuts,      \* rsyncs cut off so far (history)
    crashes    \* processes killed so far (history)

lockVars == <<lock, found, botched>>
workVars == <<turn, plan, zips, files>>
webVars == <<source, sent>>
siteVars == <<mirror, analysis, done, agg, cuts>>
vars == <<lock, pc, found, turn, plan, zips, files, source, sent, mirror, analysis,
          done, agg, botched, cuts, crashes>>

Work == {"turn", "rsync", "unzip", "aggregate"}
Over == {"none", "exit", "dead"}

TypeOK ==
    /\ lock \in Procs \cup {NoPid}
    /\ pc \in [Procs -> Work \cup Over \cup {"read", "test", "link", "unlink", "relink"}]
    /\ found \in [Procs -> Procs \cup {NoPid}]
    /\ turn \in [Procs -> 0..Times]
    /\ {plan, zips} \subseteq [Procs -> SUBSET Zips]
    /\ files \in [Procs -> [Zips -> Nat]]
    /\ {source, sent, mirror, analysis, done, agg} \subseteq [Zips -> Nat]
    /\ botched \in BOOLEAN
    /\ {cuts, crashes} \subseteq Nat

Init ==
    /\ lock = NoPid /\ botched = FALSE
    /\ pc = [p \in Procs |-> "none"]
    /\ found = [p \in Procs |-> NoPid]
    /\ turn = [p \in Procs |-> 0]
    /\ plan = [p \in Procs |-> {}] /\ zips = [p \in Procs |-> {}]
    /\ files = [p \in Procs |-> [z \in Zips |-> 0]]
    /\ source = [z \in Zips |-> 0] /\ sent = [z \in Zips |-> 0]
    /\ mirror = [z \in Zips |-> 0] /\ analysis = [z \in Zips |-> 0]
    /\ done = [z \in Zips |-> 0] /\ agg = [z \in Zips |-> 0]
    /\ cuts = 0 /\ crashes = 0

Go(p, s) == pc' = [pc EXCEPT ![p] = s]
AtWork(p) == pc[p] \in Work
Running(p) == pc[p] \notin Over

-----------------------------------------------------------------------------
(* lock_process.                                                            *)

Start(p) ==
    /\ pc[p] = "none"
    /\ Go(p, "read")
    /\ UNCHANGED <<lockVars, workVars, webVars, siteVars, crashes>>

\* readlink: whose lock is it?
ReadLock(p) ==
    /\ pc[p] = "read"
    /\ found' = [found EXCEPT ![p] = lock]
    /\ Go(p, IF lock = NoPid THEN "link" ELSE "test")
    /\ UNCHANGED <<lock, botched, workVars, webVars, siteVars, crashes>>

\* No lock: the symlink takes it, unless another process has just done so.
MakeLock(p) ==
    /\ pc[p] = "link"
    /\ IF lock = NoPid
       THEN lock' = p /\ Go(p, "turn")
       ELSE UNCHANGED lock /\ Go(p, "exit")
    /\ UNCHANGED <<found, botched, workVars, webVars, siteVars, crashes>>

\* Mutant: whoever holds the lock, it is taken over.
TestOwnerNotAtAll(p) ==
    /\ pc[p] = "test"
    /\ Go(p, "unlink")
    /\ UNCHANGED <<lockVars, workVars, webVars, siteVars, crashes>>

\* /proc tells whether the owner runs; if it does, this process gives up.
TestOwner(p) ==
    /\ pc[p] = "test"
    /\ Go(p, IF Running(found[p]) THEN "exit" ELSE "unlink")
    /\ UNCHANGED <<lockVars, workVars, webVars, siteVars, crashes>>

\* It does not: the lock is removed, whoever's it is by now ...
RemoveStaleLock(p) ==
    /\ pc[p] = "unlink"
    /\ lock' = NoPid
    /\ botched' = (botched \/ lock \notin {NoPid, found[p]})
    /\ Go(p, "relink")
    /\ UNCHANGED <<found, workVars, webVars, siteVars, crashes>>

\* ... and made anew, and nobody looks whether that succeeds.
RemakeLock(p) ==
    /\ pc[p] = "relink"
    /\ lock' = IF lock = NoPid THEN p ELSE lock
    /\ botched' = (botched \/ lock # NoPid)
    /\ Go(p, "turn")
    /\ UNCHANGED <<found, workVars, webVars, siteVars, crashes>>

-----------------------------------------------------------------------------
(* The turns of run.                                                        *)

\* Mutant: one turn too many.
StartTurnTooOften(p) ==
    /\ pc[p] = "turn"
    /\ turn[p] <= Times
    /\ turn' = [turn EXCEPT ![p] = @ + 1]
    /\ plan' = [plan EXCEPT ![p] = {z \in Zips : source[z] \notin {0, mirror[z]}}]
    /\ Go(p, "rsync")
    /\ UNCHANGED <<lockVars, zips, files, webVars, siteVars, crashes>>

\* rsync compares the directories: what is new or has changed is to be copied.
StartTurn(p) ==
    /\ pc[p] = "turn"
    /\ turn[p] < Times
    /\ turn' = [turn EXCEPT ![p] = @ + 1]
    /\ plan' = [plan EXCEPT ![p] = {z \in Zips : source[z] \notin {0, mirror[z]}}]
    /\ Go(p, "rsync")
    /\ UNCHANGED <<lockVars, zips, files, webVars, siteVars, crashes>>

\* The turns before have taken too long.
SkipTurn(p) ==
    /\ pc[p] = "turn"
    /\ turn[p] \in 1..(Times - 1)
    /\ turn' = [turn EXCEPT ![p] = @ + 1]
    /\ UNCHANGED <<lockVars, pc, plan, zips, files, webVars, siteVars, crashes>>

\* rsync ends: it has copied the archives of the set copied, has named those
\* of the set named, and has deleted what the web server has not any more.
RsyncEnds(p, copied, named) ==
    /\ pc[p] = "rsync"
    /\ mirror' = [z \in Zips |-> IF z \in copied THEN source[z]
                                 ELSE IF source[z] = 0 THEN 0 ELSE mirror[z]]
    /\ zips' = [zips EXCEPT ![p] = @ \cup named]
    /\ Go(p, "unzip")
    /\ UNCHANGED <<lockVars, turn, plan, files, webVars, analysis, done, agg, crashes>>

StillThere(p) == {z \in plan[p] : source[z] # 0}

Rsync(p) ==
    /\ RsyncEnds(p, StillThere(p), StillThere(p))
    /\ UNCHANGED cuts

\* timeout kills it, or the connection is lost: it has named what it copied,
\* and perhaps one more. The status is not looked at.
RsyncCutOff(p) ==
    /\ cuts < MaxCuts
    /\ cuts' = cuts + 1
    /\ \E copied \in SUBSET StillThere(p), at \in SUBSET StillThere(p) :
          /\ \A y, z \in at : y = z
          /\ RsyncEnds(p, copied, copied \cup at)

\* Mutant: only archives that were not extracted before.
UnzipNewOnly(p) ==
    LET whole == {z \in zips[p] : mirror[z] # 0 /\ mirror[z] % 2 = 0 /\ analysis[z] = 0}
    IN  /\ pc[p] = "unzip"
        /\ files' = [files EXCEPT ![p] = [z \in Zips |->
                        IF z \in whole THEN @[z] + 1 ELSE @[z]]]
        /\ analysis' = [z \in Zips |-> IF z \in whole THEN mirror[z] ELSE analysis[z]]
        /\ Go(p, "aggregate")
        /\ UNCHANGED <<lockVars, turn, plan, zips, webVars, mirror, done, agg, cuts, crashes>>

\* unzip: what is missing or not whole yields no file. Left out: the directory
\* of an agent that cannot be made, at which unzip gives up all that follows.
Unzip(p) ==
    LET whole == {z \in zips[p] : mirror[z] # 0 /\ mirror[z] % 2 = 0}
    IN  /\ pc[p] = "unzip"
        /\ files' = [files EXCEPT ![p] = [z \in Zips |->
                        IF z \in whole THEN @[z] + 1 ELSE @[z]]]
        /\ analysis' = [z \in Zips |-> IF z \in whole THEN mirror[z] ELSE analysis[z]]
        /\ Go(p, "aggregate")
        /\ UNCHANGED <<lockVars, turn, plan, zips, webVars, mirror, done, agg, cuts, crashes>>

\* Mutant: the list of archives is not reset.
AggregateKeepsZips(p) ==
    /\ pc[p] = "aggregate"
    /\ agg' = [z \in Zips |-> agg[z] + files[p][z]]
    /\ done' = [z \in Zips |-> IF files[p][z] > 0 THEN analysis[z] ELSE done[z]]
    /\ Go(p, "turn")
    /\ UNCHANGED <<lockVars, turn, plan, zips, files, webVars, mirror, analysis, cuts, crashes>>

\* aggrigate goes through staging_files, which keeps the files of the turns
\* before; the list of archives starts afresh.
Aggregate(p) ==
    /\ pc[p] = "aggregate"
    /\ agg' = [z \in Zips |-> agg[z] + files[p][z]]
    /\ done' = [z \in Zips |-> IF files[p][z] > 0 THEN analysis[z] ELSE done[z]]
    /\ zips' = [zips EXCEPT ![p] = {}]
    /\ Go(p, "turn")
    /\ UNCHANGED <<lockVars, turn, plan, files, webVars, mirror, analysis, cuts, crashes>>

\* After its turns the process unlinks the lock file, whoever's it is.
Unlock(p) ==
    /\ pc[p] = "turn"
    /\ turn[p] = Times
    /\ lock' = NoPid
    /\ Go(p, "exit")
    /\ UNCHANGED <<found, botched, workVars, webVars, siteVars, crashes>>

\* A process is killed, or dies in a loader.
Crash(p) ==
    /\ Running(p)
    /\ crashes < MaxCrashes
    /\ crashes' = crashes + 1
    /\ Go(p, "dead")
    /\ UNCHANGED <<lockVars, workVars, webVars, siteVars>>

-----------------------------------------------------------------------------
(* The web service writes the staging directory and purges it.              *)

BeginStore(z) ==
    /\ sent[z] < MaxSends
    /\ sent' = [sent EXCEPT ![z] = @ + 1]
    /\ source' = [source EXCEPT ![z] = 2 * sent[z] + 1]
    /\ UNCHANGED <<lockVars, pc, workVars, siteVars, crashes>>

EndStore(z) ==
    /\ source[z] % 2 = 1
    /\ source' = [source EXCEPT ![z] = @ + 1]
    /\ UNCHANGED <<lockVars, pc, workVars, sent, siteVars, crashes>>

PurgeStaged(z) ==
    /\ source[z] # 0
    /\ source' = [source EXCEPT ![z] = 0]
    /\ UNCHANGED <<lockVars, pc, workVars, sent, siteVars, crashes>>

-----------------------------------------------------------------------------
LockStep(p) ==
    \/ Start(p) \/ ReadLock(p) \/ MakeLock(p)
    \/ TestOwner(p) \/ RemoveStaleLock(p) \/ RemakeLock(p)

TurnStep(p) ==
    \/ StartTurn(p) \/ SkipTurn(p) \/ Rsync(p) \/ RsyncCutOff(p)
    \/ Unzip(p) \/ Aggregate(p) \/ Unlock(p)

Next ==
    \/ \E p \in Procs : LockStep(p) \/ TurnStep(p) \/ Crash(p)
    \/ \E z \in Zips : BeginStore(z) \/ EndStore(z) \/ PurgeStaged(z)

Spec == Init /\ [][Next]_vars

-----------------------------------------------------------------------------
(* Properties.                                                              *)

\* "Another Process Running": two sitesyncs of a site are at work at once only
\* after a takeover of a dead process's lock has removed a live one's instead,
\* or has not noticed that its symlink was refused.
OneAtWork == ~botched => \A p, q \in Procs : AtWork(p) /\ AtWork(q) => p = q

\* A version of archive z is on its way through a process.
OnItsWay(z) ==
    \E p \in Procs : \/ pc[p] = "unzip" /\ z \in zips[p]
                     \/ pc[p] = "aggregate" /\ files[p][z] > 0

\* rsync does not report an archive twice: what it has copied whole must be
\* aggregated, or be on its way, whatever else was cut off, rewritten or purged
\* meanwhile and however many processes are at work, unless one was killed.
CopiedIsAggregated ==
    \A z \in Zips : mirror[z] # 0 /\ mirror[z] % 2 = 0
        => done[z] = mirror[z] \/ OnItsWay(z) \/ crashes > 0

\* A version is aggregated once in every turn of the process that fetched it,
\* for its files are not forgotten; an rsync that is cut off may have the
\* version before it aggregated once more.
AggregatedOncePerTurn ==
    ~botched => \A z \in Zips : agg[z] <= (sent[z] + cuts) * Times
=============================================================================
