--------------------------- MODULE CentralResource ---------------------------
(***************************************************************************)
(* A lock that the harnesses of a site share (exec/xenrt/resources.py): a  *)
(* directory that exists while the lock is held, with the files id,        *)
(* timestamp and jobid in it.  Every harness has a thread that refreshes   *)
(* the timestamps of its locks once a minute; a waiter with a timeout      *)
(* removes a directory whose timestamp is too old, and gives up when it    *)
(* has waited as long itself; cron runs a cleaner (exec/main.py            *)
(* --cleanup-locks) that removes the locks of finished jobs.               *)
(*                                                                         *)
(* One lock name.  Time is a number of mark rounds: each file has an age,  *)
(* which stops at MaxAge, where every test of it has been decided.         *)
(***************************************************************************)
EXTENDS Naturals

CONSTANTS Procs,       \* harness processes, each with a job of its own
          Cleaners,    \* runs of the cleaner that may overlap
          Timeout,     \* age at which a waiter breaks the lock, and time for which
                       \* it waits (CentralLock, by default 60); 0 for the locks
                       \* that have none (the resource pools)
          ByName,      \* whether the cleaner knows the lock from its configuration
          CleanAge,    \* age from which the cleaner looks at a lock
          MaxUses,     \* locks one process takes, one after the other
          MaxCrashes,  \* processes that are killed
          NoProc

ASSUME LockAssumption == /\ NoProc \notin Procs
                         /\ ByName \in BOOLEAN
                         /\ Timeout \in Nat \ {1} /\ CleanAge \in Nat
                         /\ MaxUses \in Nat /\ MaxCrashes \in Nat

VARIABLES maker,     \* who made the lock directory; NoProc: there is none
          files,     \* the files in it
          job,       \* what the file jobid says
          stamp,     \* whether the file timestamp, if there is one, says anything
          age,       \* of what the file timestamp says
          open,      \* who has that file open for writing
          pc,        \* where each process is
          locked,    \* processes whose lockfile attribute is set
          resHeld,   \* processes whose resourceHeld attribute is set
          marker,    \* where the mark thread of each process is
          marked,    \* processes whose mark thread had its round this minute
          exiting,   \* processes running their shutdown callbacks
          done,      \* processes whose job is marked done
          lent,      \* processes that kept their set-up for a person
          cpc,       \* where each cleaner is
          cold,      \* cleaners that found the lock old
          cjob,      \* the job each of them read
          rested,    \* waiters and cleaners that sleep until the next minute
          uses,      \* locks each process has taken or failed to take
          waited,    \* for how long each process has been looking for this one
          crashes

dirVars  == <<maker, files, job, stamp, age, open>>
procVars == <<pc, locked, resHeld, exiting, uses, waited>>
markVars == <<marker, marked>>
jobVars  == <<done, lent, crashes>>
sweepVars == <<cpc, cold, cjob, rested>>
vars     == <<dirVars, procVars, markVars, jobVars, sweepVars>>

Timed  == Timeout > 0
MaxAge == (IF Timeout > CleanAge THEN Timeout ELSE CleanAge) + 1

\* release() and the cleaner unlink the files in this order, then the directory.
Files == {"jobid", "id", "timestamp"}
After(f) == CASE f = "jobid" -> "id" [] f = "id" -> "timestamp" [] f = "timestamp" -> "rmdir"
Releasing == Files \cup {"rmdir"}

Labels == {"idle", "look", "rmtree", "mkdir", "write id", "write timestamp", "write jobid",
           "held", "unregister", "stuck", "over", "kept", "killed"} \cup Releasing

DirTypeOK ==
  /\ maker \in Procs \cup {NoProc} /\ files \subseteq Files
  /\ job \in Procs \cup {NoProc} /\ stamp \in {"empty", "time"}
  /\ age \in 0..MaxAge /\ open \subseteq Procs

TypeOK ==
  /\ DirTypeOK
  /\ pc \in [Procs -> Labels]
  /\ locked \subseteq Procs /\ resHeld \subseteq Procs /\ exiting \subseteq Procs
  /\ marker \in [Procs -> {"sleep", "open", "write", "dead", "gone"}] /\ marked \subseteq Procs
  /\ done \subseteq Procs /\ lent \subseteq Procs
  /\ cpc \in [Cleaners -> {"off", "timestamp?", "jobid?", "judge"} \cup Releasing]
  /\ cold \subseteq Cleaners /\ cjob \in [Cleaners -> Procs \cup {NoProc}]
  /\ rested \subseteq Procs \cup Cleaners
  /\ uses \in [Procs -> 0..MaxUses] /\ waited \in [Procs -> 0..(Timeout + 1)]
  /\ crashes \in 0..MaxCrashes

Init ==
  /\ maker = NoProc /\ files = {} /\ job = NoProc
  /\ stamp = "empty" /\ age = 0 /\ open = {}
  /\ pc = [p \in Procs |-> "idle"]
  /\ locked = {} /\ resHeld = IF Timed THEN Procs ELSE {}
  /\ marker = [p \in Procs |-> "sleep"] /\ marked = {}
  /\ exiting = {} /\ done = {} /\ lent = {}
  /\ cpc = [c \in Cleaners |-> "off"] /\ cold = {}
  /\ cjob = [c \in Cleaners |-> NoProc] /\ rested = {}
  /\ uses = [p \in Procs |-> 0] /\ waited = [p \in Procs |-> 0] /\ crashes = 0

\* What is done to the directory.
Exists == maker # NoProc

NewDir(p) == /\ maker' = p /\ files' = {} /\ job' = NoProc
             /\ stamp' = "empty" /\ age' = 0 /\ open' = {}

Unlink(f) ==
  /\ files' = files \ {f}
  /\ job' = IF f = "jobid" THEN NoProc ELSE job
  /\ IF f = "timestamp" THEN stamp' = "empty" /\ age' = 0 /\ open' = {}
                        ELSE UNCHANGED <<stamp, age, open>>
  /\ UNCHANGED maker

\* rmdir fails on a directory that is gone or not empty.
Removable == Exists /\ files = {}

Goto(p, label) == pc' = [pc EXCEPT ![p] = label]
Alive(p)   == pc[p] # "killed" /\ p \notin done

-----------------------------------------------------------------------------
\* acquire(): mkdir, or a look at a lock somebody else has.  A waiter without
\* a timeout just tries again later.
LookNoMore(p) == waited' = [waited EXCEPT ![p] = 0]

Made(p) == /\ NewDir(p)
           /\ locked' = locked \cup {p}
           /\ LookNoMore(p)
           /\ Goto(p, "write id")

VacantAnyway == TRUE
Vacant == ~Exists

Mkdir(p) ==
  /\ pc[p] = "idle" /\ uses[p] < MaxUses /\ p \notin rested
  /\ \/ Vacant /\ Made(p)
     \/ ~Vacant /\ Timed /\ Goto(p, "look") /\ UNCHANGED <<dirVars, locked, waited>>
  /\ UNCHANGED <<resHeld, exiting, uses, markVars, jobVars, sweepVars>>

\* The object is dropped and another one made for the next lock.
NextUse(p) ==
  /\ Goto(p, "idle")
  /\ uses' = [uses EXCEPT ![p] = @ + 1]
  /\ LookNoMore(p)
  /\ resHeld' = IF Timed THEN resHeld \cup {p} ELSE resHeld \ {p}

\* A refused waiter sleeps and tries again, until it has waited too long: then
\* acquire() raises.  (Ages and waits are counted in whole minutes: what is as old
\* as the timeout may be older by less than a minute.)
NeverGiveUp(p) ==
  /\ Goto(p, "idle") /\ rested' = rested \cup {p} /\ UNCHANGED <<resHeld, uses, waited>>
Refused(p) ==
  \/ /\ waited[p] <= Timeout
     /\ Goto(p, "idle") /\ rested' = rested \cup {p} /\ UNCHANGED <<resHeld, uses, waited>>
  \/ waited[p] >= Timeout /\ NextUse(p) /\ UNCHANGED rested

\* _listProcess() and the test of the age.  A timestamp that is not there, or
\* not written yet, is no number: the exception is none that acquire() waits on.
Readable == "timestamp" \in files /\ stamp = "time"

StaleEarly == age >= Timeout - 1
MayBeStale == age >= Timeout
Stale      == age > Timeout

Look(p) ==
  /\ pc[p] = "look"
  /\ \/ /\ Readable /\ MayBeStale
        /\ Goto(p, "rmtree")
        /\ UNCHANGED <<resHeld, uses, waited, rested>>
     \/ Readable /\ ~Stale /\ Refused(p)
     \/ ~Readable /\ NextUse(p) /\ UNCHANGED rested
  /\ UNCHANGED <<dirVars, locked, exiting, markVars, jobVars, cpc, cold, cjob>>

\* rmtree of whatever is there now, then mkdir again.
RmtreeEmptyOnly(p) ==
  /\ pc[p] = "rmtree"
  /\ \/ Removable /\ NewDir(NoProc) /\ Goto(p, "mkdir") /\ UNCHANGED <<resHeld, uses, waited>>
     \/ ~Removable /\ NextUse(p) /\ UNCHANGED dirVars
  /\ UNCHANGED <<locked, exiting, markVars, jobVars, sweepVars>>
Rmtree(p) ==
  /\ pc[p] = "rmtree"
  /\ \/ Exists /\ NewDir(NoProc) /\ Goto(p, "mkdir") /\ UNCHANGED <<resHeld, uses, waited>>
     \/ ~Exists /\ NextUse(p) /\ UNCHANGED dirVars
  /\ UNCHANGED <<locked, exiting, markVars, jobVars, sweepVars>>

MkdirAgain(p) ==
  /\ pc[p] = "mkdir"
  /\ \/ ~Exists /\ Made(p) /\ UNCHANGED <<resHeld, uses, rested>>
     \/ Exists /\ Refused(p) /\ UNCHANGED <<dirVars, locked>>
  /\ UNCHANGED <<exiting, markVars, jobVars, cpc, cold, cjob>>

\* The three files, by path: a write into a directory that is gone is ignored.
Put(f) == files' = IF Exists THEN files \cup {f} ELSE files

WriteId(p) ==
  /\ pc[p] = "write id" /\ Goto(p, "write timestamp")
  /\ Put("id")
  /\ UNCHANGED <<maker, job, stamp, age, open>>
  /\ UNCHANGED <<locked, resHeld, exiting, uses, waited, markVars, jobVars, sweepVars>>

WriteTimestamp(p) ==
  /\ pc[p] = "write timestamp" /\ Goto(p, "write jobid")
  /\ Put("timestamp") /\ stamp' = "time" /\ age' = 0
  /\ UNCHANGED <<maker, job, open>>
  /\ UNCHANGED <<locked, resHeld, exiting, uses, waited, markVars, jobVars, sweepVars>>

WriteJobid(p) ==
  /\ pc[p] = "write jobid" /\ Goto(p, "held")
  /\ Put("jobid") /\ job' = IF Exists THEN p ELSE job
  /\ resHeld' = resHeld \cup {p}
  /\ UNCHANGED <<maker, stamp, age, open>>
  /\ UNCHANGED <<locked, exiting, uses, waited, markVars, jobVars, sweepVars>>

-----------------------------------------------------------------------------
\* The mark thread takes the callback lock for its round, which it gives back
\* when the round is over or fails.  Nothing catches its exceptions ("dead").
\* A round that finds no lock to refresh does nothing and is no step.
InRound(p) == marker[p] \in {"open", "write"}
Due(p)     == /\ Alive(p) /\ marker[p] = "sleep" /\ p \notin marked
              /\ p \in locked \cap resHeld
CallbacksUnlocked(p) == FALSE
Callbacks(p) == p \in exiting /\ pc[p] \notin {"over", "kept"}

MarkBegin(p) ==
  /\ Due(p) /\ ~Callbacks(p)
  /\ marker' = [marker EXCEPT ![p] = "open"]
  /\ UNCHANGED <<dirVars, marked, procVars, jobVars, sweepVars>>

\* Opening for writing makes the file, or empties it.
MarkOpen(p) ==
  /\ Alive(p) /\ marker[p] = "open"
  /\ \/ /\ Exists
        /\ files' = files \cup {"timestamp"} /\ stamp' = "empty" /\ age' = 0
        /\ open' = open \cup {p}
        /\ marker' = [marker EXCEPT ![p] = "write"]
        /\ UNCHANGED <<maker, job>>
     \/ ~Exists /\ marker' = [marker EXCEPT ![p] = "dead"] /\ UNCHANGED dirVars
  /\ UNCHANGED <<marked, procVars, jobVars, sweepVars>>

\* The write reaches the file that was opened, which may be gone.
MarkWrite(p) ==
  /\ Alive(p) /\ marker[p] = "write"
  /\ IF p \in open THEN stamp' = "time" /\ age' = 0 /\ open' = open \ {p}
                   ELSE UNCHANGED <<stamp, age, open>>
  /\ marker' = [marker EXCEPT ![p] = "sleep"]
  /\ marked' = marked \cup {p}
  /\ UNCHANGED <<maker, files, job, procVars, jobVars, sweepVars>>

-----------------------------------------------------------------------------
\* A test has its lock for longer than the mark round of another process takes,
\* which may have begun while that process held the lock before.
Settled(p) == \A q \in Procs \ {p} : ~InRound(q)

\* release(): when the test is done with the lock.
Release(p) ==
  /\ pc[p] = "held" /\ p \in locked \cap resHeld /\ Settled(p)
  /\ Goto(p, "jobid")
  /\ UNCHANGED <<dirVars, locked, resHeld, exiting, uses, waited, markVars, jobVars, sweepVars>>

ReleaseUnlink(p) ==
  /\ pc[p] \in Files
  /\ Unlink(pc[p])
  /\ Goto(p, After(pc[p]))
  /\ UNCHANGED <<locked, resHeld, exiting, uses, waited, markVars, jobVars, sweepVars>>

\* A failing rmdir leaves the object as if it still held the lock.  While the
\* shutdown callbacks run, the exception is printed and unregistering skipped.
ReleaseRmdir(p) ==
  /\ pc[p] = "rmdir"
  /\ \/ /\ Removable /\ NewDir(NoProc)
        /\ locked' = locked \ {p} /\ resHeld' = resHeld \ {p}
        /\ Goto(p, IF p \in exiting THEN "over" ELSE "unregister")
     \/ /\ ~Removable
        /\ Goto(p, IF p \in exiting THEN "over" ELSE "stuck")
        /\ UNCHANGED <<dirVars, locked, resHeld>>
  /\ UNCHANGED <<exiting, uses, waited, markVars, jobVars, sweepVars>>

\* unregisterCallback() waits for a mark round in progress.
Unregister(p) ==
  /\ pc[p] = "unregister" /\ ~InRound(p)
  /\ NextUse(p)
  /\ UNCHANGED <<dirVars, locked, exiting, markVars, jobVars, sweepVars>>

\* The end of a run: runCallbacks() releases what the process still has, and
\* the job is completed after that.  Classes whose release() looks at keepSetup()
\* keep the lock for the person who has the machines.
Exit(p) ==
  /\ pc[p] \in {"idle", "held", "stuck"} /\ ~InRound(p) /\ Settled(p)
  /\ exiting' = exiting \cup {p}
  /\ Goto(p, IF p \in locked \cap resHeld THEN "jobid" ELSE "over")
  /\ LookNoMore(p)
  /\ UNCHANGED <<dirVars, locked, resHeld, uses, markVars, jobVars, sweepVars>>

ExitKeeping(p) ==
  /\ pc[p] = "held" /\ ~Timed /\ ~InRound(p) /\ Settled(p)
  /\ exiting' = exiting \cup {p}
  /\ lent' = lent \cup {p}
  /\ Goto(p, "kept")
  /\ UNCHANGED <<dirVars, locked, resHeld, uses, waited, markVars, done, crashes, sweepVars>>

Return(p) ==
  /\ p \in lent
  /\ lent' = lent \ {p}
  /\ UNCHANGED <<dirVars, procVars, markVars, done, crashes, sweepVars>>

\* The mark thread goes with its process.
EndMarking(p) == marker' = [marker EXCEPT ![p] = IF @ = "dead" THEN @ ELSE "gone"]

Crash(p) ==
  /\ pc[p] \notin {"over", "kept", "killed"} /\ crashes < MaxCrashes
  /\ Goto(p, "killed")
  /\ EndMarking(p)
  /\ crashes' = crashes + 1
  /\ LookNoMore(p)
  /\ UNCHANGED <<dirVars, locked, resHeld, exiting, uses, marked, done, lent, sweepVars>>

\* main.py completes the job; that of a killed harness is completed by the
\* site controller once somebody removes it.
JobDone(p) ==
  /\ pc[p] \in {"over", "kept", "killed"} /\ p \notin done
  /\ done' = done \cup {p}
  /\ EndMarking(p)
  /\ UNCHANGED <<dirVars, procVars, marked, lent, crashes, sweepVars>>

-----------------------------------------------------------------------------
\* The cleaner lists the lock file by file.  Of the directories whose names it
\* does not know, one whose id cannot be read is not listed at all.
Listable == IF ByName THEN Exists ELSE "id" \in files

SweepList(c) ==
  /\ cpc[c] = "off" /\ Listable /\ c \notin rested
  /\ cpc' = [cpc EXCEPT ![c] = "timestamp?"]
  /\ UNCHANGED <<cold, cjob, rested, dirVars, procVars, markVars, jobVars>>

\* No timestamp counts as time zero.  (A run of the cleaner takes less than the
\* minute in which an age grows.)
OldIfStamped == Readable /\ age > CleanAge
OldEnough == Readable => age > CleanAge

SweepTimestamp(c) ==
  /\ cpc[c] = "timestamp?"
  /\ cpc' = [cpc EXCEPT ![c] = "jobid?"]
  /\ cold' = IF OldEnough THEN cold \cup {c} ELSE cold \ {c}
  /\ UNCHANGED <<cjob, rested, dirVars, procVars, markVars, jobVars>>

SweepJobid(c) ==
  /\ cpc[c] = "jobid?"
  /\ cpc' = [cpc EXCEPT ![c] = "judge"]
  /\ cjob' = [cjob EXCEPT ![c] = job]
  /\ UNCHANGED <<cold, rested, dirVars, procVars, markVars, jobVars>>

\* canCleanJobResources(): the job is done and nobody has its machines, which
\* then stays so.  A lock without a job is taken for that of a manual run.
CanClean(j) == j = NoProc \/ (j \in done /\ j \notin lent)

SweepJudge(c) ==
  /\ cpc[c] = "judge"
  /\ cpc' = [cpc EXCEPT ![c] = IF c \in cold /\ CanClean(cjob[c]) THEN "jobid" ELSE "off"]
  /\ cold' = cold \ {c}
  /\ cjob' = [cjob EXCEPT ![c] = NoProc]
  /\ rested' = rested \cup {c}
  /\ UNCHANGED <<dirVars, procVars, markVars, jobVars>>

SweepUnlink(c) ==
  /\ cpc[c] \in Files
  /\ Unlink(cpc[c])
  /\ cpc' = [cpc EXCEPT ![c] = After(cpc[c])]
  /\ UNCHANGED <<cold, cjob, rested, procVars, markVars, jobVars>>

SweepRmdir(c) ==
  /\ cpc[c] = "rmdir"
  /\ \/ Removable /\ NewDir(NoProc)
     \/ ~Removable /\ UNCHANGED dirVars
  /\ cpc' = [cpc EXCEPT ![c] = "off"]
  /\ UNCHANGED <<cold, cjob, rested, procVars, markVars, jobVars>>

-----------------------------------------------------------------------------
\* A waiter that has waited longer than this gives up or gets the lock.
Longer(n) == IF n <= Timeout THEN n + 1 ELSE n

\* Between two looks.
Asleep(p) == pc[p] = "idle" /\ p \in rested

\* A minute passes: every mark thread that can has had its round, every waiter
\* has looked, and nobody has spent it between two file operations.
Prompt(p) == /\ pc[p] \in {"idle", "held", "stuck", "over", "kept", "killed"} /\ ~InRound(p)
             /\ waited[p] > 0 => p \in rested

OlderUnbounded(a) == IF Readable THEN a + 1 ELSE a
Older(a) == IF Readable /\ a < MaxAge THEN a + 1 ELSE a

Tick ==
  /\ \A p \in Procs : Prompt(p) /\ ~Due(p)
  /\ \A c \in Cleaners : cpc[c] = "off"
  /\ age' = Older(age)
  /\ waited' = [p \in Procs |-> IF Asleep(p) THEN Longer(waited[p]) ELSE waited[p]]
  /\ marked' = {} /\ rested' = {}
  /\ UNCHANGED <<maker, files, job, stamp, open, pc, locked, resHeld, exiting, uses, marker,
                 jobVars, cpc, cold, cjob>>

\* One step of what a process does by itself once begun.
Go(p) == \/ Look(p) \/ Rmtree(p) \/ MkdirAgain(p)
         \/ WriteId(p) \/ WriteTimestamp(p) \/ WriteJobid(p)
         \/ ReleaseUnlink(p) \/ ReleaseRmdir(p) \/ Unregister(p)
Mark(p) == MarkBegin(p) \/ MarkOpen(p) \/ MarkWrite(p)
Sweep(c) == \/ SweepList(c) \/ SweepTimestamp(c) \/ SweepJobid(c) \/ SweepJudge(c)
            \/ SweepUnlink(c) \/ SweepRmdir(c)

Next ==
  \/ \E p \in Procs : \/ Mkdir(p) \/ Go(p) \/ Mark(p) \/ Release(p)
                      \/ Exit(p) \/ ExitKeeping(p) \/ Return(p) \/ Crash(p) \/ JobDone(p)
  \/ \E c \in Cleaners : Sweep(c)
  \/ Tick

Spec == Init /\ [][Next]_vars

(***************************************************************************)
(* Fairness.  File operations that were begun end, a waiter tries again,   *)
(* mark threads have their rounds, cron runs the cleaner, the job of a     *)
(* process that is over or killed is completed in the end, and time goes   *)
(* on.  Nobody has to release, exit or give machines back.                 *)
(***************************************************************************)
Fairness ==
  /\ \A p \in Procs : /\ WF_vars(Mkdir(p)) /\ WF_vars(Go(p))
                      /\ WF_vars(Mark(p)) /\ WF_vars(JobDone(p))
  /\ \A c \in Cleaners : WF_vars(Sweep(c))
  /\ WF_vars(Tick)

FairSpec == Spec /\ Fairness

-----------------------------------------------------------------------------
\* Who relies on having the lock: a test that acquired it, or the person who
\* was left with the set-up of a finished run.
Keeps(p) == pc[p] = "held" \/ p \in lent

(***************************************************************************)
(* One holder at a time, and the directory says who: it was made by the    *)
(* holder and has the three files, the holder's job among them, without    *)
(* which nobody could tell later whether the lock may be removed.  (The    *)
(* timestamp may be empty while the mark thread rewrites it.)              *)
(***************************************************************************)
HolderOnDisk ==
  \A p \in Procs : Keeps(p) =>
    /\ maker = p /\ files = Files /\ job = p
    /\ \A q \in Procs : Keeps(q) => q = p

(***************************************************************************)
(* A process that ended by itself leaves no lock behind, also when an      *)
(* earlier release() failed because the mark thread put the timestamp      *)
(* back between unlink and rmdir: the callbacks at the end release again,  *)
(* and keep the mark thread out while they do.                             *)
(***************************************************************************)
ExitLeavesNothing ==
  \A p \in Procs : pc[p] = "over" => maker # p

(***************************************************************************)
(* Waiters with a timeout break a lock only when something went wrong: as  *)
(* long as no process was killed and no mark thread was ended by an        *)
(* exception, every holder's timestamp is young enough for all of them,    *)
(* whatever mark threads, releases and other holders do to it meanwhile.   *)
(***************************************************************************)
Faultless == crashes = 0 /\ \A p \in Procs : marker[p] # "dead"
UnbrokenWhileMarked == Faultless => HolderOnDisk /\ ExitLeavesNothing

(***************************************************************************)
(* --cleanup-locks removes "any left over locks from killed/crashed jobs"  *)
(* (main.py:158): never the lock of a process that goes on.                *)
(***************************************************************************)
RemovesLeftOversOnly ==
  [][\A c \in Cleaners, p \in Procs :
       SweepRmdir(c) /\ maker = p /\ maker' = NoProc => pc[p] \in {"over", "kept", "killed"}]_vars

(***************************************************************************)
(* A lock nobody relies on any more is removed in the end: its maker was   *)
(* killed, or kept it and needs it no more, and no other process believes  *)
(* the lock to be its own (one that does keeps the timestamp young).  A    *)
(* lock the cleaner does not know by name must have an id.  It takes the   *)
(* cleaner and the end of the job, or a waiter with a timeout.             *)
(***************************************************************************)
Orphaned(p) == /\ maker = p
               /\ pc[p] \in {"over", "kept", "killed"} /\ p \notin lent
               /\ \A q \in Procs : q # p /\ q \in locked => ~Alive(q)
LeftOver(p) == Orphaned(p) /\ Listable /\ job \in {p, NoProc}
LeftOverReclaimed == \A p \in Procs : LeftOver(p) ~> ~LeftOver(p)

(***************************************************************************)
(* Waiters with a timeout need neither a cleaner nor the end of the job:   *)
(* a lock that nobody refreshes is broken by anyone who began to look      *)
(* after its last mark.  (Whoever began before that has waited for the     *)
(* same timeout by the time the mark is too old, and gives up.)            *)
(***************************************************************************)
Waiting(q) == pc[q] \in {"idle", "look", "rmtree", "mkdir"} /\ uses[q] < MaxUses
Silent(p)  == Orphaned(p) /\ Readable
StaleLockBroken ==
  \A p, q \in Procs :
    Silent(p) /\ Waiting(q) /\ waited[q] < age ~> ~Silent(p) \/ q \in exiting \/ pc[q] = "killed"

(***************************************************************************)
(* Nobody looks for a lock for ever, however often it changes hands.       *)
(***************************************************************************)
Looking(q) == pc[q] \in {"look", "rmtree", "mkdir"} \/ waited[q] > 0 \/ Asleep(q)
LookingEnds == \A q \in Procs : Looking(q) ~> ~Looking(q)
=============================================================================
