------------------------------ MODULE FleetInv ------------------------------
(***************************************************************************)
(* The inductive invariant of Fleet: what each program may count on at     *)
(* each of its steps, although it read the tables several steps ago.       *)
(*                                                                         *)
(* A machine that is not idle is touched by one process only, the run of   *)
(* the controller of its site that holds the pid file; an idle machine and *)
(* a new job only by the scheduler run that holds the table lock.          *)
(***************************************************************************)
EXTENDS Fleet

\* The constants' side conditions the proofs need beside FleetAssumption.
ASSUME MarkerAssumption ==
  /\ NoSched \notin Schedulers
  /\ NoRow \notin Row

-----------------------------------------------------------------------------
(***************************************************************************)
(* The tables by themselves.                                               *)
(***************************************************************************)
\* The first machine of a list is not among the others.
Proper(a) == a.prim \notin a.rest

ListsProper == \A j \in Jobs : Proper(jmach[j])

\* A busy machine belongs to a job that was scheduled, and its status says
\* which place it has in the job's list.
BusyInItsPlace ==
  \A m \in Machines : Busy(m) =>
    /\ mjob[m] \in Jobs
    /\ jstatus[mjob[m]] \in {"running", "done"}
    /\ mstatus[m] \in {"scheduled", "running"} => m = jmach[mjob[m]].prim
    /\ mstatus[m] = "slaved" => m \in jmach[mjob[m]].rest

\* A job that was never scheduled was never started.
UnscheduledNotStarted ==
  \A j \in Jobs : jstatus[j] \in {"none", "new"} => proc[j] = "none" /\ j \notin resdir

\* Nor was a job whose machine still waits for its controller; if such a job
\* is over, it was removed, and the next run sees that.
ScheduledNotStarted ==
  \A m \in Machines : mstatus[m] = "scheduled" =>
    /\ proc[mjob[m]] = "none"
    /\ mjob[m] \notin resdir
    /\ jstatus[mjob[m]] = "done" => mjob[m] \in removed

\* A wrapper or a harness is that of a job marked running, unless killJob has
\* passed the wrapper over, because the job was removed.
HarnessOfRunningJob ==
  \A j \in Jobs : HasProcess(j) =>
    /\ jstatus[j] = "running" \/ (jstatus[j] = "done" /\ Missed(j))
    /\ Missed(j) => j \in removed

TableInv ==
  /\ ListsProper
  /\ RunningJobHoldsMachines
  /\ BusyInItsPlace
  /\ UnscheduledNotStarted
  /\ ScheduledNotStarted
  /\ HarnessOfRunningJob

-----------------------------------------------------------------------------
(***************************************************************************)
(* A scheduler run.                                                        *)
(***************************************************************************)
HasList  == {"jobs", "pick", "record", "assign"}
HasQueue == {"pick", "record", "assign"}
HasJob   == {"record", "assign"}

LockHeld(s) == spc[s] # "off" => schedLock = s

\* What it listed as available is still idle.
AvailIdle(s) == spc[s] \in HasList => \A m \in savail[s] : ~Busy(m)

\* The jobs it has yet to consider are still new.
QueueNew(s) == spc[s] \in HasQueue => \A j \in squeue[s] : jstatus[j] = "new"

\* The job it is scheduling is new and every machine selected for it is idle.
ChoiceGood(s) == spc[s] \in HasJob =>
  /\ sjob[s] \in Jobs
  /\ jstatus[sjob[s]] = "new"
  /\ sjob[s] \notin squeue[s]
  /\ ssel[s].prim \in Machines
  /\ Proper(ssel[s])
  /\ \A m \in Members(ssel[s]) : ~Busy(m)

Recorded(s) == spc[s] = "assign" => jmach[sjob[s]] = ssel[s]

\* Between the two counts of a site the site is known.
SiteAtHand(s) == spc[s] = "scheduled" => ssite[s] \in Sites

SchedGood(s) ==
  /\ LockHeld(s) /\ SiteAtHand(s)
  /\ AvailIdle(s) /\ QueueNew(s) /\ ChoiceGood(s) /\ Recorded(s)

SchedInv == \A s \in Schedulers : SchedGood(s)

-----------------------------------------------------------------------------
(***************************************************************************)
(* A controller run.                                                       *)
(***************************************************************************)
\* Steps at which the machine at hand is still as the list has it, and steps
\* at which it was marked running and its job is not started yet.
AsListed == {"probe", "dead", "kill", "complete", "free"}
Marked   == {"launch", "fail"}

\* Row r still says what the table says.
Current(r) == mstatus[r.name] = r.rawstatus /\ mjob[r.name] = r.jobid

\* A row of a busy machine of the site of controller c.
RowOf(c, r) == r \in Row /\ r.rawstatus # "idle" /\ SiteOf[r.name] = SiteC(c)

PidFileHeld(c) == cpc[c] # "off" => pidfile[SiteC(c)] = c

TodoCurrent(c) == \A r \in ctodo[c] : RowOf(c, r) /\ Current(r)

\* A row of newjobs is a scheduled machine of a job that is not over.
NewCurrent(c) == \A r \in cnew[c] :
  /\ RowOf(c, r) /\ Current(r)
  /\ r \notin ctodo[c]
  /\ r.rawstatus = "scheduled"
  /\ jstatus[r.jobid] = "running"

\* The row at hand while it is as listed.
RowAtHand(c) == cpc[c] \in AsListed =>
  /\ RowOf(c, ccur[c]) /\ Current(ccur[c])
  /\ ccur[c] \notin ctodo[c] \cup cnew[c]
  /\ "removed" \in cseen[c] => JobOf(c) \in removed
  /\ cpc[c] \in {"probe", "dead", "kill"} => ccur[c].rawstatus = "running"
  /\ cpc[c] = "kill" => "removed" \in cseen[c]
  /\ cpc[c] = "complete" => /\ ccur[c].rawstatus \in {"scheduled", "running"}
                            /\ JobOf(c) \in removed
                            /\ HasProcess(JobOf(c)) => Missed(JobOf(c))
  /\ cpc[c] = "free" => jstatus[JobOf(c)] = "done"

\* The job being started: its machine was marked, its harness is not there.
JobAtHand(c) == cpc[c] \in Marked =>
  /\ RowOf(c, ccur[c])
  /\ mstatus[ccur[c].name] = "running" /\ mjob[ccur[c].name] = JobOf(c)
  /\ jstatus[JobOf(c)] = "running"
  /\ proc[JobOf(c)] = "none"
  /\ cpc[c] = "launch" => JobOf(c) \notin resdir

PidAtHand(c) == cpc[c] = "recordpid" => ccur[c] \in Row

\* A run that starts a job was allowed to.
MayAtHand(c) == cpc[c] \in {"launch", "recordpid", "fail"} => cmay[c] > 0

\* A process that is not running has read nothing.
OffEmpty(c) == cpc[c] = "off" => ctodo[c] = {} /\ cnew[c] = {}

CtlGood(c) ==
  /\ PidFileHeld(c) /\ OffEmpty(c) /\ TodoCurrent(c) /\ NewCurrent(c)
  /\ RowAtHand(c) /\ JobAtHand(c) /\ PidAtHand(c) /\ MayAtHand(c)

CtlInv == \A c \in Ctrls : CtlGood(c)

-----------------------------------------------------------------------------
(***************************************************************************)
(* DEAD_JOB and HARNESS_PID, beside IInv: only a run that spawned a        *)
(* harness records its pid, and the job is not flagged meanwhile.          *)
(***************************************************************************)
\* A job that has not been started cannot have been flagged.
FlaggedWasMarked ==
  /\ \A j \in deadjob : jstatus[j] \in {"running", "done"}
  /\ \A m \in Machines : mstatus[m] = "scheduled" => mjob[m] \notin deadjob

\* A process without a recorded pid: the run that spawned it is about to
\* record it, or a run was killed.
Unrecorded(j) == HasProcess(j) /\ j \notin hpid
Spawned(c, j) == cpc[c] = "recordpid" /\ JobOf(c) = j
PidOnItsWay ==
  \A j \in Jobs : Unrecorded(j) => crashes > 0 \/ \E c \in Ctrls : Spawned(c, j)

\* The job at hand of a run that starts it.
StartAtHand(c) ==
  /\ cpc[c] \in {"launch", "recordpid"} => JobOf(c) \notin deadjob
  /\ cpc[c] = "recordpid" =>
       /\ RowOf(c, ccur[c])
       /\ jstatus[JobOf(c)] \in {"running", "done"}
       /\ ccur[c].name = jmach[JobOf(c)].prim

\* What a run found out about a harness is still so when it is used: no other
\* run starts the job of a machine that is in this one's list.
ProbeAtHand(c) ==
  cpc[c] = "dead" \/ (cpc[c] = "probe" /\ "pid" \notin cseen[c]) =>
    (HasProcess(JobOf(c)) => JobOf(c) \notin hpid /\ crashes > 0)

FlagInv ==
  /\ FlagMeansDead /\ FlaggedWasMarked /\ PidOnItsWay
  /\ \A c \in Ctrls : StartAtHand(c) /\ ProbeAtHand(c)

-----------------------------------------------------------------------------
IInv == TypeOK /\ TableInv /\ SchedInv /\ CtlInv
=============================================================================
