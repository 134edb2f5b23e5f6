--------------------------- MODULE SiteController ---------------------------
(***************************************************************************)
(* control/site-controller.in: the program cron runs every minute on the   *)
(* controller of a site.  One run reads the list of the site's machines    *)
(* once, then walks over that list, looking jobs up and writing machine    *)
(* and job states one API call at a time, and finally starts the jobs      *)
(* whose primary machine was scheduled.                                    *)
(*                                                                         *)
(* Abstracted: the order of machines and of new jobs (any order), the      *)
(* rate-limit history (a run may start any number of jobs up to the burst  *)
(* limit), git and patch handling (setting up either works or fails).      *)
(***************************************************************************)
EXTENDS FleetDB

CONSTANTS Ctrls,        \* controller processes
          SiteOfCtrl,   \* the -s argument of each
          BurstJobs,    \* burstjobs
          NoCtrl, NoRow

ASSUME ControllerAssumption ==
  /\ SiteOfCtrl \in [Ctrls -> Sites]
  /\ BurstJobs \in Nat
  /\ NoCtrl \notin Ctrls

VARIABLES
  pidfile,     \* /tmp/xenrt-site-controller.pid on each controller host
  cpc,         \* where each process is ("off": not running)
  ctodo,       \* rows of mlist not examined yet
  ccur, cseen, \* the row being dealt with, what get_job said of its job
  cnew,        \* newjobs: rows whose job is to be started
  cmay         \* maystart

ctlVars == <<pidfile, cpc, ctodo, ccur, cseen, cnew, cmay>>

\* What mlist says of a machine: name, rawstatus and jobid when it was read.
Row == [name: Machines, rawstatus: MachineStatus, jobid: Jobs]

CtlPc == {"off", "scan", "probe", "dead", "kill", "complete", "free",
          "launch", "recordpid", "fail"}
JobFlags == {"done", "removed", "pid"}

CtlTypeOK ==
  /\ pidfile \in [Sites -> Ctrls \cup {NoCtrl}]
  /\ cpc \in [Ctrls -> CtlPc]
  /\ ctodo \in [Ctrls -> SUBSET Row]
  /\ ccur \in [Ctrls -> Row \cup {NoRow}]
  /\ cseen \in [Ctrls -> SUBSET JobFlags]
  /\ cnew \in [Ctrls -> SUBSET Row]
  /\ cmay \in [Ctrls -> 0..BurstJobs]

CtlInit ==
  /\ pidfile = [site \in Sites |-> NoCtrl]
  /\ cpc = [c \in Ctrls |-> "off"]
  /\ ctodo = [c \in Ctrls |-> {}]
  /\ ccur = [c \in Ctrls |-> NoRow]
  /\ cseen = [c \in Ctrls |-> {}]
  /\ cnew = [c \in Ctrls |-> {}]
  /\ cmay = [c \in Ctrls |-> 0]

CGoto(c, label) == cpc' = [cpc EXCEPT ![c] = label]

\* The job of the machine a run is dealing with, as mlist has it.
JobOf(c)  == ccur[c].jobid
SiteC(c)  == SiteOfCtrl[c]

\* What get_job returns of job j.
Seen(j) == (IF jstatus[j] = "done" THEN {"done"} ELSE {})
           \cup (IF j \in removed THEN {"removed"} ELSE {})
           \cup (IF j \in hpid THEN {"pid"} ELSE {})

\* The process is gone and with it everything it had read.
CForget(c) ==
  /\ CGoto(c, "off")
  /\ ctodo' = [ctodo EXCEPT ![c] = {}]
  /\ ccur' = [ccur EXCEPT ![c] = NoRow]
  /\ cseen' = [cseen EXCEPT ![c] = {}]
  /\ cnew' = [cnew EXCEPT ![c] = {}]
  /\ cmay' = [cmay EXCEPT ![c] = 0]

-----------------------------------------------------------------------------
\* The lock file is absent, or names a process that is not running any more.
PidFileIgnored(c) == TRUE
PidFileAbsent(c) == pidfile[SiteC(c)] = NoCtrl
PidFileFree(c) ==
  pidfile[SiteC(c)] # NoCtrl => cpc[pidfile[SiteC(c)]] = "off"

\* The rows of mlist a run does anything with: the busy machines of its site.
MachineList(c) ==
  {[name |-> m, rawstatus |-> mstatus[m], jobid |-> mjob[m]] :
     m \in {n \in SiteMachines(SiteC(c)) : Busy(n)}}

(***************************************************************************)
(* A run begins: check and write the lock file, work out how many jobs it  *)
(* may start, read mlist.  The file is checked and then written: cron      *)
(* starts runs a minute apart, so the two are one step here.               *)
(***************************************************************************)
CtlStart(c, allowed) ==
  /\ cpc[c] = "off"
  /\ PidFileFree(c)
  /\ pidfile' = [pidfile EXCEPT ![SiteC(c)] = c]
  /\ cmay' = [cmay EXCEPT ![c] = allowed]
  /\ ctodo' = [ctodo EXCEPT ![c] = MachineList(c)]
  /\ CGoto(c, "scan")
  /\ UNCHANGED <<ccur, cseen, cnew, fleetVars>>

\* Take up row r of the list with what get_job said of its job; or be done
\* with the row at hand.
TakeUp(c, r, seen, label) ==
  /\ ccur' = [ccur EXCEPT ![c] = r]
  /\ cseen' = [cseen EXCEPT ![c] = seen]
  /\ CGoto(c, label)

DoneWith(c) == TakeUp(c, NoRow, {}, "scan")

\* Go on with the row at hand.
GoOn(c, label) == CGoto(c, label) /\ UNCHANGED <<ccur, cseen>>

\* (Four plausible mistakes in what follows.)
KeepsSlaves(r, seen) ==
  CASE r.rawstatus = "running" /\ "done" \in seen           -> "free"
    [] r.rawstatus = "scheduled" /\ "removed" \in seen      -> "complete"
    [] r.rawstatus = "running" /\ "done" \notin seen        -> "probe"
    [] OTHER                                                -> "scan"
ForgetsRemoved(r, seen) ==
  CASE r.rawstatus \in {"slaved", "running"} /\ "done" \in seen -> "free"
    [] r.rawstatus = "running" /\ "done" \notin seen            -> "probe"
    [] OTHER                                                    -> "scan"
FreesRemoved(r, seen) ==
  CASE r.rawstatus \in {"slaved", "running"} /\ seen \cap {"done", "removed"} # {} -> "free"
    [] r.rawstatus = "scheduled" /\ "removed" \in seen -> "complete"
    [] r.rawstatus = "running" /\ seen \cap {"done", "removed"} = {} -> "probe"
    [] OTHER                                           -> "scan"
ProbesRemoved(r, seen) ==
  CASE r.rawstatus \in {"slaved", "running"} /\ "done" \in seen -> "free"
    [] r.rawstatus = "scheduled" /\ "removed" \in seen          -> "complete"
    [] r.rawstatus = "running" /\ seen \cap {"done", "removed"} = {"removed"} -> "probe"
    [] OTHER                                                    -> "scan"

\* What a run does about a machine after reading its job, by the status the
\* machine had in mlist; "scan": nothing, go to the next one.
StepFor(r, seen) ==
  CASE r.rawstatus \in {"slaved", "running"} /\ "done" \in seen -> "free"
    [] r.rawstatus = "scheduled" /\ "removed" \in seen          -> "complete"
    [] r.rawstatus = "running" /\ "done" \notin seen            -> "probe"
    [] OTHER                                                    -> "scan"

\* get_job for the next machine of the list; a scheduled machine whose job is
\* not removed goes to newjobs.
CtlExamine(c) ==
  /\ cpc[c] = "scan"
  /\ \E r \in ctodo[c] :
       LET seen  == Seen(r.jobid)
           step  == StepFor(r, seen)
           fresh == r.rawstatus = "scheduled" /\ "removed" \notin seen
       IN /\ ctodo' = [ctodo EXCEPT ![c] = @ \ {r}]
          /\ cnew' = [cnew EXCEPT ![c] = IF fresh THEN @ \cup {r} ELSE @]
          /\ IF step = "scan" THEN DoneWith(c) ELSE TakeUp(c, r, seen, step)
  /\ UNCHANGED <<pidfile, cmay, fleetVars>>

\* Look for /proc/HARNESS_PID, the pid of the wrapper.
CtlProbe(c) ==
  LET found == "pid" \in cseen[c] /\ HasProcess(JobOf(c))
  IN /\ cpc[c] = "probe"
     /\ CASE ~found -> GoOn(c, "dead")
          [] found /\ "removed" \in cseen[c] -> GoOn(c, "kill")
          [] OTHER -> DoneWith(c)
     /\ UNCHANGED <<pidfile, ctodo, cnew, cmay, fleetVars>>

\* "ERROR - no process for job"
CtlFlagDead(c) ==
  /\ cpc[c] = "dead"
  /\ deadjob' = deadjob \cup {JobOf(c)}
  /\ IF "removed" \in cseen[c] THEN GoOn(c, "kill") ELSE DoneWith(c)
  /\ UNCHANGED <<pidfile, ctodo, cnew, cmay, machineVars, leaseVars, jstatus,
                 removed, jmach, hpid, hostVars>>

(***************************************************************************)
(* killJob: every process whose working directory is the job's results     *)
(* directory is killed.  That is the harness; a wrapper that is setting up *)
(* has the working directory of the controller, and goes on.  (While it    *)
(* installs packages a child of it may be killed; its error trap then ends *)
(* it and completes the job, which is HarnessComplete after this step.)    *)
(***************************************************************************)
KillsNothing(j) == proc[j]
Killed(j) == CASE proc[j] = "starting" -> "missed"
               [] Live(j)              -> "exited"
               [] OTHER                -> proc[j]

CtlKill(c) ==
  /\ cpc[c] = "kill"
  /\ proc' = [proc EXCEPT ![JobOf(c)] = Killed(JobOf(c))]
  /\ GoOn(c, "complete")
  /\ UNCHANGED <<pidfile, ctodo, cnew, cmay, machineVars, leaseVars, jobVars,
                 resdir, crashes>>

\* update_job(complete=True) for a removed job, running or only scheduled.
CtlComplete(c) ==
  /\ cpc[c] = "complete"
  /\ CompleteJob(JobOf(c))
  /\ GoOn(c, "free")
  /\ UNCHANGED <<pidfile, ctodo, cnew, cmay, machineVars, leaseVars, removed,
                 jmach, deadjob, hpid, hostVars>>

\* update_machine(m, status="idle")
CtlFree(c) ==
  /\ cpc[c] = "free"
  /\ SetMachineStatus({ccur[c].name}, "idle")
  /\ DoneWith(c)
  /\ UNCHANGED <<pidfile, ctodo, cnew, cmay, mjob, leaseVars, jobVars, hostVars>>

\* The whole list has been examined; the new jobs are next.
Scanned(c) == cpc[c] = "scan" /\ ctodo[c] = {}

\* newjobs[j]: the machines that belong to the job of row r.
Group(c, r) == {q \in cnew[c] : q.jobid = r.jobid}

\* maystart: the rate limit lets another job start.
NoRateLimit(c) == TRUE
MayStart(c) == cmay[c] > 0

\* update_machine(m, status="running") for the machines of the next new job.
CtlMark(c) ==
  /\ Scanned(c)
  /\ MayStart(c)
  /\ \E r \in cnew[c] :
       /\ SetMachineStatus({q.name : q \in Group(c, r)}, "running")
       /\ cnew' = [cnew EXCEPT ![c] = @ \ Group(c, r)]
       /\ TakeUp(c, r, {}, "launch")
  /\ UNCHANGED <<pidfile, ctodo, cmay, mjob, leaseVars, jobVars, hostVars>>

(***************************************************************************)
(* start_job: os.makedirs(resdir) raises if the directory exists (the run  *)
(* then dies: CtlCrash).  After that the branch is checked out and the     *)
(* wrapper spawned, or setting up fails and the job is completed.          *)
(***************************************************************************)
CtlLaunch(c) ==
  LET j == JobOf(c)
  IN /\ cpc[c] = "launch"
     /\ j \notin resdir
     /\ resdir' = resdir \cup {j}
     /\ \/ /\ proc' = [proc EXCEPT ![j] = "starting"]
           /\ GoOn(c, "recordpid")
        \/ /\ GoOn(c, "fail")
           /\ UNCHANGED proc
     /\ UNCHANGED <<pidfile, ctodo, cnew, cmay, machineVars, leaseVars,
                    jobVars, crashes>>

\* start_job returned: one more job started in this run.
Started(c) ==
  /\ cmay' = [cmay EXCEPT ![c] = @ - 1]
  /\ DoneWith(c)

\* update_job(params={"HARNESS_PID": ...})
CtlRecordPid(c) ==
  /\ cpc[c] = "recordpid"
  /\ hpid' = hpid \cup {JobOf(c)}
  /\ Started(c)
  /\ UNCHANGED <<pidfile, ctodo, cnew, machineVars, leaseVars, jstatus,
                 removed, jmach, deadjob, hostVars>>

\* update_job(params={"FAILED": ...}, complete=True)
CtlFail(c) ==
  /\ cpc[c] = "fail"
  /\ CompleteJob(JobOf(c))
  /\ Started(c)
  /\ UNCHANGED <<pidfile, ctodo, cnew, machineVars, leaseVars, removed, jmach,
                 deadjob, hpid, hostVars>>

\* Nothing left to start, or no more allowed by the rate limit: unlink the
\* lock file and exit.
CtlEnd(c) ==
  /\ Scanned(c)
  /\ cnew[c] = {} \/ ~MayStart(c)
  /\ pidfile' = [pidfile EXCEPT ![SiteC(c)] = NoCtrl]
  /\ CForget(c)
  /\ UNCHANGED fleetVars

\* SIGKILL from the watchdog, or an exception from an API call: the lock file
\* stays behind.
CtlCrash(c) ==
  /\ cpc[c] # "off"
  /\ CountCrash
  /\ CForget(c)
  /\ UNCHANGED pidfile

CtlRun(c) ==
  \/ CtlExamine(c) \/ CtlProbe(c) \/ CtlFlagDead(c) \/ CtlKill(c)
  \/ CtlComplete(c) \/ CtlFree(c) \/ CtlMark(c) \/ CtlLaunch(c)
  \/ CtlRecordPid(c) \/ CtlFail(c) \/ CtlEnd(c)

ControllerNext ==
  \E c \in Ctrls : \/ \E allowed \in 0..BurstJobs : CtlStart(c, allowed)
                   \/ CtlRun(c)
                   \/ CtlCrash(c)
=============================================================================
