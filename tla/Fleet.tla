-------------------------------- MODULE Fleet --------------------------------
(***************************************************************************)
(* The scheduler, the site controllers, the users and the job harnesses,   *)
(* interleaved on the shared tables.                                       *)
(***************************************************************************)
EXTENDS Scheduler, SiteController, JobApi

vars == <<fleetVars, schedVars, ctlVars, apiVars>>

TypeOK == FleetTypeOK /\ SchedTypeOK /\ CtlTypeOK /\ ApiTypeOK

Init == FleetInit /\ SchedInit /\ CtlInit /\ ApiInit

SchedulerStep  == SchedulerNext /\ UNCHANGED <<ctlVars, apiVars>>
ControllerStep == ControllerNext /\ UNCHANGED <<schedVars, apiVars>>
ApiStep        == ApiNext /\ UNCHANGED <<schedVars, ctlVars>>

Next == SchedulerStep \/ ControllerStep \/ ApiStep

Spec == Init /\ [][Next]_vars

(***************************************************************************)
(* Fairness.  Cron starts a controller every minute, a started run goes on *)
(* until it ends or is killed, and while no job is started the rate-limit  *)
(* window empties, so that again and again a run may start the full burst. *)
(* Nothing is asked of the scheduler, the users and the harnesses.         *)
(***************************************************************************)
CtlStep(A) == A /\ UNCHANGED <<schedVars, apiVars>>

Fairness ==
  \A c \in Ctrls : /\ WF_vars(CtlStep(CtlRun(c)))
                   /\ SF_vars(CtlStep(CtlStart(c, BurstJobs)))

FairSpec == Spec /\ Fairness

-----------------------------------------------------------------------------
(***************************************************************************)
(* A job marked running holds every machine of its list: the first one is  *)
(* scheduled or running for it, the others slaved to it.  schedule_on      *)
(* never looks at how many rows its UPDATEs changed, so this rests on the  *)
(* scheduler lock and on who may make a machine idle.                      *)
(***************************************************************************)
RunningJobHoldsMachines ==
  \A j \in Jobs : jstatus[j] = "running" =>
    /\ jmach[j].prim \in Machines
    /\ mstatus[jmach[j].prim] \in {"scheduled", "running"}
    /\ \A m \in jmach[j].rest : mstatus[m] = "slaved"
    /\ \A m \in MachinesOf(j) : mjob[m] = j

(***************************************************************************)
(* A harness never works on a machine that the tables give to another job  *)
(* or offer to the scheduler, nor does a wrapper that will run one live    *)
(* on: every machine of its job is busy and recorded as this job's.  With  *)
(* one exception, the harness of a removed and completed job whose wrapper *)
(* was still setting up when killJob looked for processes to kill.         *)
(***************************************************************************)
Loose(j) == Missed(j) /\ j \in removed /\ jstatus[j] = "done"

HarnessHasItsMachines ==
  \A j \in Jobs : HasProcess(j) =>
    Loose(j) \/ \A m \in MachinesOf(j) : Busy(m) /\ mjob[m] = j

(***************************************************************************)
(* A busy machine belongs to a job that was scheduled on it and that can   *)
(* still be seen to end: it never points at a job that is new, removed     *)
(* before it was scheduled, or scheduled elsewhere.                        *)
(***************************************************************************)
BusyMachineBelongs ==
  \A m \in Machines : Busy(m) =>
    /\ mjob[m] \in Jobs
    /\ jstatus[mjob[m]] \in {"running", "done"}
    /\ m \in MachinesOf(mjob[m])

(***************************************************************************)
(* start_job runs once for a job: when a controller is about to make the   *)
(* results directory of a job it does not exist, and no harness of the job *)
(* was ever spawned, however runs overlap, are killed and start again.     *)
(***************************************************************************)
JobLaunchedOnce ==
  \A c \in Ctrls : cpc[c] = "launch" =>
    JobOf(c) \notin resdir /\ proc[JobOf(c)] = "none"

(***************************************************************************)
(* What the flag DEAD_JOB is worth: a flagged job with a process is one    *)
(* whose HARNESS_PID was never recorded, because a run was killed between  *)
(* spawning the wrapper and recording it.  A run looks for the process     *)
(* with a pid it read before, and other runs start jobs meanwhile.         *)
(***************************************************************************)
FlagMeansDead ==
  \A j \in deadjob : HasProcess(j) => j \notin hpid /\ crashes > 0

(***************************************************************************)
(* All machines of a scheduled job are at one site (the controller of any  *)
(* other site would never look at them), and there are as many as needed.  *)
(***************************************************************************)
JobAtOneSite ==
  \A j \in Jobs : jstatus[j] \in {"running", "done"} =>
    /\ Cardinality(MachinesOf(j)) = Need[j]
    /\ \A m, n \in MachinesOf(j) : SiteOf[m] = SiteOf[n]

(***************************************************************************)
(* The fleet implements the abstract allocation of machines to jobs.       *)
(***************************************************************************)
Holder == [m \in Machines |-> IF Busy(m) THEN mjob[m] ELSE NoJob]
PhaseOf(p, st) ==
  CASE p = "alive"                                 -> "working"
    [] p = "starting"                              -> "holding"
    [] p \in {"missed", "stray"} /\ st = "done"    -> "loose"
    [] p \in {"missed", "stray"} /\ st # "done"    -> p
    [] p \in {"none", "exited"} /\ st = "done"     -> "over"
    [] p = "none" /\ st = "running"                -> "holding"
    [] p = "exited" /\ st = "running"              -> "stopped"
    [] OTHER                                       -> "waiting"
Phase == [j \in Jobs |-> PhaseOf(proc[j], jstatus[j])]

Alloc == INSTANCE MachineAlloc WITH holder <- Holder, phase <- Phase
AllocSpec == Alloc!Spec

-----------------------------------------------------------------------------
(***************************************************************************)
(* The machines of a finished job all come back, however it finished: the  *)
(* slaves too, and after a controller was killed half-way.                 *)
(***************************************************************************)
DoneJobFreesMachines ==
  \A j \in Jobs : (jstatus[j] = "done") ~> (\A m \in Machines : Busy(m) => mjob[m] # j)

\* A job removed while it holds machines is completed, whether its harness
\* runs, has died, or was never started.
RemovedJobEnds ==
  \A j \in Jobs : (j \in removed /\ jstatus[j] = "running") ~> (jstatus[j] = "done")

\* A scheduled machine does not stay scheduled: its job is started or ended,
\* whatever other jobs compete for the rate limit.
ScheduledIsStarted ==
  \A m \in Machines : (mstatus[m] = "scheduled") ~> (mstatus[m] # "scheduled")

\* A job whose machine is marked running and which has no process, because its
\* harness died or because it was never spawned, gets one, is flagged DEAD_JOB or
\* ends.
Lifeless(j) == /\ jstatus[j] = "running" /\ ~HasProcess(j)
               /\ mstatus[jmach[j].prim] = "running"
DeadHarnessNoticed ==
  \A j \in Jobs : Lifeless(j) ~> (HasProcess(j) \/ j \in deadjob \/ jstatus[j] = "done")

-----------------------------------------------------------------------------
(***************************************************************************)
(* Statements the repository makes of the fleet that its interleavings     *)
(* break.                                                                  *)
(***************************************************************************)
\* tblsites.maxjobs, "Maximum concurrent jobs on this site".
WithinSiteLimit ==
  \A site \in Sites :
    Cardinality({m \in SiteMachines(site) : mstatus[m] \in {"scheduled", "running"}})
      <= MaxJobs[site]

\* A lease another user holds is taken over only by a request with force.
TakeOverNeedsForce ==
  [][\A m \in Machines, u \in Users :
       (lease[m] \notin {NoUser, u} /\ lease'[m] = u) => ureq[u].force]_vars

\* A job flagged DEAD_JOB has no harness at work.
DeadJobHasNoHarness ==
  \A j \in deadjob : ~Live(j)
=============================================================================
