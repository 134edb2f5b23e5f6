------------------------------- MODULE FleetDB -------------------------------
(***************************************************************************)
(* The tables and files the server, the site controllers and the job       *)
(* harnesses share: tblmachines, tbljobs/tbljobdetails, the lease columns  *)
(* of tblmachines, the processes of a controller host and its job result   *)
(* directories.  Every module of the fleet model extends this one.         *)
(*                                                                         *)
(* A machine that does not match a job's pool, cluster, flags, resources   *)
(* or ACL is left out by nondeterminism: the scheduler may always pass a   *)
(* job over.                                                               *)
(***************************************************************************)
EXTENDS Integers, FiniteSets

CONSTANTS
  Machines,   \* rows of tblmachines
  Jobs,       \* job ids that may ever be submitted
  Users,      \* people who lease machines
  Sites,      \* online sites
  SiteOf,     \* the site of each machine
  MaxJobs,    \* tblsites.maxjobs of each site
  Need,       \* MACHINES_REQUIRED of each job
  Owner,      \* USERID of each job
  Wish,       \* the MACHINE parameter each job is submitted with
  MaxCrashes, \* bound on the scheduler and controller runs that are killed
  NoMachine, NoJob, NoUser

ASSUME FleetAssumption ==
  /\ IsFiniteSet(Machines)
  /\ SiteOf \in [Machines -> Sites]
  /\ MaxJobs \in [Sites -> Nat]
  /\ Need \in [Jobs -> Nat \ {0}]
  /\ MaxCrashes \in Nat
  /\ NoMachine \notin Machines
  /\ NoJob \notin Jobs
  /\ NoUser \notin Users
  /\ Wish \in [Jobs -> [prim: Machines \cup {NoMachine}, rest: SUBSET Machines]]
  /\ \A j \in Jobs : Wish[j].prim \notin Wish[j].rest

VARIABLES
  mstatus,    \* tblmachines.status
  mjob,       \* tblmachines.jobid; kept when the machine becomes idle
  lease,      \* tblmachines.comment, the user a machine is leased to
  overdue,    \* machines whose leaseTo lies in the past
  jstatus,    \* tbljobs.jobstatus ("none" before the job is submitted)
  removed,    \* jobs with REMOVED=yes
  jmach,      \* SCHEDULEDON and MACHINE of each job, first machine apart
  deadjob,    \* jobs with DEAD_JOB=yes
  hpid,       \* jobs whose HARNESS_PID is recorded
  resdir,     \* jobs whose results directory exists on the controller
  proc,       \* the wrapper process of each job and the harness it runs
  crashes     \* runs killed so far

machineVars == <<mstatus, mjob>>
leaseVars   == <<lease, overdue>>
jobVars     == <<jstatus, removed, jmach, deadjob, hpid>>
hostVars    == <<resdir, proc, crashes>>
fleetVars   == <<machineVars, leaseVars, jobVars, hostVars>>

MachineStatus == {"idle", "scheduled", "slaved", "running"}
JobStatus     == {"none", "new", "running", "done"}

\* The wrapper sets up an environment ("starting"), then the harness is at work in
\* the results directory ("alive").  "missed" and "stray" are the same of a job
\* whose wrapper killJob has passed over.
ProcState == {"none", "starting", "alive", "missed", "stray", "exited"}

\* A list of machines: the first one, and the set of the others.
Placement   == [prim: Machines \cup {NoMachine}, rest: SUBSET Machines]
NoPlacement == [prim |-> NoMachine, rest |-> {}]
Members(a)  == ({a.prim} \cup a.rest) \ {NoMachine}

Busy(m)      == mstatus[m] # "idle"
Live(j)      == proc[j] \in {"alive", "stray"}
Missed(j)    == proc[j] \in {"missed", "stray"}
HasProcess(j) == proc[j] \notin {"none", "exited"}
SiteMachines(site) == {m \in Machines : SiteOf[m] = site}

\* The machines of a job as getJobs reports them.
MachinesOf(j) == Members(jmach[j])

FleetTypeOK ==
  /\ mstatus \in [Machines -> MachineStatus]
  /\ mjob \in [Machines -> Jobs \cup {NoJob}]
  /\ lease \in [Machines -> Users \cup {NoUser}]
  /\ overdue \subseteq Machines
  /\ jstatus \in [Jobs -> JobStatus]
  /\ removed \subseteq Jobs
  /\ jmach \in [Jobs -> Placement]
  /\ deadjob \subseteq Jobs
  /\ hpid \subseteq Jobs
  /\ resdir \subseteq Jobs
  /\ proc \in [Jobs -> ProcState]
  /\ crashes \in 0..MaxCrashes

FleetInit ==
  /\ mstatus = [m \in Machines |-> "idle"]
  /\ mjob = [m \in Machines |-> NoJob]
  /\ lease = [m \in Machines |-> NoUser]
  /\ overdue = {}
  /\ jstatus = [j \in Jobs |-> "none"]
  /\ removed = {}
  /\ jmach = Wish
  /\ deadjob = {}
  /\ hpid = {}
  /\ resdir = {}
  /\ proc = [j \in Jobs |-> "none"]
  /\ crashes = 0

(***************************************************************************)
(* Statements the programs issue.                                          *)
(***************************************************************************)
\* update_machine(m, status=s): the status alone changes, never the job id.
SetMachineStatus(ms, s) ==
  mstatus' = [m \in Machines |-> IF m \in ms THEN s ELSE mstatus[m]]

\* A run is killed; the tables and the processes it started stay as they are.
CountCrash ==
  /\ crashes < MaxCrashes
  /\ crashes' = crashes + 1
  /\ UNCHANGED <<machineVars, leaseVars, jobVars, resdir, proc>>

\* update_job(j, complete=True)
CompleteJob(j) ==
  jstatus' = [jstatus EXCEPT ![j] = "done"]

\* The UPDATE that takes a lease off a set of machines.
ClearLease(ms) ==
  /\ lease' = [m \in Machines |-> IF m \in ms THEN NoUser ELSE lease[m]]
  /\ overdue' = overdue \ ms
=============================================================================
