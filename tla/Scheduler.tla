------------------------------ MODULE Scheduler ------------------------------
(***************************************************************************)
(* server/app/api/schedule.py: a cron-run program that assigns idle        *)
(* machines to new jobs.  One action per database transaction of a run, so *)
(* everything it read earlier may be stale when it is used.                *)
(*                                                                         *)
(* Abstracted: which machines match a job (ScPass may skip any job and the *)
(* choice among machines is free), job priority (the queue is taken in any *)
(* order), clusters (any machines of one site may be combined), dry runs,  *)
(* shared resources and the ACL cache.                                     *)
(***************************************************************************)
EXTENDS FleetDB

CONSTANTS Schedulers,     \* processes started by cron, possibly overlapping
          NoSched, NoSite

VARIABLES
  schedLock,   \* holder of LOCK TABLE scheduleLock
  spc,         \* where each run is
  scap,        \* sitecapacity
  scounted,    \* sites whose capacity is known
  ssite,       \* the site being counted
  sexp,        \* leases found to have expired
  savail,      \* machines: idle, unleased, at a site with capacity
  squeue,      \* new jobs still to be considered
  sjob, ssel   \* the job being scheduled and the machines selected for it

schedVars == <<schedLock, spc, scap, scounted, ssite, sexp, savail, squeue,
               sjob, ssel>>

ScPc == {"off", "running", "scheduled", "leases", "clear", "list", "jobs",
         "pick", "record", "assign"}

SchedTypeOK ==
  /\ schedLock \in Schedulers \cup {NoSched}
  /\ spc \in [Schedulers -> ScPc]
  /\ scap \in [Schedulers -> [Sites -> Int]]
  /\ scounted \in [Schedulers -> SUBSET Sites]
  /\ ssite \in [Schedulers -> Sites \cup {NoSite}]
  /\ sexp \in [Schedulers -> SUBSET Machines]
  /\ savail \in [Schedulers -> SUBSET Machines]
  /\ squeue \in [Schedulers -> SUBSET Jobs]
  /\ sjob \in [Schedulers -> Jobs \cup {NoJob}]
  /\ ssel \in [Schedulers -> Placement]

SchedInit ==
  /\ schedLock = NoSched
  /\ spc = [s \in Schedulers |-> "off"]
  /\ scap = [s \in Schedulers |-> MaxJobs]
  /\ scounted = [s \in Schedulers |-> {}]
  /\ ssite = [s \in Schedulers |-> NoSite]
  /\ sexp = [s \in Schedulers |-> {}]
  /\ savail = [s \in Schedulers |-> {}]
  /\ squeue = [s \in Schedulers |-> {}]
  /\ sjob = [s \in Schedulers |-> NoJob]
  /\ ssel = [s \in Schedulers |-> NoPlacement]

Goto(s, label) == spc' = [spc EXCEPT ![s] = label]

\* Machines of a site in a given status, as scm_machine_list counts them.
CountAt(site, st) ==
  Cardinality({m \in SiteMachines(site) : mstatus[m] = st})

\* A run's variables are gone when it ends.
Forget(s) ==
  /\ Goto(s, "off")
  /\ scap' = [scap EXCEPT ![s] = MaxJobs]
  /\ scounted' = [scounted EXCEPT ![s] = {}]
  /\ ssite' = [ssite EXCEPT ![s] = NoSite]
  /\ sexp' = [sexp EXCEPT ![s] = {}]
  /\ savail' = [savail EXCEPT ![s] = {}]
  /\ squeue' = [squeue EXCEPT ![s] = {}]
  /\ sjob' = [sjob EXCEPT ![s] = NoJob]
  /\ ssel' = [ssel EXCEPT ![s] = NoPlacement]

-----------------------------------------------------------------------------
(***************************************************************************)
(* get_lock: LOCK TABLE scheduleLock NOWAIT; a run that does not get it    *)
(* prints that another schedule is in progress and ends.                   *)
(***************************************************************************)
GetLockIgnored(s) == TRUE
GetLock(s) == schedLock = NoSched

ScStart(s) ==
  /\ spc[s] = "off"
  /\ GetLock(s)
  /\ schedLock' = s
  /\ Goto(s, "running")
  /\ UNCHANGED <<scap, scounted, ssite, sexp, savail, squeue, sjob, ssel, fleetVars>>

\* scm_site_list(checkFull=True), first query: the machines with status
\* 'running' of one site.
ScCountRunning(s) ==
  /\ spc[s] = "running"
  /\ \E site \in Sites \ scounted[s] :
       /\ scap' = [scap EXCEPT ![s][site] = MaxJobs[site] - CountAt(site, "running")]
       /\ ssite' = [ssite EXCEPT ![s] = site]
  /\ Goto(s, "scheduled")
  /\ UNCHANGED <<schedLock, scounted, sexp, savail, squeue, sjob, ssel, fleetVars>>

\* Second query for the same site: the machines with status 'scheduled'.
ScCountScheduled(s) ==
  /\ spc[s] = "scheduled"
  /\ scap' = [scap EXCEPT ![s][ssite[s]] = @ - CountAt(ssite[s], "scheduled")]
  /\ LET counted == scounted[s] \cup {ssite[s]}
     IN IF counted = Sites
        THEN Goto(s, "leases") /\ scounted' = [scounted EXCEPT ![s] = {}]
        ELSE Goto(s, "running") /\ scounted' = [scounted EXCEPT ![s] = counted]
  /\ ssite' = [ssite EXCEPT ![s] = NoSite]
  /\ UNCHANGED <<schedLock, sexp, savail, squeue, sjob, ssel, fleetVars>>

\* scm_check_leases, the SELECT and the comparison of leaseTo with the clock.
ScFindExpired(s) ==
  /\ spc[s] = "leases"
  /\ sexp' = [sexp EXCEPT ![s] = overdue]
  /\ Goto(s, IF overdue = {} THEN "list" ELSE "clear")
  /\ UNCHANGED <<schedLock, scap, scounted, ssite, savail, squeue, sjob, ssel, fleetVars>>

\* scm_check_leases, the UPDATE: by machine name, whatever the lease is by now.
ScClearExpired(s) ==
  /\ spc[s] = "clear"
  /\ ClearLease(sexp[s])
  /\ sexp' = [sexp EXCEPT ![s] = {}]
  /\ Goto(s, "list")
  /\ UNCHANGED <<schedLock, scap, scounted, ssite, savail, squeue, sjob,
                 ssel, machineVars, jobVars, hostVars>>

\* scm_machine_list(status="idle", leasecheck=False), less the full sites.
ScListMachines(s) ==
  /\ spc[s] = "list"
  /\ savail' = [savail EXCEPT ![s] =
                  {m \in Machines : /\ ~Busy(m)
                                    /\ lease[m] = NoUser
                                    /\ scap[s][SiteOf[m]] > 0}]
  /\ Goto(s, "jobs")
  /\ UNCHANGED <<schedLock, scap, scounted, ssite, sexp, squeue, sjob, ssel, fleetVars>>

\* schedulable_jobs: new jobs that have not been removed.
ScReadJobs(s) ==
  /\ spc[s] = "jobs"
  /\ squeue' = [squeue EXCEPT ![s] =
                  {j \in Jobs : jstatus[j] = "new" /\ j \notin removed}]
  /\ Goto(s, "pick")
  /\ UNCHANGED <<schedLock, scap, scounted, ssite, sexp, savail, sjob, ssel, fleetVars>>

(***************************************************************************)
(* Selecting machines for job j.  The named machines of a job may also be  *)
(* machines its owner has leased, read afresh; the others come from the    *)
(* list made at the start of the run.                                      *)
(***************************************************************************)
LeasedForBusyToo(j) == {m \in Machines : lease[m] = Owner[j]}
LeasedFor(j) ==
  {m \in Machines : ~Busy(m) /\ lease[m] = Owner[j]}

NamedAnywhere(j, avail) ==
  LET pool  == avail \cup LeasedFor(j)
      named == jmach[j].rest
      want  == Need[j] - 1
      take  == IF Cardinality(named) < want THEN Cardinality(named) ELSE want
  IN IF jmach[j].prim \in pool
     THEN {R \in SUBSET named : Cardinality(R) = take /\ R \subseteq pool}
     ELSE {}

\* Named: the first is required, the rest are taken while machines are still
\* needed, and every machine taken must be available at the first one's site.
NamedChoices(j, avail) ==
  LET pool  == avail \cup LeasedFor(j)
      first == jmach[j].prim
      named == jmach[j].rest
      want  == Need[j] - 1
      take  == IF Cardinality(named) < want THEN Cardinality(named) ELSE want
  IN IF first \in pool
     THEN {R \in SUBSET named : /\ Cardinality(R) = take
                                /\ R \subseteq pool
                                /\ \A m \in R : SiteOf[m] = SiteOf[first]}
     ELSE {}

\* scm_select_machines: number machines of one site not selected already.
OtherChoices(site, avail, taken, number) ==
  {R \in SUBSET {m \in avail \ taken : SiteOf[m] = site} : Cardinality(R) = number}

Selections(j, avail) ==
  IF jmach[j].prim = NoMachine
  THEN {a \in Placement : /\ a.prim \in avail
                          /\ a.rest \in OtherChoices(SiteOf[a.prim], avail,
                                                     {a.prim}, Need[j] - 1)}
  ELSE LET first == jmach[j].prim
       IN {[prim |-> first, rest |-> a[1] \cup a[2]] :
             a \in {b \in NamedChoices(j, avail) \X SUBSET avail :
                      b[2] \in OtherChoices(SiteOf[first], avail,
                                            {first} \cup b[1],
                                            Need[j] - 1 - Cardinality(b[1]))}}

ScSelect(s) ==
  /\ spc[s] = "pick"
  /\ \E j \in squeue[s] : \E a \in Selections(j, savail[s]) :
       /\ sjob' = [sjob EXCEPT ![s] = j]
       /\ ssel' = [ssel EXCEPT ![s] = a]
       /\ squeue' = [squeue EXCEPT ![s] = @ \ {j}]
  /\ Goto(s, "record")
  /\ UNCHANGED <<schedLock, scap, scounted, ssite, sexp, savail, fleetVars>>

\* No suitable machines, not allowed by ACL, an invalid parameter.
ScPass(s) ==
  /\ spc[s] = "pick"
  /\ \E j \in squeue[s] : squeue' = [squeue EXCEPT ![s] = @ \ {j}]
  /\ UNCHANGED <<schedLock, spc, scap, scounted, ssite, sexp, savail, sjob,
                 ssel, fleetVars>>

(***************************************************************************)
(* schedule_on.  update_field commits SCHEDULEDON and MACHINE at once even *)
(* though it is called with commit=False (the two commits are one step     *)
(* here); the UPDATEs of the machines and of the job status are one        *)
(* transaction.  The UPDATEs match idle machines only and nobody looks at  *)
(* how many rows they changed.                                             *)
(***************************************************************************)
ScRecord(s) ==
  /\ spc[s] = "record"
  /\ jmach' = [jmach EXCEPT ![sjob[s]] = ssel[s]]
  /\ Goto(s, "assign")
  /\ UNCHANGED <<schedLock, scap, scounted, ssite, sexp, savail, squeue, sjob,
                 ssel, machineVars, leaseVars, jstatus, removed,
                 deadjob, hpid, hostVars>>

\* What the UPDATEs make of a machine's status.
AssignedStatus(m, a) ==
  IF Busy(m) \/ m \notin Members(a) THEN mstatus[m]
  ELSE IF m = a.prim THEN "scheduled" ELSE "slaved"

\* set_status(job, JOB_STATUS_RUNNING)
NotMarkedRunning(j) == UNCHANGED jstatus
MarkRunning(j) == jstatus' = [jstatus EXCEPT ![j] = "running"]

ScAssign(s) ==
  LET a    == ssel[s]
      site == SiteOf[a.prim]
      left == scap[s][site] - 1
  IN /\ spc[s] = "assign"
     /\ mstatus' = [m \in Machines |-> AssignedStatus(m, a)]
     /\ mjob' = [m \in Machines |->
                   IF m \in Members(a) /\ ~Busy(m) THEN sjob[s] ELSE mjob[m]]
     /\ MarkRunning(sjob[s])
     /\ scap' = [scap EXCEPT ![s][site] = left]
     /\ savail' = [savail EXCEPT ![s] =
                     {m \in @ \ Members(a) : left > 0 \/ SiteOf[m] # site}]
     /\ sjob' = [sjob EXCEPT ![s] = NoJob]
     /\ ssel' = [ssel EXCEPT ![s] = NoPlacement]
     /\ Goto(s, "pick")
     /\ UNCHANGED <<schedLock, scounted, ssite, sexp, squeue, leaseVars, removed, jmach, deadjob, hpid, hostVars>>

\* release_lock, when every job has been considered.
ScEnd(s) ==
  /\ spc[s] = "pick"
  /\ squeue[s] = {}
  /\ schedLock' = NoSched
  /\ Forget(s)
  /\ UNCHANGED fleetVars

\* The run is killed: its connection closes, which drops the table lock and
\* rolls back what was not committed.
ScCrash(s) ==
  /\ spc[s] # "off"
  /\ CountCrash
  /\ schedLock' = NoSched
  /\ Forget(s)

ScRun(s) ==
  \/ ScCountRunning(s) \/ ScCountScheduled(s)
  \/ ScFindExpired(s) \/ ScClearExpired(s)
  \/ ScListMachines(s) \/ ScReadJobs(s)
  \/ ScSelect(s) \/ ScPass(s) \/ ScRecord(s) \/ ScAssign(s) \/ ScEnd(s)

SchedulerNext == \E s \in Schedulers : ScStart(s) \/ ScRun(s) \/ ScCrash(s)
=============================================================================
