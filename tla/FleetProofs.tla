----------------------------- MODULE FleetProofs -----------------------------
(***************************************************************************)
(* IInv is an invariant of Fleet for every set of machines, jobs, sites,   *)
(* scheduler runs and controllers, and with it the safety properties.      *)
(***************************************************************************)
EXTENDS FleetTypeProofs

-----------------------------------------------------------------------------
(***************************************************************************)
(* What a step may change without disturbing the tables, a scheduler run,  *)
(* a controller run.                                                       *)
(***************************************************************************)
TableKept ==
  /\ UNCHANGED <<mstatus, mjob, jstatus, jmach, resdir, proc>>
  /\ removed \subseteq removed'

RunKept(s) ==
  /\ spc'[s] = spc[s] /\ savail'[s] = savail[s] /\ squeue'[s] = squeue[s]
  /\ ssite'[s] = ssite[s] /\ sjob'[s] = sjob[s] /\ ssel'[s] = ssel[s]
  /\ schedLock' = schedLock
  /\ \A m \in Machines : ~Busy(m) => ~Busy(m)'
  /\ \A j \in Jobs : jstatus[j] = "new" => jstatus'[j] = "new"
  /\ jmach' = jmach

\* A wrapper that killJob passed over is never taken for one it did not.
MissedStays == \A j \in Jobs : Missed(j) /\ HasProcess(j)' => Missed(j)'

\* What controller d counts on: the busy machines of its site, and of the jobs
\* that are scheduled or running there, all but a wrapper or a harness.
CtlKept(d) ==
  /\ cpc'[d] = cpc[d] /\ ctodo'[d] = ctodo[d] /\ ccur'[d] = ccur[d]
  /\ cseen'[d] = cseen[d] /\ cnew'[d] = cnew[d] /\ cmay'[d] = cmay[d]
  /\ pidfile'[SiteC(d)] = pidfile[SiteC(d)]
  /\ \A m \in SiteMachines(SiteC(d)) :
       Busy(m) => mstatus'[m] = mstatus[m] /\ mjob'[m] = mjob[m]
  /\ \A j \in Jobs : jstatus[j] = "done" => jstatus'[j] = "done"
  /\ removed \subseteq removed'
  /\ MissedStays
  /\ \A m \in SiteMachines(SiteC(d)) : \A j \in Jobs :
       (mjob[m] = j /\ mstatus[m] \in {"scheduled", "running"} /\ ~HasProcess(j)) =>
         /\ jstatus'[j] = jstatus[j]
         /\ proc'[j] = proc[j]
         /\ j \in resdir' => j \in resdir

LEMMA TableFrame ==
  ASSUME IInv, TableKept
  PROVE  TableInv'
  BY DEF IInv, TableInv, TableKept, ListsProper, RunningJobHoldsMachines,
         BusyInItsPlace, UnscheduledNotStarted, ScheduledNotStarted,
         HarnessOfRunningJob, Busy, HasProcess, Missed, MachinesOf, TypeOK, FleetTypeOK

LEMMA RunFrame ==
  ASSUME IInv, NEW s \in Schedulers, RunKept(s)
  PROVE  SchedGood(s)'
<1> USE DEF RunKept
<1>1. SchedGood(s) /\ SchedTypeOK
  BY DEF IInv, SchedInv, TypeOK
<1>2. LockHeld(s)' /\ SiteAtHand(s)' /\ Recorded(s)'
  BY <1>1 DEF SchedGood, LockHeld, SiteAtHand, Recorded
<1>3. AvailIdle(s)' /\ QueueNew(s)'
  BY <1>1 DEF SchedGood, AvailIdle, QueueNew, SchedTypeOK
<1>4. ChoiceGood(s)'
  <2>1. Members(ssel[s]) \subseteq Machines
    BY <1>1 DEF Members, SchedTypeOK, Placement
  <2> QED
    BY <1>1, <2>1 DEF SchedGood, ChoiceGood
<1> QED
  BY <1>2, <1>3, <1>4 DEF SchedGood

\* A row of the site of a controller names a machine of the site.
LEMMA RowMachine ==
  ASSUME NEW c \in Ctrls, NEW r, RowOf(c, r)
  PROVE  r \in Row /\ r.name \in SiteMachines(SiteC(c)) /\ r.jobid \in Jobs
         /\ r.name \in Machines
  BY DEF RowOf, Row, SiteMachines

LEMMA CtlFrame ==
  ASSUME IInv, NEW d \in Ctrls, CtlKept(d)
  PROVE  CtlGood(d)'
<1> USE DEF CtlKept
<1>1. CtlGood(d) /\ TableInv
  BY DEF IInv, CtlInv
<1>2. PidFileHeld(d)' /\ OffEmpty(d)' /\ PidAtHand(d)' /\ MayAtHand(d)'
  BY <1>1 DEF CtlGood, PidFileHeld, OffEmpty, PidAtHand, MayAtHand
<1>3. ASSUME NEW r, RowOf(d, r) PROVE RowOf(d, r)' /\ (Current(r) => Current(r)')
  <2>1. Current(r) => Busy(r.name)
    BY <1>3 DEF RowOf, Current, Busy
  <2> QED
    BY <1>3, <2>1, RowMachine DEF RowOf, Current
<1>4. TodoCurrent(d)'
  BY <1>1, <1>3 DEF CtlGood, TodoCurrent
<1>5. NewCurrent(d)'
  <2>1. SUFFICES ASSUME NEW r \in cnew[d] PROVE jstatus'[r.jobid] = "running"
    BY <1>1, <1>3 DEF CtlGood, NewCurrent
  <2>2. RowOf(d, r) /\ Current(r) /\ r.rawstatus = "scheduled" /\ jstatus[r.jobid] = "running"
    BY <1>1 DEF CtlGood, NewCurrent
  <2>3. ~HasProcess(r.jobid)
    BY <1>1, <2>2, RowMachine DEF TableInv, ScheduledNotStarted, Current, HasProcess, Missed
  <2> QED
    BY <2>2, <2>3, RowMachine DEF Current
<1>6. RowAtHand(d)'
  <2>1. SUFFICES ASSUME cpc[d] \in AsListed PROVE RowAtHand(d)'
    BY DEF RowAtHand
  <2>2. RowOf(d, ccur[d]) /\ Current(ccur[d]) /\ JobOf(d)' = JobOf(d) /\ JobOf(d) \in Jobs
    BY <1>1, <2>1, RowMachine DEF CtlGood, RowAtHand, JobOf
  <2>3. RowOf(d, ccur[d])' /\ Current(ccur[d])'
    BY <1>3, <2>2 DEF RowOf, Current
  <2>4. ASSUME cpc[d] = "complete" PROVE (HasProcess(JobOf(d)) => Missed(JobOf(d)))'
    <3>1. /\ HasProcess(JobOf(d)) => Missed(JobOf(d))
          /\ mstatus[ccur[d].name] \in {"scheduled", "running"}
          /\ mjob[ccur[d].name] = JobOf(d) /\ ccur[d].name \in SiteMachines(SiteC(d))
      BY <1>1, <2>1, <2>2, <2>4, RowMachine DEF CtlGood, RowAtHand, Current, JobOf
    <3> QED
      BY <2>2, <3>1 DEF HasProcess, Missed, MissedStays
  <2> QED
    BY <1>1, <2>1, <2>2, <2>3, <2>4 DEF CtlGood, RowAtHand
<1>7. JobAtHand(d)'
  <2>1. SUFFICES ASSUME cpc[d] \in Marked PROVE JobAtHand(d)'
    BY DEF JobAtHand
  <2>2. RowOf(d, ccur[d]) /\ JobOf(d)' = JobOf(d) /\ JobOf(d) \in Jobs
    BY <1>1, <2>1, RowMachine DEF CtlGood, JobAtHand, JobOf
  <2>3. /\ mstatus[ccur[d].name] = "running" /\ mjob[ccur[d].name] = JobOf(d)
        /\ ~HasProcess(JobOf(d))
    BY <1>1, <2>1 DEF CtlGood, JobAtHand, HasProcess, Missed
  <2>4. ccur[d].name \in SiteMachines(SiteC(d)) /\ Busy(ccur[d].name)
    BY <2>2, <2>3, RowMachine DEF Busy
  <2>5. RowOf(d, ccur[d])'
    BY <1>3, <2>2 DEF RowOf
  <2> QED
    BY <1>1, <2>1, <2>2, <2>3, <2>4, <2>5 DEF CtlGood, JobAtHand
<1> QED
  BY <1>2, <1>4, <1>5, <1>6, <1>7 DEF CtlGood

-----------------------------------------------------------------------------
(***************************************************************************)
(* The scheduler.                                                          *)
(***************************************************************************)
\* While a run goes on, or begins, no other run is under way.
LEMMA OneRun ==
  ASSUME IInv, NEW s \in Schedulers, NEW t \in Schedulers, t # s,
         spc[s] # "off" \/ schedLock = NoSched
  PROVE  spc[t] = "off"
  BY MarkerAssumption DEF IInv, SchedInv, SchedGood, LockHeld

\* A run that is not under way needs nothing.
LEMMA OffRunGood ==
  ASSUME NEW t \in Schedulers, spc'[t] = "off"
  PROVE  SchedGood(t)'
  BY DEF SchedGood, LockHeld, SiteAtHand, AvailIdle, QueueNew, ChoiceGood, Recorded,
         HasList, HasQueue, HasJob

\* A scheduler run changes nothing that controllers count on, as long as it
\* leaves busy machines and jobs that are not new alone.
LEMMA ControllersKept ==
  ASSUME IInv, UNCHANGED ctlVars,
         \A m \in Machines : Busy(m) => mstatus'[m] = mstatus[m] /\ mjob'[m] = mjob[m],
         \A j \in Jobs : jstatus[j] # "new" => jstatus'[j] = jstatus[j],
         UNCHANGED <<removed, proc, resdir>>
  PROVE  CtlInv'
<1> SUFFICES ASSUME NEW d \in Ctrls PROVE CtlKept(d)
  BY CtlFrame DEF CtlInv
<1>1. ASSUME NEW m \in SiteMachines(SiteC(d)), NEW j \in Jobs,
             mjob[m] = j, mstatus[m] \in {"scheduled", "running"}
      PROVE  jstatus[j] # "new"
  BY <1>1 DEF IInv, TableInv, BusyInItsPlace, Busy, SiteMachines
<1> QED
  BY <1>1 DEF CtlKept, ctlVars, SiteMachines, MissedStays, HasProcess, Missed

\* A selection for a job is made of idle machines, none of them twice.
LEMMA SelectionIsIdle ==
  ASSUME IInv, NEW s \in Schedulers, spc[s] = "pick", NEW j \in Jobs,
         NEW a \in Selections(j, savail[s])
  PROVE  Proper(a) /\ \A m \in Members(a) : ~Busy(m)
<1>1. /\ savail[s] \subseteq Machines /\ jmach[j] \in Placement
      /\ \A m \in savail[s] : ~Busy(m)
      /\ jmach[j].prim \notin jmach[j].rest
  BY DEF IInv, TypeOK, SchedTypeOK, FleetTypeOK, SchedInv, SchedGood, AvailIdle, HasList,
         TableInv, ListsProper, Proper
<1>2. CASE jmach[j].prim = NoMachine
  BY <1>1, <1>2 DEF Selections, OtherChoices, Proper, Members
<1>3. CASE jmach[j].prim # NoMachine
  <2>1. PICK b \in NamedChoices(j, savail[s]) \X SUBSET savail[s] :
          /\ a = [prim |-> jmach[j].prim, rest |-> b[1] \cup b[2]]
          /\ b[2] \in OtherChoices(SiteOf[jmach[j].prim], savail[s],
                                   {jmach[j].prim} \cup b[1], Need[j] - 1 - Cardinality(b[1]))
    BY <1>3 DEF Selections
  <2> DEFINE pool == savail[s] \cup LeasedFor(j)
  <2>2. jmach[j].prim \in pool /\ b[1] \subseteq jmach[j].rest /\ b[1] \subseteq pool
    BY <2>1 DEF NamedChoices
  <2>3. \A m \in pool : ~Busy(m)
    BY <1>1 DEF LeasedFor
  <2>4. jmach[j].prim \notin b[2] /\ b[2] \subseteq savail[s]
    BY <2>1 DEF OtherChoices
  <2>5. Members(a) \subseteq {jmach[j].prim} \cup b[1] \cup b[2]
    BY <2>1 DEF Members
  <2> QED
    BY <1>1, <2>1, <2>2, <2>3, <2>4, <2>5 DEF Proper
<1> QED
  BY <1>2, <1>3

\* The UPDATEs of schedule_on: with the table lock held they find every
\* machine of the selection idle.
LEMMA AssignPreserves ==
  ASSUME IInv, NEW s \in Schedulers, ScAssign(s), UNCHANGED ctlVars, TypeOK'
  PROVE  TableInv' /\ SchedGood(s)' /\ CtlInv'
<1> DEFINE j == sjob[s]
           a == ssel[s]
<1> USE DEF Busy, HasProcess, Missed
<1>1. FleetTypeOK /\ SchedTypeOK /\ TableInv /\ SchedGood(s)
  BY DEF IInv, TypeOK, SchedInv
<1>2. /\ j \in Jobs /\ jstatus[j] = "new" /\ j \notin squeue[s] /\ jmach[j] = a
      /\ a \in Placement /\ a.prim \in Machines /\ a.rest \subseteq Machines
      /\ a.prim \notin a.rest
      /\ \A m \in Members(a) : mstatus[m] = "idle"
      /\ proc[j] = "none" /\ j \notin resdir
  BY <1>1 DEF ScAssign, SchedGood, ChoiceGood, HasJob, Recorded, Proper, Placement,
              SchedTypeOK, TableInv, UnscheduledNotStarted
<1>3. Members(a) = {a.prim} \cup a.rest
  BY <1>2, FleetAssumption DEF Members
<1>4. \A m \in Machines :
        /\ m \notin Members(a) => mstatus'[m] = mstatus[m] /\ mjob'[m] = mjob[m]
        /\ m \in Members(a) => mjob'[m] = j
        /\ m = a.prim => mstatus'[m] = "scheduled"
        /\ m \in a.rest => mstatus'[m] = "slaved"
  BY <1>2, <1>3 DEF ScAssign, AssignedStatus
<1>5. /\ jstatus'[j] = "running"
      /\ \A k \in Jobs : k # j => jstatus'[k] = jstatus[k]
      /\ UNCHANGED <<jmach, removed, proc, resdir>>
  BY <1>1, <1>2 DEF ScAssign, MarkRunning, FleetTypeOK, hostVars
<1>6. \A m \in Machines : mstatus[m] # "idle" =>
        mstatus'[m] = mstatus[m] /\ mjob'[m] = mjob[m]
  BY <1>2, <1>4
<1> HIDE DEF j, a
<1>7. ListsProper' /\ UnscheduledNotStarted'
  BY <1>1, <1>2, <1>5 DEF TableInv, ListsProper, UnscheduledNotStarted
<1>8. RunningJobHoldsMachines'
  <2> SUFFICES ASSUME NEW k \in Jobs, jstatus'[k] = "running"
               PROVE  /\ jmach[k].prim \in Machines
                      /\ mstatus'[jmach[k].prim] \in {"scheduled", "running"}
                      /\ \A m \in jmach[k].rest : mstatus'[m] = "slaved"
                      /\ \A m \in MachinesOf(k) : mjob'[m] = k
    BY <1>5 DEF RunningJobHoldsMachines, MachinesOf
  <2>1. CASE k = j
    BY <1>2, <1>3, <1>4, <2>1 DEF MachinesOf
  <2>2. CASE k # j
    <3>1. /\ jmach[k].prim \in Machines
          /\ mstatus[jmach[k].prim] \in {"scheduled", "running"}
          /\ \A m \in jmach[k].rest : mstatus[m] = "slaved"
          /\ \A m \in MachinesOf(k) : mjob[m] = k
      BY <1>1, <1>5, <2>2 DEF TableInv, RunningJobHoldsMachines
    <3>2. jmach[k].rest \subseteq Machines
      BY <1>1 DEF FleetTypeOK, Placement
    <3>3. \A m \in MachinesOf(k) : m \in Machines /\ mstatus[m] # "idle"
      BY <3>1, <3>2 DEF MachinesOf, Members
    <3> QED
      BY <1>6, <3>1, <3>2, <3>3
  <2> QED
    BY <2>1, <2>2
<1>9. BusyInItsPlace' /\ ScheduledNotStarted'
  <2> SUFFICES ASSUME NEW m \in Machines, mstatus'[m] # "idle"
               PROVE  /\ mjob'[m] \in Jobs
                      /\ jstatus'[mjob'[m]] \in {"running", "done"}
                      /\ mstatus'[m] \in {"scheduled", "running"} => m = jmach[mjob'[m]].prim
                      /\ mstatus'[m] = "slaved" => m \in jmach[mjob'[m]].rest
                      /\ mstatus'[m] = "scheduled" =>
                           /\ proc[mjob'[m]] = "none"
                           /\ mjob'[m] \notin resdir
                           /\ jstatus'[mjob'[m]] = "done" => mjob'[m] \in removed
    BY <1>5 DEF BusyInItsPlace, ScheduledNotStarted
  <2>1. CASE m \in Members(a)
    BY <1>2, <1>3, <1>4, <1>5, <2>1
  <2>2. CASE m \notin Members(a)
    BY <1>1, <1>2, <1>4, <1>5, <2>2 DEF TableInv, BusyInItsPlace, ScheduledNotStarted
  <2> QED
    BY <2>1, <2>2
<1>10. HarnessOfRunningJob'
  BY <1>1, <1>2, <1>5 DEF TableInv, HarnessOfRunningJob
<1>11. CtlInv'
  BY <1>2, <1>5, <1>6, ControllersKept
<1>12. SchedGood(s)'
  <2>1. spc'[s] = "pick" /\ schedLock' = schedLock /\ squeue' = squeue
        /\ savail'[s] \subseteq savail[s] \ Members(a)
    BY <1>1 DEF ScAssign, Goto, SchedTypeOK, a
  <2>2. LockHeld(s)' /\ SiteAtHand(s)' /\ ChoiceGood(s)' /\ Recorded(s)'
    BY <1>1, <2>1 DEF SchedGood, LockHeld, SiteAtHand, ChoiceGood, Recorded, HasJob, ScAssign
  <2>3. AvailIdle(s)'
    BY <1>1, <1>4, <2>1 DEF SchedGood, AvailIdle, HasList, SchedTypeOK, ScAssign
  <2>4. QueueNew(s)'
    BY <1>1, <1>2, <1>5, <2>1 DEF SchedGood, QueueNew, HasQueue, SchedTypeOK, ScAssign
  <2> QED
    BY <2>2, <2>3, <2>4 DEF SchedGood
<1> QED
  BY <1>7, <1>8, <1>9, <1>10, <1>11, <1>12 DEF TableInv

\* Every step of the scheduler keeps the invariant.
LEMMA SchedulerPreserves ==
  ASSUME IInv, SchedulerStep
  PROVE  IInv'
<1>1. TypeOK'
  BY SchedulerTypes
<1>2. FleetTypeOK /\ SchedTypeOK /\ TableInv
  BY DEF IInv, TypeOK
<1>3. PICK s \in Schedulers : ScStart(s) \/ ScRun(s) \/ ScCrash(s)
  BY DEF SchedulerStep, SchedulerNext
<1>4. SchedGood(s) /\ UNCHANGED ctlVars
  BY DEF IInv, SchedInv, SchedulerStep
<1>5. \A t \in Schedulers \ {s} : spc[t] = "off"
  BY <1>3, OneRun
    DEF ScStart, GetLock, ScRun, ScCrash, ScCountRunning, ScCountScheduled, ScFindExpired,
        ScClearExpired, ScListMachines, ScReadJobs, ScSelect, ScPass, ScRecord, ScAssign, ScEnd
<1>6. \A t \in Schedulers \ {s} : spc'[t] = spc[t]
  BY <1>2, <1>3
    DEF SchedTypeOK, Goto, Forget, ScStart, ScRun, ScCrash, ScCountRunning, ScCountScheduled,
        ScFindExpired, ScClearExpired, ScListMachines, ScReadJobs, ScSelect, ScPass,
        ScRecord, ScAssign, ScEnd
<1>7. ASSUME SchedGood(s)' PROVE SchedInv'
  BY <1>5, <1>6, <1>7, OffRunGood DEF SchedInv
<1>f. ASSUME UNCHANGED <<mstatus, mjob, jobVars, resdir, proc>> PROVE TableInv' /\ CtlInv'
  BY <1>4, <1>f, TableFrame, ControllersKept DEF TableKept, jobVars
<1>g. ASSUME spc'[s] = "off" PROVE SchedGood(s)'
  BY <1>g, OffRunGood
<1>u. ASSUME UNCHANGED fleetVars PROVE TableInv' /\ CtlInv'
  BY <1>f, <1>u DEF fleetVars, machineVars, hostVars
<1> USE DEF SchedGood, LockHeld, SiteAtHand, AvailIdle, QueueNew, ChoiceGood, Recorded,
            HasList, HasQueue, HasJob, Goto, SchedTypeOK
<1>s. SUFFICES SchedGood(s)' /\ TableInv' /\ CtlInv'
  BY <1>1, <1>7 DEF IInv
<1>a. CASE ScStart(s)
  BY <1>2, <1>u, <1>a DEF ScStart
<1>b. CASE ScCountRunning(s)
  BY <1>2, <1>4, <1>u, <1>b DEF ScCountRunning
<1>c. CASE ScCountScheduled(s)
  BY <1>2, <1>4, <1>u, <1>c DEF ScCountScheduled
<1>d. CASE ScFindExpired(s)
  BY <1>2, <1>4, <1>u, <1>d DEF ScFindExpired
<1>e. CASE ScClearExpired(s)
  BY <1>2, <1>4, <1>f, <1>e DEF ScClearExpired, machineVars, hostVars
<1>h. CASE ScListMachines(s)
  <2>1. \A m \in savail'[s] : m \in Machines /\ ~Busy(m)
    BY <1>2, <1>h DEF ScListMachines
  <2> QED
    BY <1>2, <1>4, <1>u, <1>h, <2>1
      DEF ScListMachines, Busy, fleetVars, machineVars
<1>i. CASE ScReadJobs(s)
  BY <1>2, <1>4, <1>u, <1>i DEF ScReadJobs, Busy, fleetVars, machineVars, jobVars
<1>j. CASE ScSelect(s)
  <2>0. PICK j \in squeue[s] : \E a \in Selections(j, savail[s]) :
          /\ sjob' = [sjob EXCEPT ![s] = j]
          /\ ssel' = [ssel EXCEPT ![s] = a]
          /\ squeue' = [squeue EXCEPT ![s] = @ \ {j}]
    BY <1>j DEF ScSelect
  <2>1. PICK a \in Selections(j, savail[s]) :
          /\ sjob' = [sjob EXCEPT ![s] = j]
          /\ ssel' = [ssel EXCEPT ![s] = a]
          /\ squeue' = [squeue EXCEPT ![s] = @ \ {j}]
    BY <2>0
  <2>2. j \in Jobs /\ jstatus[j] = "new"
    BY <1>2, <1>4, <1>j DEF ScSelect
  <2>3. a \in Placement /\ a.prim \in Machines
    BY <2>2, SelectionIsPlacement DEF IInv
  <2>4. Proper(a) /\ \A m \in Members(a) : ~Busy(m)
    BY <1>j, <2>2, SelectionIsIdle DEF ScSelect
  <2>5. /\ spc'[s] = "record" /\ sjob'[s] = j /\ ssel'[s] = a
        /\ squeue'[s] = squeue[s] \ {j}
        /\ UNCHANGED <<schedLock, savail, mstatus, jstatus>>
    BY <1>2, <1>j, <2>1 DEF ScSelect, fleetVars, machineVars, jobVars
  <2>6. SchedGood(s)'
    BY <1>2, <1>4, <1>j, <2>2, <2>3, <2>4, <2>5 DEF ScSelect, Busy
  <2> QED
    BY <1>u, <1>j, <2>6 DEF ScSelect
<1>k. CASE ScPass(s)
  BY <1>2, <1>4, <1>u, <1>k DEF ScPass, Busy, fleetVars, machineVars, jobVars
<1>l. CASE ScRecord(s)
  <2> DEFINE j == sjob[s]
  <2>1. /\ j \in Jobs /\ jstatus[j] = "new" /\ Proper(ssel[s])
        /\ jmach' = [jmach EXCEPT ![j] = ssel[s]]
        /\ UNCHANGED <<mstatus, mjob, jstatus, removed, proc, resdir>>
    BY <1>4, <1>l DEF ScRecord, machineVars, hostVars
  <2>2. CtlInv'
    BY <1>4, <2>1, ControllersKept DEF Busy
  <2>3. TableInv'
    BY <1>2, <2>1
      DEF TableInv, ListsProper, RunningJobHoldsMachines, BusyInItsPlace,
          UnscheduledNotStarted, ScheduledNotStarted, HarnessOfRunningJob, Busy, HasProcess, Missed,
          MachinesOf, FleetTypeOK
  <2>4. SchedGood(s)'
    BY <1>2, <1>4, <1>l, <2>1 DEF ScRecord, Busy, FleetTypeOK
  <2> QED
    BY <2>2, <2>3, <2>4
<1>m. CASE ScAssign(s)
  BY <1>1, <1>4, <1>m, AssignPreserves
<1>n. CASE ScEnd(s)
  BY <1>2, <1>u, <1>g, <1>n DEF ScEnd, Forget
<1>o. CASE ScCrash(s)
  BY <1>2, <1>f, <1>g, <1>o DEF ScCrash, CountCrash, Forget, machineVars
<1> QED
  BY <1>3, <1>a, <1>b, <1>c, <1>d, <1>e, <1>h, <1>i, <1>j, <1>k, <1>l, <1>m, <1>n, <1>o
    DEF ScRun

-----------------------------------------------------------------------------
(***************************************************************************)
(* The controllers.                                                        *)
(***************************************************************************)
\* What one controller process has of its own.
OwnKept(d) ==
  /\ cpc'[d] = cpc[d] /\ ctodo'[d] = ctodo[d] /\ ccur'[d] = ccur[d]
  /\ cseen'[d] = cseen[d] /\ cnew'[d] = cnew[d] /\ cmay'[d] = cmay[d]

\* A step of controller c that leaves the machines of other sites alone and
\* the jobs that are scheduled or running there.
SiteLocal(c) ==
  /\ \A m \in Machines : (SiteOf[m] # SiteC(c) /\ Busy(m)) =>
       mstatus'[m] = mstatus[m] /\ mjob'[m] = mjob[m]
  /\ \A j \in Jobs : jstatus[j] = "done" => jstatus'[j] = "done"
  /\ removed \subseteq removed'
  /\ MissedStays
  /\ \A m \in Machines :
       (SiteOf[m] # SiteC(c) /\ mstatus[m] \in {"scheduled", "running"}) =>
         /\ jstatus'[mjob[m]] = jstatus[mjob[m]]
         /\ proc'[mjob[m]] = proc[mjob[m]]
         /\ mjob[m] \in resdir' => mjob[m] \in resdir

\* A step that does not disturb the scheduler.
RunsUndisturbed ==
  /\ UNCHANGED jmach
  /\ \A m \in Machines : ~Busy(m) => ~Busy(m)'
  /\ \A j \in Jobs : jstatus[j] = "new" => jstatus'[j] = "new"

\* Only one run is under way at a site: the one the pid file names.
LEMMA OneRunPerSite ==
  ASSUME IInv, NEW c \in Ctrls, NEW d \in Ctrls, d # c, cpc[d] # "off",
         cpc[c] # "off" \/ PidFileFree(c)
  PROVE  SiteC(d) # SiteC(c)
  BY ControllerAssumption DEF IInv, CtlInv, CtlGood, PidFileHeld, PidFileFree

\* Two current rows for one machine are the same row.
LEMMA SameName ==
  ASSUME NEW r \in Row, NEW q \in Row, Current(r), Current(q), r.name = q.name
  PROVE  r = q
  BY DEF Row, Current

\* Machine m is where job j of a machine marked scheduled or running has its
\* first machine, so no other machine is scheduled or running for j.
LEMMA FirstMachine ==
  ASSUME IInv, NEW m \in Machines, NEW n \in Machines, mjob[m] = mjob[n],
         mstatus[m] \in {"scheduled", "running"}, mstatus[n] \in {"scheduled", "running"}
  PROVE  m = n
  BY DEF IInv, TableInv, BusyInItsPlace, Busy

\* A controller that stays off needs nothing, and one at another site keeps
\* what it needs when the step leaves the machines and the jobs of its site
\* alone.
LEMMA OtherControllersKept ==
  ASSUME IInv, NEW c \in Ctrls, cpc[c] # "off" \/ PidFileFree(c),
         \A d \in Ctrls \ {c} : OwnKept(d),
         \A site \in Sites : site # SiteC(c) => pidfile'[site] = pidfile[site],
         SiteLocal(c)
  PROVE  \A d \in Ctrls \ {c} : CtlGood(d)'
<1> SUFFICES ASSUME NEW d \in Ctrls, d # c PROVE CtlGood(d)'
  OBVIOUS
<1>1. SiteC(d) \in Sites
  BY ControllerAssumption DEF SiteC
<1>2. CASE cpc[d] = "off"
  <2>1. CtlGood(d)
    BY DEF IInv, CtlInv
  <2>2. cpc'[d] = "off" /\ ctodo'[d] = {} /\ cnew'[d] = {}
    BY <1>2, <2>1 DEF CtlGood, OffEmpty, OwnKept
  <2> QED
    BY <2>2 DEF CtlGood, PidFileHeld, OffEmpty, TodoCurrent, NewCurrent, RowAtHand,
                JobAtHand, PidAtHand, MayAtHand, AsListed, Marked
<1>3. CASE cpc[d] # "off"
  <2>1. SiteC(d) # SiteC(c)
    BY <1>3, OneRunPerSite
  <2>2. CtlKept(d)
    BY <1>1, <2>1 DEF CtlKept, OwnKept, SiteLocal, SiteMachines
  <2> QED
    BY <2>2, CtlFrame
<1> QED
  BY <1>2, <1>3

\* Scheduler runs are not disturbed as long as idle machines, new jobs and
\* the lists of the jobs are left alone.
LEMMA RunsKept ==
  ASSUME IInv, UNCHANGED schedVars, RunsUndisturbed
  PROVE  SchedInv'
  BY RunFrame DEF SchedInv, RunKept, RunsUndisturbed, schedVars

\* The row at hand, the job and the machine it names.
LEMMA AtHand ==
  ASSUME IInv, NEW c \in Ctrls, cpc[c] \in AsListed \cup Marked
  PROVE  /\ ccur[c] \in Row /\ JobOf(c) = ccur[c].jobid /\ JobOf(c) \in Jobs
         /\ ccur[c].name \in Machines /\ SiteOf[ccur[c].name] = SiteC(c)
         /\ mjob[ccur[c].name] = JobOf(c) /\ Busy(ccur[c].name)
         /\ jstatus[JobOf(c)] \in {"running", "done"}
<1>1. RowOf(c, ccur[c]) /\ mjob[ccur[c].name] = JobOf(c) /\ Busy(ccur[c].name)
  BY DEF IInv, CtlInv, CtlGood, RowAtHand, JobAtHand, RowOf, Current, JobOf, Busy
<1>2. ccur[c].name \in Machines /\ ccur[c] \in Row
  BY <1>1, RowMachine
<1> QED
  BY <1>1, <1>2 DEF IInv, TableInv, BusyInItsPlace, JobOf, Row, RowOf

\* The jobs started or ended by a controller are not those of other sites'
\* machines.
LEMMA JobOfThisSite ==
  ASSUME IInv, NEW c \in Ctrls, cpc[c] \in AsListed \cup Marked,
         mstatus[ccur[c].name] \in {"scheduled", "running"},
         NEW m \in Machines, m # ccur[c].name, mstatus[m] \in {"scheduled", "running"}
  PROVE  mjob[m] # JobOf(c)
  BY AtHand, FirstMachine

\* The rows a controller has yet to start belong to other jobs than the one
\* at hand.
LEMMA NewRowsApart ==
  ASSUME IInv, NEW c \in Ctrls, cpc[c] \in AsListed \cup Marked,
         mstatus[ccur[c].name] \in {"scheduled", "running"}, NEW q \in cnew[c]
  PROVE  q.jobid # JobOf(c)
<1>1. RowOf(c, q) /\ Current(q) /\ q.rawstatus = "scheduled"
  BY DEF IInv, CtlInv, CtlGood, NewCurrent
<1>2. ASSUME q.jobid = JobOf(c) PROVE FALSE
  <2>1. q.name = ccur[c].name
    BY <1>1, <1>2, RowMachine, JobOfThisSite DEF Current
  <2>2. cpc[c] \notin Marked
    BY <1>1, <2>1 DEF IInv, CtlInv, CtlGood, JobAtHand, Current
  <2>3. Current(ccur[c]) /\ ccur[c] \notin cnew[c]
    BY <2>2 DEF IInv, CtlInv, CtlGood, RowAtHand
  <2>4. ccur[c] = q
    BY <1>1, <2>1, <2>3, AtHand, RowMachine, SameName
  <2> QED
    BY <2>3, <2>4
<1> QED
  BY <1>2

-----------------------------------------------------------------------------
(***************************************************************************)
(* The actions of a controller that change machines or jobs.               *)
(***************************************************************************)
\* Killing the processes of a removed job.
LEMMA KillPreserves ==
  ASSUME IInv, NEW c \in Ctrls, CtlKill(c)
  PROVE  TableInv' /\ RunsUndisturbed /\ SiteLocal(c) /\ CtlGood(c)'
<1> DEFINE j == JobOf(c)
<1>1. FleetTypeOK /\ CtlTypeOK /\ TableInv /\ CtlGood(c) /\ cpc[c] = "kill"
  BY DEF IInv, TypeOK, CtlInv, CtlKill
<1>2. /\ j \in Jobs /\ j \in removed /\ ccur[c] \in Row
      /\ Current(ccur[c]) /\ RowOf(c, ccur[c]) /\ ccur[c].rawstatus = "running"
  BY <1>1, AtHand DEF CtlGood, RowAtHand, AsListed
<1>3. /\ UNCHANGED <<mstatus, mjob, jstatus, jmach, removed, resdir>>
      /\ \A k \in Jobs : /\ k # j => proc'[k] = proc[k]
                         /\ proc[k] = "none" <=> proc'[k] = "none"
                         /\ HasProcess(k)' => HasProcess(k)
                         /\ Missed(k)' => Missed(k) \/ k = j
      /\ proc'[j] \in {"none", "missed", "exited"}
      /\ MissedStays
  <2>1. /\ UNCHANGED <<mstatus, mjob, jstatus, jmach, removed, resdir>>
        /\ proc'[j] = Killed(j)
        /\ \A k \in Jobs : k # j => proc'[k] = proc[k]
    BY <1>1, <1>2 DEF CtlKill, FleetTypeOK, machineVars, jobVars
  <2> HIDE DEF j
  <2>2. /\ proc'[j] = "none" <=> proc[j] = "none"
        /\ proc'[j] \in {"none", "missed", "exited"}
        /\ proc'[j] \in {"missed", "stray"} => proc[j] \in {"starting", "missed"}
        /\ proc[j] \in {"none", "exited"} => proc'[j] = proc[j]
        /\ proc[j] = "missed" => proc'[j] = "missed"
        /\ proc[j] = "stray" => proc'[j] = "exited"
    BY <1>1, <1>2, <2>1 DEF Killed, Live, FleetTypeOK, ProcState
  <2> QED
    BY <2>1, <2>2 DEF HasProcess, Missed, MissedStays
<1>4. TableInv'
  <2>1. /\ ListsProper' /\ RunningJobHoldsMachines' /\ BusyInItsPlace'
        /\ UnscheduledNotStarted' /\ ScheduledNotStarted'
    BY <1>1, <1>3 DEF TableInv, ListsProper, RunningJobHoldsMachines, BusyInItsPlace,
         UnscheduledNotStarted, ScheduledNotStarted, Busy, MachinesOf
  <2>2. HarnessOfRunningJob'
    BY <1>1, <1>2, <1>3 DEF TableInv, HarnessOfRunningJob, MissedStays
  <2> QED
    BY <2>1, <2>2 DEF TableInv
<1>5. SiteLocal(c)
  <2>1. \A m \in Machines : SiteOf[m] # SiteC(c) => m # ccur[c].name
    BY <1>2 DEF RowOf
  <2>2. \A m \in Machines : (SiteOf[m] # SiteC(c) /\ mstatus[m] \in {"scheduled", "running"})
                             => mjob[m] # j /\ mjob[m] \in Jobs
    BY <1>1, <1>2, <2>1, JobOfThisSite
      DEF AsListed, Current, TableInv, BusyInItsPlace, Busy
  <2> QED
    BY <1>3, <2>2 DEF SiteLocal
<1>6. CtlGood(c)'
  <2>1. /\ cpc'[c] = "complete" /\ pidfile' = pidfile /\ ctodo' = ctodo /\ cnew' = cnew
        /\ ccur' = ccur /\ cseen' = cseen /\ JobOf(c)' = j
    BY <1>1 DEF CtlKill, GoOn, CGoto, CtlTypeOK, JobOf
  <2>2. RowAtHand(c)'
    BY <1>1, <1>2, <1>3, <2>1 DEF CtlGood, RowAtHand, AsListed, RowOf, Current, HasProcess, Missed
  <2>3. TodoCurrent(c)' /\ NewCurrent(c)'
    BY <1>1, <1>3, <2>1 DEF CtlGood, TodoCurrent, NewCurrent, RowOf, Current
  <2> QED
    BY <1>1, <2>1, <2>2, <2>3
      DEF CtlGood, PidFileHeld, OffEmpty, JobAtHand, PidAtHand, MayAtHand, Marked
<1> QED
  BY <1>3, <1>4, <1>5, <1>6 DEF RunsUndisturbed, Busy

\* Completing a removed job that has no process any more, or the job that
\* could not be set up; the machines stay busy until they are freed.
LEMMA CompletePreserves ==
  ASSUME IInv, NEW c \in Ctrls, CtlComplete(c) \/ CtlFail(c)
  PROVE  TableInv' /\ RunsUndisturbed /\ SiteLocal(c) /\ CtlGood(c)'
<1> DEFINE j == JobOf(c)
<1>1. /\ FleetTypeOK /\ CtlTypeOK /\ TableInv /\ CtlGood(c)
      /\ cpc[c] \in {"complete", "fail"}
  BY DEF IInv, TypeOK, CtlInv, CtlComplete, CtlFail
<1>2. /\ cpc[c] \in AsListed \cup Marked
      /\ j \in Jobs /\ ccur[c] \in Row /\ (HasProcess(j) => Missed(j))
      /\ jstatus[j] \in {"running", "done"}
      /\ RowOf(c, ccur[c]) /\ mstatus[ccur[c].name] \in {"scheduled", "running"}
      /\ mstatus[ccur[c].name] = "scheduled" => j \in removed
      /\ mjob[ccur[c].name] = j /\ ccur[c].name \in Machines
  BY <1>1, AtHand DEF CtlGood, RowAtHand, JobAtHand, AsListed, Marked, Current, HasProcess, Missed
<1>3. /\ UNCHANGED <<mstatus, mjob, jmach, removed, proc, resdir>>
      /\ jstatus'[j] = "done"
      /\ \A k \in Jobs : k # j => jstatus'[k] = jstatus[k]
  BY <1>1, <1>2
    DEF CtlComplete, CtlFail, CompleteJob, FleetTypeOK, machineVars, hostVars
<1>4. \A m \in Machines : (mstatus[m] \in {"scheduled", "running"} /\ mjob[m] = j)
                          => m = ccur[c].name
  BY <1>2, JobOfThisSite
<1>5. TableInv'
  <2>1. ListsProper' /\ RunningJobHoldsMachines' /\ UnscheduledNotStarted'
        /\ HarnessOfRunningJob'
    BY <1>1, <1>2, <1>3 DEF TableInv, ListsProper, RunningJobHoldsMachines,
         UnscheduledNotStarted, HarnessOfRunningJob, HasProcess, Missed, MachinesOf
  <2>2. BusyInItsPlace'
    BY <1>1, <1>3 DEF TableInv, BusyInItsPlace, Busy
  <2>3. ScheduledNotStarted'
    BY <1>1, <1>2, <1>3, <1>4 DEF TableInv, ScheduledNotStarted, BusyInItsPlace, Busy
  <2> QED
    BY <2>1, <2>2, <2>3 DEF TableInv
<1>6. SiteLocal(c)
  <2>1. \A m \in Machines : (SiteOf[m] # SiteC(c) /\ mstatus[m] \in {"scheduled", "running"})
                             => mjob[m] # j /\ mjob[m] \in Jobs
    BY <1>1, <1>2, <1>4 DEF RowOf, TableInv, BusyInItsPlace, Busy
  <2> QED
    BY <1>3, <2>1 DEF SiteLocal, MissedStays, HasProcess, Missed
<1>7. TodoCurrent(c)' /\ NewCurrent(c)'
  <2>1. /\ ctodo' = ctodo /\ cnew' = cnew
    BY DEF CtlComplete, CtlFail
  <2>2. \A q \in cnew[c] : q.jobid # j /\ q.jobid \in Jobs
    BY <1>1, <1>2, NewRowsApart, RowMachine DEF CtlGood, NewCurrent
  <2> QED
    BY <1>1, <1>3, <2>1, <2>2 DEF CtlGood, TodoCurrent, NewCurrent, RowOf, Current
<1>8. CASE CtlComplete(c)
  <2>1. /\ cpc[c] = "complete" /\ cpc'[c] = "free" /\ pidfile' = pidfile
        /\ ctodo' = ctodo /\ cnew' = cnew
        /\ ccur' = ccur /\ cseen' = cseen /\ JobOf(c)' = j
    BY <1>1, <1>8 DEF CtlComplete, GoOn, CGoto, CtlTypeOK, JobOf
  <2>2. RowAtHand(c)'
    BY <1>1, <1>3, <2>1 DEF CtlGood, RowAtHand, AsListed, RowOf, Current
  <2>3. CtlGood(c)'
    BY <1>1, <1>7, <2>1, <2>2
      DEF CtlGood, PidFileHeld, OffEmpty, JobAtHand, PidAtHand, MayAtHand, Marked
  <2> QED
    BY <1>2, <1>3, <1>5, <1>6, <2>3 DEF RunsUndisturbed, Busy
<1>9. CASE CtlFail(c)
  <2>1. cpc[c] = "fail" /\ cpc'[c] = "scan" /\ pidfile' = pidfile
    BY <1>1, <1>9 DEF CtlFail, Started, DoneWith, TakeUp, CGoto, CtlTypeOK
  <2>2. CtlGood(c)'
    BY <1>1, <1>7, <2>1 DEF CtlGood, PidFileHeld, OffEmpty, RowAtHand, JobAtHand,
         PidAtHand, MayAtHand, Marked, AsListed
  <2> QED
    BY <1>2, <1>3, <1>5, <1>6, <2>2 DEF RunsUndisturbed, Busy
<1> QED
  BY <1>8, <1>9

\* Making a machine idle: its job is over, so no job loses it.
LEMMA FreePreserves ==
  ASSUME IInv, NEW c \in Ctrls, CtlFree(c)
  PROVE  TableInv' /\ RunsUndisturbed /\ SiteLocal(c) /\ CtlGood(c)'
<1> DEFINE j == JobOf(c)
           n == ccur[c].name
<1>1. FleetTypeOK /\ CtlTypeOK /\ TableInv /\ CtlGood(c) /\ cpc[c] = "free"
  BY DEF IInv, TypeOK, CtlInv, CtlFree
<1>2. /\ j \in Jobs /\ n \in Machines /\ ccur[c] \in Row
      /\ RowOf(c, ccur[c]) /\ Current(ccur[c]) /\ ccur[c] \notin ctodo[c] \cup cnew[c]
      /\ mjob[n] = j /\ jstatus[j] = "done" /\ SiteOf[n] = SiteC(c)
  BY <1>1, AtHand DEF CtlGood, RowAtHand, AsListed
<1>3. /\ UNCHANGED <<mjob, jstatus, jmach, removed, proc, resdir>>
      /\ mstatus'[n] = "idle"
      /\ \A m \in Machines : m # n => mstatus'[m] = mstatus[m]
  BY <1>1, <1>2 DEF CtlFree, SetMachineStatus, jobVars, hostVars
<1> HIDE DEF j, n
<1>4. TableInv'
  <2>1. RunningJobHoldsMachines'
    <3> SUFFICES ASSUME NEW k \in Jobs, jstatus[k] = "running"
                 PROVE  /\ jmach[k].prim \in Machines
                        /\ mstatus'[jmach[k].prim] \in {"scheduled", "running"}
                        /\ \A m \in jmach[k].rest : mstatus'[m] = "slaved"
                        /\ \A m \in MachinesOf(k) : mjob[m] = k
      BY <1>3 DEF RunningJobHoldsMachines, MachinesOf
    <3>1. /\ jmach[k].prim \in Machines
          /\ mstatus[jmach[k].prim] \in {"scheduled", "running"}
          /\ \A m \in jmach[k].rest : mstatus[m] = "slaved"
          /\ \A m \in MachinesOf(k) : mjob[m] = k
      BY <1>1 DEF TableInv, RunningJobHoldsMachines
    <3>2. k # j
      BY <1>2
    <3>3. jmach[k].rest \subseteq Machines
      BY <1>1 DEF FleetTypeOK, Placement
    <3>4. n # jmach[k].prim /\ n \notin jmach[k].rest
      BY <1>2, <3>1, <3>2, <3>3, FleetAssumption DEF MachinesOf, Members
    <3> QED
      BY <1>3, <3>1, <3>3, <3>4
  <2>2. ListsProper' /\ UnscheduledNotStarted' /\ HarnessOfRunningJob'
    BY <1>1, <1>3 DEF TableInv, ListsProper, UnscheduledNotStarted, HarnessOfRunningJob, HasProcess, Missed
  <2>3. BusyInItsPlace' /\ ScheduledNotStarted'
    BY <1>1, <1>3 DEF TableInv, BusyInItsPlace, ScheduledNotStarted, Busy
  <2> QED
    BY <2>1, <2>2, <2>3 DEF TableInv
<1>5. SiteLocal(c)
  BY <1>2, <1>3 DEF SiteLocal, MissedStays, HasProcess, Missed
<1>6. RunsUndisturbed
  BY <1>3 DEF RunsUndisturbed, Busy
<1>7. TodoCurrent(c)' /\ NewCurrent(c)'
  <2>1. ctodo' = ctodo /\ cnew' = cnew
    BY DEF CtlFree
  <2>2. \A q \in ctodo[c] \cup cnew[c] : RowOf(c, q) /\ Current(q) /\ q.name # n
    BY <1>1, <1>2, RowMachine, SameName DEF CtlGood, TodoCurrent, NewCurrent, n
  <2>3. \A q \in ctodo[c] \cup cnew[c] : q.name \in Machines
    BY <2>2, RowMachine
  <2> QED
    BY <1>1, <1>3, <2>1, <2>2, <2>3 DEF CtlGood, TodoCurrent, NewCurrent, RowOf, Current
<1>8. cpc'[c] = "scan" /\ pidfile' = pidfile
  BY <1>1 DEF CtlFree, DoneWith, TakeUp, CGoto, CtlTypeOK
<1>9. CtlGood(c)'
  BY <1>1, <1>7, <1>8 DEF CtlGood, PidFileHeld, OffEmpty, RowAtHand, JobAtHand,
       PidAtHand, MayAtHand, Marked, AsListed
<1> QED
  BY <1>4, <1>5, <1>6, <1>9

\* Marking the scheduled machine of the next new job running.
LEMMA MarkPreserves ==
  ASSUME IInv, NEW c \in Ctrls, CtlMark(c)
  PROVE  TableInv' /\ RunsUndisturbed /\ SiteLocal(c) /\ CtlGood(c)'
<1>1. /\ FleetTypeOK /\ CtlTypeOK /\ TableInv /\ CtlGood(c)
      /\ cpc[c] = "scan" /\ ctodo[c] = {} /\ cmay[c] > 0
  BY DEF IInv, TypeOK, CtlInv, CtlMark, Scanned, MayStart
<1>2. PICK r \in cnew[c] :
        /\ SetMachineStatus({q.name : q \in Group(c, r)}, "running")
        /\ cnew' = [cnew EXCEPT ![c] = @ \ Group(c, r)]
        /\ TakeUp(c, r, {}, "launch")
  BY DEF CtlMark
<1> DEFINE marked == {q.name : q \in Group(c, r)}
           j == r.jobid
<1>3. \A q \in cnew[c] : /\ RowOf(c, q) /\ Current(q) /\ q.rawstatus = "scheduled"
                        /\ jstatus[q.jobid] = "running" /\ q \in Row
                        /\ q.name \in Machines /\ q.jobid \in Jobs
  BY <1>1, RowMachine DEF CtlGood, NewCurrent
<1>4. r \in Group(c, r) /\ Group(c, r) \subseteq cnew[c] /\ r.name \in marked
  BY DEF Group
<1>5. \A m \in marked : mstatus[m] = "scheduled" /\ SiteOf[m] = SiteC(c) /\ m \in Machines
  BY <1>3, <1>4 DEF RowOf, Current
<1>6. /\ UNCHANGED <<mjob, jstatus, jmach, removed, proc, resdir>>
      /\ \A m \in Machines : /\ m \in marked => mstatus'[m] = "running"
                             /\ m \notin marked => mstatus'[m] = mstatus[m]
  BY <1>2 DEF CtlMark, SetMachineStatus, jobVars, hostVars
<1>7. /\ cpc'[c] = "launch" /\ pidfile' = pidfile /\ ctodo'[c] = {} /\ cmay' = cmay
      /\ ccur'[c] = r /\ JobOf(c)' = j /\ cnew'[c] = cnew[c] \ Group(c, r)
  BY <1>1, <1>2 DEF CtlMark, TakeUp, CGoto, CtlTypeOK, JobOf
<1>8. j \in Jobs /\ proc[j] = "none" /\ j \notin resdir /\ jstatus[j] = "running"
      /\ mjob[r.name] = j
  BY <1>1, <1>3 DEF TableInv, ScheduledNotStarted, Current
<1> HIDE DEF marked, j
<1>9. TableInv'
  <2>1. RunningJobHoldsMachines'
    <3> SUFFICES ASSUME NEW k \in Jobs, jstatus[k] = "running"
                 PROVE  /\ jmach[k].prim \in Machines
                        /\ mstatus'[jmach[k].prim] \in {"scheduled", "running"}
                        /\ \A m \in jmach[k].rest : mstatus'[m] = "slaved"
                        /\ \A m \in MachinesOf(k) : mjob[m] = k
      BY <1>6 DEF RunningJobHoldsMachines, MachinesOf
    <3>1. /\ jmach[k].prim \in Machines
          /\ mstatus[jmach[k].prim] \in {"scheduled", "running"}
          /\ \A m \in jmach[k].rest : mstatus[m] = "slaved"
          /\ \A m \in MachinesOf(k) : mjob[m] = k
      BY <1>1 DEF TableInv, RunningJobHoldsMachines
    <3>2. jmach[k].rest \subseteq Machines
      BY <1>1 DEF FleetTypeOK, Placement
    <3> QED
      BY <1>5, <1>6, <3>1, <3>2
  <2>2. ListsProper' /\ UnscheduledNotStarted' /\ HarnessOfRunningJob'
    BY <1>1, <1>6 DEF TableInv, ListsProper, UnscheduledNotStarted, HarnessOfRunningJob, HasProcess, Missed
  <2>3. BusyInItsPlace' /\ ScheduledNotStarted'
    BY <1>1, <1>5, <1>6 DEF TableInv, BusyInItsPlace, ScheduledNotStarted, Busy
  <2> QED
    BY <2>1, <2>2, <2>3 DEF TableInv
<1>10. SiteLocal(c)
  BY <1>5, <1>6 DEF SiteLocal, MissedStays, HasProcess, Missed
<1>11. RunsUndisturbed
  BY <1>5, <1>6 DEF RunsUndisturbed, Busy
<1>12. NewCurrent(c)'
  <2>1. \A q \in cnew'[c] : q \in cnew[c] /\ q.name \notin marked
    BY <1>3, <1>4, <1>7, SameName DEF marked, Group
  <2> QED
    BY <1>1, <1>3, <1>6, <1>7, <2>1 DEF CtlGood, NewCurrent, RowOf, Current
<1>13. JobAtHand(c)'
  BY <1>3, <1>4, <1>5, <1>6, <1>7, <1>8 DEF JobAtHand, RowOf, HasProcess, Missed
<1>14. CtlGood(c)'
  BY <1>1, <1>7, <1>12, <1>13
    DEF CtlGood, PidFileHeld, OffEmpty, TodoCurrent, RowAtHand, PidAtHand, MayAtHand, AsListed
<1> QED
  BY <1>9, <1>10, <1>11, <1>14

\* Making the results directory and spawning the harness.
LEMMA LaunchPreserves ==
  ASSUME IInv, NEW c \in Ctrls, CtlLaunch(c)
  PROVE  TableInv' /\ RunsUndisturbed /\ SiteLocal(c) /\ CtlGood(c)'
<1> DEFINE j == JobOf(c)
           n == ccur[c].name
<1>1. FleetTypeOK /\ CtlTypeOK /\ TableInv /\ CtlGood(c) /\ cpc[c] = "launch"
  BY DEF IInv, TypeOK, CtlInv, CtlLaunch
<1>2. /\ j \in Jobs /\ n \in Machines /\ RowOf(c, ccur[c]) /\ ccur[c] \in Row
      /\ mstatus[n] = "running" /\ mjob[n] = j /\ jstatus[j] = "running"
      /\ proc[j] = "none" /\ j \notin resdir
  BY <1>1, AtHand DEF CtlGood, JobAtHand, Marked
<1>3. /\ UNCHANGED <<mstatus, mjob, jstatus, jmach, removed>>
      /\ resdir' = resdir \cup {j}
      /\ \A k \in Jobs : k # j => proc'[k] = proc[k]
      /\ cpc'[c] = "fail" => proc' = proc
      /\ proc'[j] \in {"none", "starting"}
      /\ cpc'[c] \in {"recordpid", "fail"}
  BY <1>1, <1>2 DEF CtlLaunch, GoOn, CGoto, CtlTypeOK, FleetTypeOK, machineVars, jobVars
<1>4. \A m \in Machines : (mstatus[m] \in {"scheduled", "running"} /\ mjob[m] = j) => m = n
  BY <1>1, <1>2, JobOfThisSite DEF Marked
<1>5. /\ pidfile' = pidfile /\ ctodo' = ctodo /\ cnew' = cnew /\ cmay' = cmay
      /\ ccur' = ccur /\ JobOf(c)' = j
  BY DEF CtlLaunch, GoOn, JobOf
<1> HIDE DEF j, n
<1>6. TableInv'
  <2>1. /\ ListsProper' /\ RunningJobHoldsMachines' /\ BusyInItsPlace'
        /\ UnscheduledNotStarted' /\ HarnessOfRunningJob'
    BY <1>1, <1>2, <1>3 DEF TableInv, ListsProper, RunningJobHoldsMachines, BusyInItsPlace,
         UnscheduledNotStarted, HarnessOfRunningJob, Busy, HasProcess, Missed, MachinesOf
  <2>2. \A m \in Machines : mstatus[m] = "scheduled" => mjob[m] # j /\ mjob[m] \in Jobs
    BY <1>1, <1>2, <1>4 DEF TableInv, BusyInItsPlace, Busy
  <2>3. ScheduledNotStarted'
    BY <1>1, <1>3, <2>2 DEF TableInv, ScheduledNotStarted
  <2> QED
    BY <2>1, <2>3 DEF TableInv
<1>7. SiteLocal(c)
  <2>1. \A m \in Machines : (SiteOf[m] # SiteC(c) /\ mstatus[m] \in {"scheduled", "running"})
                             => mjob[m] # j /\ mjob[m] \in Jobs
    BY <1>1, <1>2, <1>4 DEF RowOf, TableInv, BusyInItsPlace, Busy, n
  <2> QED
    BY <1>2, <1>3, <2>1 DEF SiteLocal, MissedStays, HasProcess, Missed
<1>8. RunsUndisturbed
  BY <1>3 DEF RunsUndisturbed, Busy
<1>9. TodoCurrent(c)' /\ NewCurrent(c)'
  BY <1>1, <1>3, <1>5 DEF CtlGood, TodoCurrent, NewCurrent, RowOf, Current
<1>10. JobAtHand(c)' /\ PidAtHand(c)'
  BY <1>1, <1>2, <1>3, <1>5 DEF JobAtHand, PidAtHand, Marked, RowOf, n
<1>11. CtlGood(c)'
  BY <1>1, <1>3, <1>5, <1>9, <1>10
    DEF CtlGood, PidFileHeld, OffEmpty, RowAtHand, MayAtHand, AsListed
<1> QED
  BY <1>6, <1>7, <1>8, <1>11

\* Whatever a run reads, it keeps what it counts on: the actions that change
\* neither a machine nor the state of a job.
LEMMA ReadingPreserves ==
  ASSUME IInv, NEW c \in Ctrls, TypeOK',
         \/ \E allowed \in 0..BurstJobs : CtlStart(c, allowed)
         \/ CtlExamine(c) \/ CtlProbe(c) \/ CtlFlagDead(c) \/ CtlRecordPid(c)
         \/ CtlEnd(c) \/ CtlCrash(c)
  PROVE  TableInv' /\ RunsUndisturbed /\ SiteLocal(c) /\ CtlGood(c)'
<1>1. FleetTypeOK /\ CtlTypeOK /\ TableInv /\ CtlGood(c) /\ SiteC(c) \in Sites
  BY ControllerAssumption DEF IInv, TypeOK, CtlInv, SiteC
<1>2. UNCHANGED <<mstatus, mjob, jstatus, jmach, removed, resdir, proc>>
  BY DEF CtlStart, CtlExamine, CtlProbe, CtlFlagDead, CtlRecordPid, CtlEnd, CtlCrash,
         CountCrash, fleetVars, machineVars, jobVars, hostVars
<1>3. TableInv' /\ RunsUndisturbed /\ SiteLocal(c)
  BY <1>2, TableFrame DEF TableKept, RunsUndisturbed, SiteLocal, MissedStays, HasProcess, Missed, Busy
<1> SUFFICES CtlGood(c)'
  BY <1>3
<1> USE DEF PidFileHeld, OffEmpty, RowAtHand, JobAtHand, PidAtHand, MayAtHand, AsListed, Marked
<1>k. ASSUME NEW r, RowOf(c, r), Current(r) PROVE RowOf(c, r)' /\ Current(r)'
  BY <1>2, <1>k DEF RowOf, Current
<1>n. ASSUME cnew'[c] \subseteq cnew[c], ctodo'[c] \subseteq ctodo[c]
      PROVE  TodoCurrent(c)' /\ NewCurrent(c)'
  BY <1>1, <1>2, <1>k, <1>n DEF CtlGood, TodoCurrent, NewCurrent
<1>q. ASSUME UNCHANGED <<pidfile, ctodo, cnew>>, cpc[c] # "off",
             DoneWith(c)
      PROVE  CtlGood(c)'
  <2>1. cpc'[c] = "scan" /\ TodoCurrent(c)' /\ NewCurrent(c)'
    BY <1>1, <1>n, <1>q DEF DoneWith, TakeUp, CGoto, CtlTypeOK
  <2> QED
    BY <1>1, <1>q, <2>1 DEF CtlGood
<1>o. ASSUME CForget(c) PROVE CtlGood(c)'
  <2>1. cpc'[c] = "off" /\ ctodo'[c] = {} /\ cnew'[c] = {}
    BY <1>1, <1>o DEF CForget, CGoto, CtlTypeOK
  <2> QED
    BY <2>1 DEF CtlGood, TodoCurrent, NewCurrent
<1>a. ASSUME NEW allowed \in 0..BurstJobs, CtlStart(c, allowed) PROVE CtlGood(c)'
  <2>1. /\ cpc'[c] = "scan" /\ pidfile'[SiteC(c)] = c /\ ctodo'[c] = MachineList(c)
        /\ cnew'[c] = {}
    BY <1>1, <1>a DEF CtlStart, CGoto, CtlTypeOK, CtlGood
  <2>2. TodoCurrent(c)'
    <3>1. MachineList(c) \subseteq Row
      BY <1>a, <2>1 DEF TypeOK, CtlTypeOK
    <3>2. ASSUME NEW r \in MachineList(c) PROVE RowOf(c, r) /\ Current(r)
      BY <3>1 DEF MachineList, RowOf, Current, SiteMachines, Busy
    <3> QED
      BY <1>k, <2>1, <3>2 DEF TodoCurrent
  <2> QED
    BY <1>1, <2>1, <2>2 DEF CtlGood, NewCurrent
<1>b. CASE CtlExamine(c)
  <2>1. PICK r \in ctodo[c] :
         LET seen  == Seen(r.jobid)
             step  == StepFor(r, seen)
             fresh == r.rawstatus = "scheduled" /\ "removed" \notin seen
         IN /\ ctodo' = [ctodo EXCEPT ![c] = @ \ {r}]
            /\ cnew' = [cnew EXCEPT ![c] = IF fresh THEN @ \cup {r} ELSE @]
            /\ IF step = "scan" THEN DoneWith(c) ELSE TakeUp(c, r, seen, step)
    BY <1>b DEF CtlExamine
  <2> DEFINE seen == Seen(r.jobid)
             step == StepFor(r, seen)
             fresh == r.rawstatus = "scheduled" /\ "removed" \notin seen
  <2>2. RowOf(c, r) /\ Current(r) /\ r \in Row /\ r.name \in Machines /\ r.jobid \in Jobs
    BY <1>1, RowMachine DEF CtlGood, TodoCurrent
  <2>3. /\ "removed" \in seen <=> r.jobid \in removed
        /\ "done" \in seen <=> jstatus[r.jobid] = "done"
    BY DEF Seen
  <2>4. r.rawstatus = "scheduled" => /\ proc[r.jobid] = "none"
                                     /\ jstatus[r.jobid] = "done" => r.jobid \in removed
    BY <1>1, <2>2 DEF TableInv, ScheduledNotStarted, Current
  <2>5. jstatus[r.jobid] \in {"running", "done"}
    BY <1>1, <2>2 DEF TableInv, BusyInItsPlace, Busy, Current, RowOf
  <2>6. /\ step \in {"scan", "free", "complete", "probe"}
        /\ step = "free" => "done" \in seen
        /\ step = "complete" => r.rawstatus = "scheduled" /\ "removed" \in seen
        /\ step = "probe" => r.rawstatus = "running"
        /\ fresh => step = "scan"
    BY DEF StepFor
  <2>7. /\ ctodo'[c] = ctodo[c] \ {r}
        /\ cnew'[c] = IF fresh THEN cnew[c] \cup {r} ELSE cnew[c]
        /\ step = "scan" => DoneWith(c)
        /\ step # "scan" => TakeUp(c, r, seen, step)
    BY <1>1, <2>1 DEF CtlTypeOK
  <2> HIDE DEF seen, step, fresh
  <2>8. TodoCurrent(c)' /\ NewCurrent(c)'
    <3>1. fresh => r.rawstatus = "scheduled" /\ "removed" \notin seen
      BY DEF fresh
    <3>2. TodoCurrent(c)'
      BY <1>1, <1>k, <2>7 DEF CtlGood, TodoCurrent
    <3>3. \A q \in cnew[c] : /\ RowOf(c, q)' /\ Current(q)' /\ q \notin ctodo'[c]
                            /\ q.rawstatus = "scheduled" /\ jstatus'[q.jobid] = "running"
      BY <1>1, <1>2, <1>k, <2>7 DEF CtlGood, NewCurrent
    <3>4. fresh => /\ RowOf(c, r)' /\ Current(r)' /\ r \notin ctodo'[c]
                   /\ r.rawstatus = "scheduled" /\ jstatus'[r.jobid] = "running"
      BY <1>2, <1>k, <2>2, <2>3, <2>4, <2>5, <2>7, <3>1
    <3> QED
      BY <2>7, <3>2, <3>3, <3>4 DEF NewCurrent
  <2>9. pidfile' = pidfile /\ cmay' = cmay /\ cpc[c] # "off" /\ cpc'[c] = step
    BY <1>1, <1>b, <2>7 DEF CtlExamine, DoneWith, TakeUp, CGoto, CtlTypeOK
  <2>10. CASE step = "scan"
    BY <1>1, <2>8, <2>9, <2>10 DEF CtlGood
  <2>11. CASE step # "scan"
    <3>1. ccur'[c] = r /\ cseen'[c] = seen /\ JobOf(c)' = r.jobid
      BY <1>1, <2>7, <2>11 DEF TakeUp, CtlTypeOK, JobOf
    <3>2. r \notin ctodo'[c] \cup cnew'[c]
      BY <1>1, <2>6, <2>7, <2>11 DEF CtlGood, NewCurrent
    <3>3. RowOf(c, r)' /\ Current(r)'
      BY <1>k, <2>2
    <3>4. RowAtHand(c)'
      BY <1>2, <2>3, <2>4, <2>6, <2>9, <3>1, <3>2, <3>3 DEF HasProcess, Missed, RowOf, Current
    <3> QED
      BY <1>1, <2>6, <2>8, <2>9, <2>11, <3>4 DEF CtlGood
  <2> QED
    BY <2>10, <2>11
<1>c. CASE CtlProbe(c) \/ CtlFlagDead(c)
  <2>1. UNCHANGED <<pidfile, ctodo, cnew, cmay>> /\ cpc[c] \in {"probe", "dead"}
    BY <1>c DEF CtlProbe, CtlFlagDead
  <2>2. CASE DoneWith(c)
    BY <1>q, <2>1, <2>2
  <2>3. CASE GoOn(c, "dead") \/ (GoOn(c, "kill") /\ "removed" \in cseen[c])
    <3>1. /\ cpc'[c] \in {"dead", "kill"} /\ ccur' = ccur /\ cseen' = cseen
          /\ JobOf(c)' = JobOf(c)
          /\ cpc'[c] = "kill" => "removed" \in cseen[c]
      BY <1>1, <2>3 DEF GoOn, CGoto, CtlTypeOK, JobOf
    <3>2. TodoCurrent(c)' /\ NewCurrent(c)'
      BY <1>n, <2>1
    <3>3. RowOf(c, ccur[c])' /\ Current(ccur[c])'
      BY <1>1, <1>2, <2>1, <3>1 DEF CtlGood, RowOf, Current
    <3>4. RowAtHand(c)'
      BY <1>1, <1>2, <2>1, <3>1, <3>3 DEF CtlGood
    <3> QED
      BY <1>1, <2>1, <3>1, <3>2, <3>4 DEF CtlGood
  <2> QED
    BY <1>c, <2>2, <2>3 DEF CtlProbe, CtlFlagDead
<1>d. CASE CtlRecordPid(c)
  BY <1>q, <1>d DEF CtlRecordPid, Started
<1>e. CASE CtlEnd(c) \/ CtlCrash(c)
  BY <1>o, <1>e DEF CtlEnd, CtlCrash
<1> QED
  BY <1>3, <1>a, <1>b, <1>c, <1>d, <1>e

\* Every step of the controllers keeps the invariant.
LEMMA ControllerPreserves ==
  ASSUME IInv, ControllerStep
  PROVE  IInv'
<1>1. TypeOK'
  BY ControllerTypes
<1>2. PICK c \in Ctrls : (\E allowed \in 0..BurstJobs : CtlStart(c, allowed))
                         \/ CtlRun(c) \/ CtlCrash(c)
  BY DEF ControllerStep, ControllerNext
<1>3. TableInv' /\ RunsUndisturbed /\ SiteLocal(c) /\ CtlGood(c)'
  BY <1>1, <1>2, ReadingPreserves, KillPreserves, CompletePreserves, FreePreserves,
     MarkPreserves, LaunchPreserves DEF CtlRun
<1>4. CtlTypeOK
  BY DEF IInv, TypeOK
<1>5. cpc[c] # "off" \/ PidFileFree(c)
  BY <1>2 DEF CtlRun, CtlCrash, CtlStart, CtlExamine, CtlProbe, CtlFlagDead, CtlKill,
       CtlComplete, CtlFree, CtlMark, CtlLaunch, CtlRecordPid, CtlFail, CtlEnd, Scanned
<1>6. \A d \in Ctrls \ {c} : OwnKept(d)
  <2> USE <1>4 DEF OwnKept, CtlTypeOK, CGoto, GoOn, DoneWith, TakeUp
  <2>1. ASSUME NEW allowed \in 0..BurstJobs, CtlStart(c, allowed)
        PROVE  \A d \in Ctrls \ {c} : OwnKept(d)
    BY <2>1 DEF CtlStart
  <2>2. CASE CtlExamine(c)
    BY <2>2 DEF CtlExamine
  <2>3. CASE CtlProbe(c) \/ CtlFlagDead(c)
    BY <2>3 DEF CtlProbe, CtlFlagDead
  <2>4. CASE CtlKill(c) \/ CtlComplete(c) \/ CtlFree(c) \/ CtlLaunch(c)
    BY <2>4 DEF CtlKill, CtlComplete, CtlFree, CtlLaunch
  <2>5. CASE CtlMark(c)
    BY <2>5 DEF CtlMark
  <2>6. CASE CtlRecordPid(c) \/ CtlFail(c)
    BY <2>6 DEF CtlRecordPid, CtlFail, Started
  <2>7. CASE CtlEnd(c) \/ CtlCrash(c)
    BY <2>7 DEF CtlEnd, CtlCrash, CForget
  <2> QED
    BY <1>2, <2>1, <2>2, <2>3, <2>4, <2>5, <2>6, <2>7 DEF CtlRun
<1>7. \A site \in Sites : site # SiteC(c) => pidfile'[site] = pidfile[site]
  BY <1>2, <1>4
    DEF CtlTypeOK, CtlRun, CtlCrash, CtlStart, CtlExamine, CtlProbe, CtlFlagDead, CtlKill,
        CtlComplete, CtlFree, CtlMark, CtlLaunch, CtlRecordPid, CtlFail, CtlEnd
<1>8. CtlInv'
  BY <1>3, <1>5, <1>6, <1>7, OtherControllersKept DEF CtlInv
<1>9. SchedInv'
  BY <1>3, RunsKept DEF ControllerStep
<1> QED
  BY <1>1, <1>3, <1>8, <1>9 DEF IInv

-----------------------------------------------------------------------------
(***************************************************************************)
(* The users and the harnesses.                                            *)
(***************************************************************************)
\* They disturb neither the scheduler nor a controller as long as no machine
\* changes hands and only a job with a wrapper or a harness changes its state.
LEMMA ProgramsKept ==
  ASSUME IInv, UNCHANGED <<schedVars, ctlVars, mstatus, mjob, jmach, resdir>>,
         removed \subseteq removed', MissedStays,
         \A j \in Jobs : (jstatus[j] # "none" /\ ~HasProcess(j)) =>
                        jstatus'[j] = jstatus[j] /\ proc'[j] = proc[j],
         \A j \in Jobs : jstatus[j] = "done" => jstatus'[j] = "done"
  PROVE  SchedInv' /\ CtlInv'
<1>1. TableInv /\ FleetTypeOK
  BY DEF IInv, TypeOK
<1>2. SchedInv'
  <2>1. \A j \in Jobs : jstatus[j] = "new" => ~HasProcess(j)
    BY <1>1 DEF TableInv, UnscheduledNotStarted, HasProcess, Missed
  <2> QED
    BY <2>1, RunsKept DEF RunsUndisturbed, Busy
<1>3. CtlInv'
  <2> SUFFICES ASSUME NEW d \in Ctrls PROVE CtlKept(d)
    BY CtlFrame DEF CtlInv
  <2>1. \A m \in Machines : mstatus[m] \in {"scheduled", "running"} =>
          mjob[m] \in Jobs /\ jstatus[mjob[m]] # "none"
    BY <1>1 DEF TableInv, BusyInItsPlace, Busy
  <2> QED
    BY <2>1 DEF CtlKept, ctlVars, SiteMachines
<1> QED
  BY <1>2, <1>3

\* The harness begins; or it or its wrapper ends, with or without completing
\* the job.
LEMMA HarnessPreserves ==
  ASSUME IInv, NEW j \in Jobs,
         HarnessBegins(j) \/ HarnessComplete(j) \/ HarnessDies(j),
         UNCHANGED <<schedVars, ctlVars>>
  PROVE  TableInv' /\ SchedInv' /\ CtlInv'
<1>1. TableInv /\ FleetTypeOK
  BY DEF IInv, TypeOK
<1>2. /\ UNCHANGED <<mstatus, mjob, jmach, removed, resdir>>
      /\ proc[j] # "none" /\ proc'[j] # "none" /\ HasProcess(j)
      /\ jstatus[j] = "running" \/ (jstatus[j] = "done" /\ Missed(j))
      /\ Missed(j) => j \in removed
      /\ proc'[j] = "exited" \/ jstatus'[j] = jstatus[j]
      /\ jstatus'[j] \in {jstatus[j], "done"}
      /\ proc'[j] # "exited" => (proc'[j] \in {"missed", "stray"} <=> Missed(j))
      /\ MissedStays
      /\ \A k \in Jobs : k # j => jstatus'[k] = jstatus[k] /\ proc'[k] = proc[k]
  BY <1>1 DEF HarnessBegins, HarnessComplete, HarnessDies, CompleteJob, FleetTypeOK, ProcState,
       machineVars, jobVars, hostVars, TableInv, HarnessOfRunningJob, HasProcess, Missed,
       MissedStays
<1>3. ListsProper' /\ RunningJobHoldsMachines' /\ UnscheduledNotStarted' /\ HarnessOfRunningJob'
  BY <1>1, <1>2 DEF TableInv, ListsProper, RunningJobHoldsMachines, UnscheduledNotStarted,
       HarnessOfRunningJob, HasProcess, Missed, MachinesOf
<1>4. BusyInItsPlace'
  BY <1>1, <1>2 DEF TableInv, BusyInItsPlace, Busy
<1>5. ScheduledNotStarted'
  <2>1. \A m \in Machines : mstatus[m] = "scheduled" => mjob[m] # j /\ mjob[m] \in Jobs
    BY <1>1, <1>2 DEF TableInv, ScheduledNotStarted, BusyInItsPlace, Busy
  <2> QED
    BY <1>1, <1>2, <2>1 DEF TableInv, ScheduledNotStarted
<1>6. SchedInv' /\ CtlInv'
  BY <1>2, ProgramsKept DEF HasProcess, Missed
<1> QED
  BY <1>3, <1>4, <1>5, <1>6 DEF TableInv

\* Every step of a user or a harness keeps the invariant.
LEMMA ApiPreserves ==
  ASSUME IInv, ApiStep
  PROVE  IInv'
<1>1. TypeOK'
  BY ApiTypes DEF IInv
<1>2. TableInv /\ FleetTypeOK /\ UNCHANGED <<schedVars, ctlVars>>
  BY DEF IInv, TypeOK, ApiStep
<1> SUFFICES TableInv' /\ SchedInv' /\ CtlInv'
  BY <1>1 DEF IInv
<1>3. ASSUME TableKept PROVE TableInv' /\ SchedInv' /\ CtlInv'
  BY <1>2, <1>3, TableFrame, ProgramsKept DEF TableKept, MissedStays, HasProcess, Missed
<1>a. ASSUME NEW j \in Jobs, NewJob(j) PROVE TableInv' /\ SchedInv' /\ CtlInv'
  <2>1. /\ UNCHANGED <<mstatus, mjob, jmach, removed, resdir, proc>>
        /\ jstatus[j] = "none" /\ jstatus'[j] = "new"
        /\ \A k \in Jobs : k # j => jstatus'[k] = jstatus[k]
    BY <1>2, <1>a DEF NewJob, FleetTypeOK, machineVars, hostVars
  <2>2. TableInv'
    BY <1>2, <2>1 DEF TableInv, ListsProper, RunningJobHoldsMachines, BusyInItsPlace,
         UnscheduledNotStarted, ScheduledNotStarted, HarnessOfRunningJob, Busy, HasProcess, Missed, MachinesOf
  <2> QED
    BY <1>2, <2>1, <2>2, ProgramsKept DEF MissedStays, HasProcess, Missed
<1>b. ASSUME NEW j \in Jobs, RemoveJob(j) PROVE TableKept
  BY <1>b DEF RemoveJob, TableKept, machineVars, hostVars
<1>c. ASSUME NEW j \in Jobs, HarnessBegins(j) \/ HarnessComplete(j) \/ HarnessDies(j)
      PROVE  TableInv' /\ SchedInv' /\ CtlInv'
  BY <1>2, <1>c, HarnessPreserves
<1>d. ASSUME NEW u \in Users, UserNext(u) PROVE TableKept
  BY <1>d DEF UserNext, RemoveJobAndReturn, LeaseCheck, ReturnCheck, LeaseWrite,
       ReturnJobMachines, ReturnWrite, TableKept, fleetVars, machineVars, jobVars, hostVars
<1>e. ASSUME NEW m \in Machines, LeaseRunsOut(m) PROVE TableKept
  BY <1>e DEF LeaseRunsOut, TableKept, machineVars, jobVars, hostVars
<1> QED
  BY <1>3, <1>a, <1>b, <1>c, <1>d, <1>e DEF ApiStep, ApiNext

-----------------------------------------------------------------------------
(***************************************************************************)
(* The theorems.                                                           *)
(***************************************************************************)
\* The empty tables satisfy the invariant.
LEMMA InitEstablishes == Init => IInv
<1> SUFFICES ASSUME Init PROVE IInv
  OBVIOUS
<1> USE DEF Init
<1>1. FleetTypeOK
  BY FleetAssumption
    DEF FleetInit, FleetTypeOK, MachineStatus, JobStatus, ProcState, Placement
<1>2. SchedTypeOK
  BY FleetAssumption DEF SchedInit, SchedTypeOK, ScPc, NoPlacement, Placement
<1>3. CtlTypeOK
  BY ControllerAssumption DEF CtlInit, CtlTypeOK, CtlPc
<1>4. ApiTypeOK
  BY DEF ApiInit, ApiTypeOK, NoReq, Requests, Ops
<1>5. TableInv
  BY FleetAssumption DEF FleetInit, TableInv, ListsProper, Proper, RunningJobHoldsMachines,
    BusyInItsPlace, UnscheduledNotStarted, ScheduledNotStarted, HarnessOfRunningJob, Busy, HasProcess, Missed
<1>6. SchedInv
  BY DEF SchedInit, SchedInv, SchedGood, LockHeld, SiteAtHand, AvailIdle, QueueNew, ChoiceGood,
    Recorded, HasList, HasQueue, HasJob
<1>7. CtlInv
  BY DEF CtlInit, CtlInv, CtlGood, PidFileHeld, OffEmpty, TodoCurrent, NewCurrent, RowAtHand,
    JobAtHand, PidAtHand, MayAtHand, AsListed, Marked
<1> QED
  BY <1>1, <1>2, <1>3, <1>4, <1>5, <1>6, <1>7 DEF IInv, TypeOK

\* A step that changes nothing keeps it.
LEMMA StutterPreserves ==
  ASSUME IInv, UNCHANGED vars
  PROVE  IInv'
<1> USE DEF vars, fleetVars, machineVars, leaseVars, jobVars, hostVars, schedVars, ctlVars, apiVars
<1>1. TypeOK'
  BY DEF IInv, TypeOK, FleetTypeOK, SchedTypeOK, CtlTypeOK, ApiTypeOK
<1>2. TableInv'
  BY TableFrame DEF TableKept
<1>3. SchedInv' /\ CtlInv'
  BY ProgramsKept DEF MissedStays, HasProcess, Missed
<1> QED
  BY <1>1, <1>2, <1>3 DEF IInv

\* The invariant holds in every reachable state, whatever the machines, the
\* jobs, the sites and the number of scheduler and controller processes.
THEOREM Invariance == Spec => []IInv
<1>1. Init => IInv
  BY InitEstablishes
<1>2. IInv /\ [Next]_vars => IInv'
  BY SchedulerPreserves, ControllerPreserves, ApiPreserves, StutterPreserves DEF Next
<1> QED
  BY <1>1, <1>2, PTL DEF Spec

\* Every variable of the fleet has its type.
THEOREM TypeCorrectness == Spec => []TypeOK
<1>1. IInv => TypeOK
  BY DEF IInv
<1> QED
  BY <1>1, Invariance, PTL

\* A job marked running holds every machine of its list, although schedule_on
\* never looks at how many rows its UPDATEs changed.
THEOREM MachinesHeld == Spec => []RunningJobHoldsMachines
<1>1. IInv => RunningJobHoldsMachines
  BY DEF IInv, TableInv
<1> QED
  BY <1>1, Invariance, PTL

\* No harness works on a machine that is idle or another job's, and no wrapper
\* will run one on it, but for a removed job whose wrapper killJob passed over.
THEOREM HarnessSafe == Spec => []HarnessHasItsMachines
<1>1. IInv => HarnessHasItsMachines
  <2> SUFFICES ASSUME IInv, NEW j \in Jobs, HasProcess(j), ~Loose(j), NEW m \in MachinesOf(j)
               PROVE  Busy(m) /\ mjob[m] = j
    BY DEF HarnessHasItsMachines
  <2>1. jstatus[j] = "running" /\ RunningJobHoldsMachines
    BY DEF IInv, TableInv, HarnessOfRunningJob, Loose
  <2> QED
    BY <2>1 DEF RunningJobHoldsMachines, MachinesOf, Members, Busy
<1> QED
  BY <1>1, Invariance, PTL

\* A busy machine is in the list of a job that was scheduled.
THEOREM BusyBelongs == Spec => []BusyMachineBelongs
<1>1. IInv => BusyMachineBelongs
  <2> SUFFICES ASSUME IInv, NEW m \in Machines, Busy(m)
               PROVE  /\ mjob[m] \in Jobs /\ jstatus[mjob[m]] \in {"running", "done"}
                      /\ m \in MachinesOf(mjob[m])
    BY DEF BusyMachineBelongs
  <2>1. mstatus[m] \in {"scheduled", "slaved", "running"}
    BY DEF IInv, TypeOK, FleetTypeOK, MachineStatus, Busy
  <2> QED
    BY <2>1, FleetAssumption DEF IInv, TableInv, BusyInItsPlace, MachinesOf, Members
<1> QED
  BY <1>1, Invariance, PTL

\* A job that a controller is about to start was never started before.
THEOREM LaunchedOnce == Spec => []JobLaunchedOnce
<1>1. IInv => JobLaunchedOnce
  BY DEF IInv, CtlInv, CtlGood, JobAtHand, Marked, JobLaunchedOnce
<1> QED
  BY <1>1, Invariance, PTL
=============================================================================
