--------------------------- MODULE FleetTypeProofs ---------------------------
(***************************************************************************)
(* Type correctness of Fleet: every step from a state that satisfies the   *)
(* inductive invariant leads to a state of the right types.                *)
(***************************************************************************)
EXTENDS FleetInv, FiniteSetTheorems, TLAPS

\* The number of machines of a site in a status is a natural number.
LEMMA CountIsNat ==
  ASSUME NEW site, NEW st
  PROVE  CountAt(site, st) \in Nat
<1>1. {m \in SiteMachines(site) : mstatus[m] = st} \in SUBSET Machines
  BY DEF SiteMachines
<1>2. IsFiniteSet({m \in SiteMachines(site) : mstatus[m] = st})
  BY <1>1, FS_Subset, FleetAssumption
<1> QED
  BY <1>2, FS_CardinalityType DEF CountAt

\* Whatever is selected for a job is a list of machines.
LEMMA SelectionIsPlacement ==
  ASSUME TypeOK, NEW s \in Schedulers, NEW j \in Jobs,
         NEW a \in Selections(j, savail[s])
  PROVE  a \in Placement /\ a.prim \in Machines
<1>1. savail[s] \subseteq Machines /\ jmach[j] \in Placement
  BY DEF TypeOK, SchedTypeOK, FleetTypeOK
<1>2. CASE jmach[j].prim = NoMachine
  BY <1>1, <1>2 DEF Selections
<1>3. CASE jmach[j].prim # NoMachine
  <2>1. PICK b \in NamedChoices(j, savail[s]) \X SUBSET savail[s] :
          a = [prim |-> jmach[j].prim, rest |-> b[1] \cup b[2]]
    BY <1>3 DEF Selections
  <2>2. b[1] \subseteq Machines /\ b[2] \subseteq Machines
    BY <1>1, <2>1 DEF NamedChoices, LeasedFor, Placement
  <2> QED
    BY <1>1, <1>3, <2>1, <2>2 DEF Placement
<1> QED
  BY <1>2, <1>3

\* The scheduler keeps the types.
LEMMA SchedulerTypes ==
  ASSUME IInv, SchedulerStep
  PROVE  TypeOK'
<1> USE DEF Placement, ScPc
<1>1. TypeOK
  BY DEF IInv
<1>2. CtlTypeOK' /\ ApiTypeOK'
  BY <1>1 DEF TypeOK, CtlTypeOK, ApiTypeOK, SchedulerStep, ctlVars, apiVars
<1>3. PICK s \in Schedulers : ScStart(s) \/ ScRun(s) \/ ScCrash(s)
  BY DEF SchedulerStep, SchedulerNext
<1>4. SchedInv /\ FleetTypeOK /\ SchedTypeOK
  BY DEF IInv, TypeOK
<1> SUFFICES FleetTypeOK' /\ SchedTypeOK'
  BY <1>2 DEF TypeOK
<1>f. ASSUME UNCHANGED fleetVars PROVE FleetTypeOK'
  BY <1>4, <1>f DEF FleetTypeOK, fleetVars, machineVars, leaseVars, jobVars, hostVars
<1>g. ASSUME Forget(s), schedLock' \in Schedulers \cup {NoSched} PROVE SchedTypeOK'
  BY <1>4, <1>g, FleetAssumption
    DEF SchedTypeOK, Forget, Goto, NoPlacement
<1>a. CASE ScStart(s)
  BY <1>4, <1>f, <1>a DEF ScStart, SchedTypeOK, Goto
<1>b. CASE ScCountRunning(s)
  <2>1. PICK site \in Sites :
          /\ scap' = [scap EXCEPT ![s][site] = MaxJobs[site] - CountAt(site, "running")]
          /\ ssite' = [ssite EXCEPT ![s] = site]
    BY <1>b DEF ScCountRunning
  <2>2. MaxJobs[site] - CountAt(site, "running") \in Int
    BY FleetAssumption, CountIsNat
  <2> QED
    BY <1>4, <1>f, <1>b, <2>1, <2>2 DEF ScCountRunning, SchedTypeOK, Goto
<1>c. CASE ScCountScheduled(s)
  <2> DEFINE site == ssite[s]
             left == scap[s][site] - CountAt(site, "scheduled")
  <2>1. site \in Sites
    BY <1>4, <1>c DEF ScCountScheduled, SchedInv, SchedGood, SiteAtHand
  <2>2. left \in Int
    BY <1>4, <2>1, CountIsNat DEF SchedTypeOK
  <2>3. scap' = [scap EXCEPT ![s][site] = left]
    BY <1>c DEF ScCountScheduled
  <2> HIDE DEF left
  <2>4. scap' \in [Schedulers -> [Sites -> Int]]
    BY <1>4, <2>1, <2>2, <2>3 DEF SchedTypeOK
  <2>5. /\ scounted' \in [Schedulers -> SUBSET Sites]
        /\ spc' \in [Schedulers -> ScPc]
    <3>1. scounted[s] \cup {site} \in SUBSET Sites
      BY <1>4, <2>1 DEF SchedTypeOK
    <3>2. CASE scounted[s] \cup {site} = Sites
      BY <1>4, <1>c, <3>2 DEF ScCountScheduled, SchedTypeOK, Goto
    <3>3. CASE scounted[s] \cup {site} # Sites
      BY <1>4, <1>c, <3>1, <3>3 DEF ScCountScheduled, SchedTypeOK, Goto
    <3> QED
      BY <3>2, <3>3
  <2> QED
    BY <1>4, <1>f, <1>c, <2>4, <2>5 DEF ScCountScheduled, SchedTypeOK
<1>d. CASE ScFindExpired(s)
  BY <1>4, <1>f, <1>d DEF ScFindExpired, SchedTypeOK, Goto, FleetTypeOK
<1>e. CASE ScClearExpired(s)
  <2>1. FleetTypeOK'
    BY <1>4, <1>e DEF ScClearExpired, FleetTypeOK, ClearLease, machineVars, jobVars, hostVars
  <2> QED
    BY <1>4, <1>e, <2>1 DEF ScClearExpired, SchedTypeOK, Goto
<1>h. CASE ScListMachines(s)
  BY <1>4, <1>f, <1>h DEF ScListMachines, SchedTypeOK, Goto
<1>i. CASE ScReadJobs(s)
  BY <1>4, <1>f, <1>i DEF ScReadJobs, SchedTypeOK, Goto
<1>j. CASE ScSelect(s)
  <2>0. PICK j \in squeue[s] : \E a \in Selections(j, savail[s]) :
          /\ sjob' = [sjob EXCEPT ![s] = j]
          /\ ssel' = [ssel EXCEPT ![s] = a]
          /\ squeue' = [squeue EXCEPT ![s] = @ \ {j}]
    BY <1>j DEF ScSelect
  <2>1. PICK a \in Selections(j, savail[s]) :
          /\ sjob' = [sjob EXCEPT ![s] = j]
          /\ ssel' = [ssel EXCEPT ![s] = a]
          /\ squeue' = [squeue EXCEPT ![s] = @ \ {j}]
    BY <2>0
  <2>2. j \in Jobs
    BY <1>4 DEF SchedTypeOK
  <2>3. a \in Placement
    BY <1>1, <2>2, SelectionIsPlacement
  <2> QED
    BY <1>4, <1>f, <1>j, <2>1, <2>2, <2>3 DEF ScSelect, SchedTypeOK, Goto
<1>k. CASE ScPass(s)
  BY <1>4, <1>f, <1>k DEF ScPass, SchedTypeOK, Goto
<1>l. CASE ScRecord(s)
  <2>1. FleetTypeOK'
    BY <1>4, <1>l DEF ScRecord, FleetTypeOK, SchedTypeOK, machineVars, leaseVars, hostVars
  <2> QED
    BY <1>4, <1>l, <2>1 DEF ScRecord, SchedTypeOK, Goto
<1>m. CASE ScAssign(s)
  <2>1. ssel[s].prim \in Machines /\ sjob[s] \in Jobs
    BY <1>4, <1>m DEF ScAssign, SchedInv, SchedGood, ChoiceGood, HasJob
  <2>2. mstatus' \in [Machines -> MachineStatus]
    BY <1>4, <1>m DEF ScAssign, AssignedStatus, FleetTypeOK, MachineStatus
  <2>3. FleetTypeOK'
    BY <1>4, <1>m, <2>1, <2>2
      DEF ScAssign, FleetTypeOK, MarkRunning, JobStatus, leaseVars, hostVars
  <2>4. SiteOf[ssel[s].prim] \in Sites
    BY <2>1, FleetAssumption
  <2>5. scap' \in [Schedulers -> [Sites -> Int]]
    BY <1>4, <1>m, <2>4 DEF ScAssign, SchedTypeOK
  <2> QED
    BY <1>4, <1>m, <2>3, <2>5 DEF ScAssign, SchedTypeOK, Goto, NoPlacement
<1>n. CASE ScEnd(s)
  BY <1>f, <1>g, <1>n DEF ScEnd
<1>o. CASE ScCrash(s)
  <2>1. FleetTypeOK'
    BY <1>4, <1>o, FleetAssumption
      DEF ScCrash, CountCrash, FleetTypeOK, machineVars, leaseVars, jobVars
  <2> QED
    BY <1>g, <1>o, <2>1 DEF ScCrash
<1> QED
  BY <1>3, <1>a, <1>b, <1>c, <1>d, <1>e, <1>h, <1>i, <1>j, <1>k, <1>l, <1>m, <1>n, <1>o
    DEF ScRun

-----------------------------------------------------------------------------
\* Every row a controller has at hand at a step of its scan is a row.
LEMMA RowAtHandIsRow ==
  ASSUME IInv, NEW c \in Ctrls,
         cpc[c] \in AsListed \cup Marked \cup {"recordpid"}
  PROVE  ccur[c] \in Row /\ JobOf(c) \in Jobs /\ ccur[c].name \in Machines
<1>1. ccur[c] \in Row
  BY DEF IInv, CtlInv, CtlGood, RowAtHand, JobAtHand, PidAtHand, RowOf
<1> QED
  BY <1>1 DEF Row, JobOf

\* The controllers keep the types.
LEMMA ControllerTypes ==
  ASSUME IInv, ControllerStep
  PROVE  TypeOK'
<1> USE DEF CtlPc
<1>1. FleetTypeOK /\ CtlTypeOK /\ CtlInv /\ TableInv
  BY DEF IInv, TypeOK
<1>2. SchedTypeOK' /\ ApiTypeOK'
  BY DEF IInv, TypeOK, SchedTypeOK, ApiTypeOK, ControllerStep, schedVars, apiVars
<1>3. PICK c \in Ctrls : (\E allowed \in 0..BurstJobs : CtlStart(c, allowed))
                         \/ CtlRun(c) \/ CtlCrash(c)
  BY DEF ControllerStep, ControllerNext
<1> SUFFICES FleetTypeOK' /\ CtlTypeOK'
  BY <1>2 DEF TypeOK
<1>4. SiteC(c) \in Sites
  BY ControllerAssumption DEF SiteC
<1>f. ASSUME UNCHANGED fleetVars PROVE FleetTypeOK'
  BY <1>1, <1>f DEF FleetTypeOK, fleetVars, machineVars, leaseVars, jobVars, hostVars
<1>g. ASSUME CForget(c), pidfile' \in [Sites -> Ctrls \cup {NoCtrl}] PROVE CtlTypeOK'
  BY <1>1, <1>g, ControllerAssumption DEF CtlTypeOK, CForget, CGoto
<1>h. ASSUME NEW label \in CtlPc, GoOn(c, label) \/ DoneWith(c),
             UNCHANGED <<pidfile, ctodo, cnew, cmay>>
      PROVE  CtlTypeOK'
  BY <1>1, <1>h DEF CtlTypeOK, GoOn, DoneWith, TakeUp, CGoto
<1>j. ASSUME cpc[c] \in AsListed \cup Marked \cup {"recordpid"}
      PROVE  JobOf(c) \in Jobs /\ ccur[c].name \in Machines
  BY <1>j, RowAtHandIsRow
<1>a. CASE \E allowed \in 0..BurstJobs : CtlStart(c, allowed)
  <2>1. PICK allowed \in 0..BurstJobs : CtlStart(c, allowed)
    BY <1>a
  <2>2. MachineList(c) \in SUBSET Row
    <3>1. ASSUME NEW m \in Machines, Busy(m) PROVE mjob[m] \in Jobs
      BY <1>1, <3>1 DEF TableInv, BusyInItsPlace
    <3> QED
      BY <1>1, <3>1 DEF MachineList, Row, SiteMachines, FleetTypeOK
  <2> QED
    BY <1>1, <1>4, <1>f, <2>1, <2>2 DEF CtlStart, CtlTypeOK, CGoto
<1>b. CASE CtlExamine(c)
  <2>1. PICK r \in ctodo[c] :
         LET seen  == Seen(r.jobid)
             step  == StepFor(r, seen)
             fresh == r.rawstatus = "scheduled" /\ "removed" \notin seen
         IN /\ ctodo' = [ctodo EXCEPT ![c] = @ \ {r}]
            /\ cnew' = [cnew EXCEPT ![c] = IF fresh THEN @ \cup {r} ELSE @]
            /\ IF step = "scan" THEN DoneWith(c) ELSE TakeUp(c, r, seen, step)
    BY <1>b DEF CtlExamine
  <2> DEFINE seen == Seen(r.jobid)
             step == StepFor(r, seen)
  <2>2. r \in Row
    BY <1>1 DEF CtlTypeOK
  <2>3. seen \in SUBSET JobFlags /\ step \in CtlPc
    BY DEF Seen, StepFor, JobFlags
  <2>4. ctodo' \in [Ctrls -> SUBSET Row] /\ cnew' \in [Ctrls -> SUBSET Row]
    BY <1>1, <2>1, <2>2 DEF CtlTypeOK
  <2>5. /\ cpc' \in [Ctrls -> CtlPc]
        /\ ccur' \in [Ctrls -> Row \cup {NoRow}]
        /\ cseen' \in [Ctrls -> SUBSET JobFlags]
    <3>1. DoneWith(c) \/ TakeUp(c, r, seen, step)
      BY <2>1
    <3> HIDE DEF seen, step
    <3> QED
      BY <1>1, <2>2, <2>3, <3>1 DEF CtlTypeOK, DoneWith, TakeUp, CGoto
  <2> QED
    BY <1>1, <1>f, <1>b, <2>4, <2>5 DEF CtlExamine, CtlTypeOK
<1>c. CASE CtlProbe(c)
  <2>1. PICK label \in CtlPc : GoOn(c, label) \/ DoneWith(c)
    BY <1>c DEF CtlProbe
  <2> QED
    BY <1>f, <1>h, <1>c, <2>1 DEF CtlProbe
<1>d. CASE CtlFlagDead(c)
  <2>1. FleetTypeOK'
    BY <1>1, <1>j, <1>d DEF CtlFlagDead, FleetTypeOK, AsListed, machineVars, leaseVars, hostVars
  <2>2. GoOn(c, "kill") \/ DoneWith(c)
    BY <1>d DEF CtlFlagDead
  <2> QED
    BY <1>h, <1>d, <2>1, <2>2 DEF CtlFlagDead
<1>e. CASE CtlKill(c)
  <2>1. FleetTypeOK'
    <3>1. ASSUME JobOf(c) \in Jobs PROVE Killed(JobOf(c)) \in ProcState
      BY <1>1, <3>1 DEF FleetTypeOK, Killed, ProcState
    <3> QED
      BY <1>1, <1>e, <3>1 DEF CtlKill, FleetTypeOK, machineVars, leaseVars, jobVars
  <2> QED
    BY <1>h, <1>e, <2>1 DEF CtlKill
<1>i. CASE CtlComplete(c)
  <2>1. FleetTypeOK'
    BY <1>1, <1>i
      DEF CtlComplete, CompleteJob, FleetTypeOK, JobStatus, machineVars, leaseVars, hostVars
  <2> QED
    BY <1>h, <1>i, <2>1 DEF CtlComplete
<1>k. CASE CtlFree(c)
  <2>1. FleetTypeOK'
    BY <1>1, <1>k
      DEF CtlFree, SetMachineStatus, MachineStatus, FleetTypeOK, leaseVars, jobVars, hostVars
  <2> QED
    BY <1>h, <1>k, <2>1 DEF CtlFree
<1>l. CASE CtlMark(c)
  <2>1. FleetTypeOK'
    BY <1>1, <1>l
      DEF CtlMark, SetMachineStatus, MachineStatus, FleetTypeOK, leaseVars, jobVars, hostVars
  <2>2. PICK r \in cnew[c] :
          /\ cnew' = [cnew EXCEPT ![c] = @ \ Group(c, r)]
          /\ TakeUp(c, r, {}, "launch")
    BY <1>l DEF CtlMark
  <2> QED
    BY <1>1, <1>l, <2>1, <2>2 DEF CtlMark, CtlTypeOK, TakeUp, CGoto, JobFlags
<1>m. CASE CtlLaunch(c)
  <2>1. FleetTypeOK'
    BY <1>1, <1>j, <1>m
      DEF CtlLaunch, FleetTypeOK, ProcState, Marked, machineVars, leaseVars, jobVars
  <2>2. GoOn(c, "recordpid") \/ GoOn(c, "fail")
    BY <1>m DEF CtlLaunch
  <2> QED
    BY <1>h, <1>m, <2>1, <2>2 DEF CtlLaunch
<1>s. ASSUME Started(c), cpc[c] \in {"recordpid", "fail"},
             UNCHANGED <<pidfile, ctodo, cnew>>
      PROVE  CtlTypeOK'
  <2>1. cmay[c] - 1 \in 0..BurstJobs
    BY <1>1, <1>s, ControllerAssumption DEF CtlInv, CtlGood, MayAtHand, CtlTypeOK
  <2> QED
    BY <1>1, <1>s, <2>1 DEF Started, CtlTypeOK, DoneWith, TakeUp, CGoto
<1>n. CASE CtlRecordPid(c)
  <2>1. FleetTypeOK'
    BY <1>1, <1>j, <1>n DEF CtlRecordPid, FleetTypeOK, machineVars, leaseVars, hostVars
  <2> QED
    BY <1>s, <1>n, <2>1 DEF CtlRecordPid
<1>o. CASE CtlFail(c)
  <2>1. FleetTypeOK'
    BY <1>1, <1>o
      DEF CtlFail, CompleteJob, FleetTypeOK, JobStatus, machineVars, leaseVars, hostVars
  <2> QED
    BY <1>s, <1>o, <2>1 DEF CtlFail
<1>p. CASE CtlEnd(c)
  BY <1>1, <1>4, <1>f, <1>g, <1>p DEF CtlEnd, CtlTypeOK
<1>q. CASE CtlCrash(c)
  <2>1. FleetTypeOK'
    BY <1>1, <1>q, FleetAssumption
      DEF CtlCrash, CountCrash, FleetTypeOK, machineVars, leaseVars, jobVars
  <2> QED
    BY <1>1, <1>g, <1>q, <2>1 DEF CtlCrash, CtlTypeOK
<1> QED
  BY <1>3, <1>a, <1>b, <1>c, <1>d, <1>e, <1>i, <1>k, <1>l, <1>m, <1>n, <1>o, <1>p, <1>q
    DEF CtlRun

-----------------------------------------------------------------------------
\* The users and the harnesses keep the types.
LEMMA ApiTypes ==
  ASSUME TypeOK, ApiStep
  PROVE  TypeOK'
<1>1. FleetTypeOK /\ ApiTypeOK
  BY DEF TypeOK
<1>2. SchedTypeOK' /\ CtlTypeOK'
  BY DEF TypeOK, SchedTypeOK, CtlTypeOK, ApiStep, schedVars, ctlVars
<1> SUFFICES FleetTypeOK' /\ ApiTypeOK'
  BY <1>2 DEF TypeOK
<1>f. ASSUME UNCHANGED fleetVars PROVE FleetTypeOK'
  BY <1>1, <1>f DEF FleetTypeOK, fleetVars, machineVars, leaseVars, jobVars, hostVars
<1>r. ASSUME NEW u \in Users, NEW op \in Ops, NEW ms \in SUBSET Machines,
             NEW force \in BOOLEAN, Request(u, op, ms, force)
      PROVE  ApiTypeOK'
  BY <1>1, <1>r DEF ApiTypeOK, Request, Requests
<1>z. ASSUME NEW u \in Users, ureq' = [ureq EXCEPT ![u] = NoReq]
      PROVE  ApiTypeOK'
  BY <1>1, <1>z DEF ApiTypeOK, NoReq, Requests, Ops
<1>a. ASSUME NEW j \in Jobs, NewJob(j) PROVE FleetTypeOK' /\ ApiTypeOK'
  BY <1>1, <1>a DEF NewJob, FleetTypeOK, ApiTypeOK, JobStatus, machineVars, leaseVars, hostVars
<1>b. ASSUME NEW j \in Jobs, RemoveJob(j) PROVE FleetTypeOK' /\ ApiTypeOK'
  BY <1>1, <1>b DEF RemoveJob, FleetTypeOK, ApiTypeOK, machineVars, leaseVars, hostVars
<1>c. ASSUME NEW j \in Jobs, HarnessComplete(j) PROVE FleetTypeOK' /\ ApiTypeOK'
  BY <1>1, <1>c
    DEF HarnessComplete, CompleteJob, FleetTypeOK, ApiTypeOK, JobStatus, ProcState,
        machineVars, leaseVars
<1>d. ASSUME NEW j \in Jobs, HarnessDies(j) PROVE FleetTypeOK' /\ ApiTypeOK'
  BY <1>1, <1>d
    DEF HarnessDies, FleetTypeOK, ApiTypeOK, ProcState, machineVars, leaseVars, jobVars
<1>h. ASSUME NEW j \in Jobs, HarnessBegins(j) PROVE FleetTypeOK' /\ ApiTypeOK'
  BY <1>1, <1>h
    DEF HarnessBegins, FleetTypeOK, ApiTypeOK, ProcState, machineVars, leaseVars, jobVars
<1>e. ASSUME NEW u \in Users, UserNext(u) PROVE FleetTypeOK' /\ ApiTypeOK'
  <2>1. ureq[u].ms \in SUBSET Machines
    BY <1>1 DEF ApiTypeOK, Requests
  <2>2. ASSUME NEW j \in Jobs, RemoveJobAndReturn(u, j) PROVE FleetTypeOK' /\ ApiTypeOK'
    <3>1. FleetTypeOK'
      BY <1>1, <2>2 DEF RemoveJobAndReturn, FleetTypeOK, machineVars, leaseVars, hostVars
    <3>2. MachinesOf(j) \in SUBSET Machines
      BY <1>1 DEF FleetTypeOK, Placement, MachinesOf, Members
    <3> QED
      BY <1>r, <2>2, <3>1, <3>2 DEF RemoveJobAndReturn, Ops
  <2>3. ASSUME NEW m \in Machines, NEW force \in BOOLEAN,
               LeaseCheck(u, m, force) \/ ReturnCheck(u, m, force)
        PROVE  FleetTypeOK' /\ ApiTypeOK'
    <3>1. Request(u, "lease", {m}, force) \/ Request(u, "return", {m}, force)
      BY <2>3 DEF LeaseCheck, ReturnCheck
    <3> QED
      BY <1>f, <1>r, <2>3, <3>1 DEF LeaseCheck, ReturnCheck, Ops
  <2>4. CASE LeaseWrite(u)
    BY <1>1, <1>z, <2>1, <2>4 DEF LeaseWrite, FleetTypeOK, machineVars, jobVars, hostVars
  <2>5. CASE ReturnJobMachines(u)
    BY <1>f, <1>r, <1>z, <2>1, <2>5 DEF ReturnJobMachines, Ops
  <2>6. CASE ReturnWrite(u)
    BY <1>1, <1>z, <2>1, <2>6
      DEF ReturnWrite, ClearLease, FleetTypeOK, machineVars, jobVars, hostVars
  <2> QED
    BY <1>e, <2>2, <2>3, <2>4, <2>5, <2>6 DEF UserNext
<1>g. ASSUME NEW m \in Machines, LeaseRunsOut(m) PROVE FleetTypeOK' /\ ApiTypeOK'
  BY <1>1, <1>g DEF LeaseRunsOut, FleetTypeOK, ApiTypeOK, machineVars, jobVars, hostVars
<1> QED
  BY <1>a, <1>b, <1>c, <1>d, <1>e, <1>g, <1>h DEF ApiStep, ApiNext
=============================================================================
