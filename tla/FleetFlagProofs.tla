--------------------------- MODULE FleetFlagProofs ---------------------------
(***************************************************************************)
(* What the flag DEAD_JOB is worth: FlagInv is an invariant beside IInv,   *)
(* for any number of runs that start, probe and flag jobs at the same      *)
(* time, and are killed.                                                   *)
(***************************************************************************)
EXTENDS FleetProofs

Scheduled == {"running", "done"}

\* Run d is at a step that FlagInv speaks of only if it was there before.
SameRun(d) ==
  cpc'[d] \in {"launch", "recordpid", "probe", "dead"} =>
    cpc'[d] = cpc[d] /\ ccur'[d] = ccur[d] /\ cseen'[d] = cseen[d]

\* The first machine of the job at hand of a run that starts it is at the
\* run's site.
LEMMA StartsHere ==
  ASSUME IInv, FlagInv, NEW c \in Ctrls, cpc[c] \in {"launch", "recordpid"}
  PROVE  /\ JobOf(c) \in Jobs /\ JobOf(c) \notin deadjob
         /\ RowOf(c, ccur[c]) /\ jstatus[JobOf(c)] \in Scheduled
         /\ ccur[c].name = jmach[JobOf(c)].prim
         /\ SiteOf[jmach[JobOf(c)].prim] = SiteC(c)
<1>1. CASE cpc[c] = "launch"
  <2>1. /\ ccur[c].name \in Machines /\ JobOf(c) \in Jobs /\ RowOf(c, ccur[c])
        /\ mstatus[ccur[c].name] = "running" /\ mjob[ccur[c].name] = JobOf(c)
        /\ jstatus[JobOf(c)] \in Scheduled
    BY <1>1, AtHand DEF Marked, IInv, CtlInv, CtlGood, JobAtHand, Scheduled
  <2>2. ccur[c].name = jmach[JobOf(c)].prim
    BY <2>1 DEF IInv, TableInv, BusyInItsPlace, Busy
  <2> QED
    BY <1>1, <2>1, <2>2 DEF FlagInv, StartAtHand, RowOf
<1>2. CASE cpc[c] = "recordpid"
  BY <1>2, RowMachine DEF FlagInv, StartAtHand, RowOf, JobOf, Scheduled
<1> QED
  BY <1>1, <1>2

\* A machine that is scheduled or running for a job another run is starting
\* is not at the site of this one.
LEMMA StartedElsewhere ==
  ASSUME IInv, FlagInv, NEW c \in Ctrls, cpc[c] \in {"launch", "recordpid"},
         NEW d \in Ctrls, d # c, cpc[d] # "off",
         NEW m \in Machines, SiteOf[m] = SiteC(d), mstatus[m] \in {"scheduled", "running"}
  PROVE  mjob[m] # JobOf(c)
<1>1. m = jmach[mjob[m]].prim
  BY DEF IInv, TableInv, BusyInItsPlace, Busy
<1>2. SiteC(d) # SiteC(c)
  BY OneRunPerSite
<1> QED
  BY <1>1, <1>2, StartsHere

\* So a run that probes never looks at a job another run is starting.
LEMMA ProbesOthers ==
  ASSUME IInv, FlagInv, NEW c \in Ctrls, cpc[c] \in {"launch", "recordpid"},
         NEW d \in Ctrls, cpc[d] \in {"probe", "dead"}
  PROVE  JobOf(d) # JobOf(c)
<1>1. /\ ccur[d].name \in Machines /\ SiteOf[ccur[d].name] = SiteC(d)
      /\ mjob[ccur[d].name] = JobOf(d) /\ mstatus[ccur[d].name] = "running"
  BY AtHand DEF AsListed, IInv, CtlInv, CtlGood, RowAtHand, Current
<1> QED
  BY <1>1, StartedElsewhere

\* A step that flags, starts and records nothing.
LEMMA FlagsKept ==
  ASSUME IInv, FlagInv, UNCHANGED <<deadjob, hpid>>, crashes > 0 => crashes' > 0,
         \A j \in Jobs : HasProcess(j)' => HasProcess(j),
         \A j \in Jobs : jstatus[j] \in Scheduled =>
           jstatus'[j] \in Scheduled /\ jmach'[j] = jmach[j],
         \A m \in Machines : mstatus'[m] = "scheduled" =>
           \/ mstatus[m] = "scheduled" /\ mjob'[m] = mjob[m]
           \/ jstatus[mjob'[m]] = "new",
         \A d \in Ctrls : cpc[d] = "recordpid" =>
           crashes' > 0 \/ (cpc'[d] = "recordpid" /\ ccur'[d] = ccur[d])
  PROVE  /\ FlagMeansDead' /\ FlaggedWasMarked' /\ PidOnItsWay'
         /\ \A d \in Ctrls : SameRun(d) => StartAtHand(d)' /\ ProbeAtHand(d)'
<1>1. deadjob \subseteq Jobs
  BY DEF IInv, TypeOK, FleetTypeOK
<1>2. FlagMeansDead'
  BY <1>1 DEF FlagInv, FlagMeansDead
<1>3. FlaggedWasMarked'
  BY <1>1 DEF FlagInv, FlaggedWasMarked, Scheduled
<1>4. PidOnItsWay'
  BY DEF FlagInv, PidOnItsWay, Unrecorded, Spawned, JobOf
<1>5. ASSUME NEW d \in Ctrls, SameRun(d) PROVE StartAtHand(d)' /\ ProbeAtHand(d)'
  <2>1. StartAtHand(d)'
    BY <1>5, StartsHere DEF StartAtHand, SameRun, RowOf, JobOf, SiteC, Scheduled
  <2>2. ProbeAtHand(d)'
    <3>1. SUFFICES ASSUME cpc'[d] \in {"probe", "dead"} PROVE ProbeAtHand(d)'
      BY DEF ProbeAtHand
    <3>2. cpc'[d] = cpc[d] /\ JobOf(d)' = JobOf(d) /\ cseen'[d] = cseen[d] /\ JobOf(d) \in Jobs
      BY <1>5, <3>1, AtHand DEF SameRun, JobOf, AsListed
    <3> QED
      BY <3>2 DEF FlagInv, ProbeAtHand
  <2> QED
    BY <2>1, <2>2
<1> QED
  BY <1>2, <1>3, <1>4, <1>5

-----------------------------------------------------------------------------
LEMMA SchedulerKeepsFlags ==
  ASSUME IInv, FlagInv, SchedulerStep
  PROVE  FlagInv'
<1>1. FleetTypeOK /\ SchedTypeOK /\ SchedInv
  BY DEF IInv, TypeOK
<1>2. PICK s \in Schedulers : ScStart(s) \/ ScRun(s) \/ ScCrash(s)
  BY DEF SchedulerStep, SchedulerNext
<1>3. UNCHANGED <<cpc, ccur, cseen>>
  BY DEF SchedulerStep, ctlVars
<1>4. UNCHANGED <<deadjob, hpid, proc>> /\ (crashes > 0 => crashes' > 0)
  BY <1>1, <1>2 DEF FleetTypeOK, ScRun, ScStart, ScCrash, CountCrash, ScCountRunning, ScCountScheduled,
        ScFindExpired, ScClearExpired, ScListMachines, ScReadJobs, ScSelect, ScPass,
        ScRecord, ScAssign, ScEnd, fleetVars, jobVars, hostVars
<1>5. /\ \A j \in Jobs : jstatus[j] \in Scheduled =>
           jstatus'[j] \in Scheduled /\ jmach'[j] = jmach[j]
      /\ \A m \in Machines : mstatus'[m] = "scheduled" =>
           \/ mstatus[m] = "scheduled" /\ mjob'[m] = mjob[m]
           \/ jstatus[mjob'[m]] = "new"
  <2>1. CASE ScAssign(s)
    <3>1. sjob[s] \in Jobs /\ jstatus[sjob[s]] = "new" /\ ssel[s] \in Placement
          /\ ssel[s].prim \in Machines
      BY <1>1, <2>1 DEF ScAssign, SchedInv, SchedGood, ChoiceGood, HasJob, SchedTypeOK
    <3>2. jmach' = jmach /\ \A j \in Jobs : j # sjob[s] => jstatus'[j] = jstatus[j]
      BY <1>1, <2>1, <3>1 DEF ScAssign, MarkRunning, FleetTypeOK
    <3>3. ASSUME NEW m \in Machines, mstatus'[m] = "scheduled"
          PROVE  \/ mstatus[m] = "scheduled" /\ mjob'[m] = mjob[m]
                 \/ jstatus[mjob'[m]] = "new"
      <4>0. /\ mstatus'[m] = AssignedStatus(m, ssel[s])
            /\ mjob'[m] = IF m \in Members(ssel[s]) /\ ~Busy(m) THEN sjob[s] ELSE mjob[m]
        BY <2>1 DEF ScAssign
      <4>1. CASE Busy(m)
        BY <3>3, <4>0, <4>1 DEF AssignedStatus
      <4>2. CASE ~Busy(m)
        <5>1. m \in Members(ssel[s])
          BY <3>3, <4>0, <4>2 DEF AssignedStatus, Busy
        <5> QED
          BY <3>1, <4>0, <4>2, <5>1
      <4> QED
        BY <4>1, <4>2
    <3> QED
      BY <3>1, <3>2, <3>3 DEF Scheduled
  <2>2. CASE ScRecord(s)
    <3>1. jstatus[sjob[s]] = "new" /\ UNCHANGED <<mstatus, mjob, jstatus>>
      BY <1>1, <2>2 DEF ScRecord, SchedInv, SchedGood, ChoiceGood, HasJob, machineVars
    <3> QED
      BY <1>1, <2>2, <3>1 DEF ScRecord, FleetTypeOK, Scheduled
  <2>3. CASE ~(ScAssign(s) \/ ScRecord(s))
    <3>1. UNCHANGED <<mstatus, mjob, jstatus, jmach>>
      BY <1>2, <2>3 DEF ScRun, ScStart, ScCrash, CountCrash, ScCountRunning, ScCountScheduled,
        ScFindExpired, ScClearExpired, ScListMachines, ScReadJobs, ScSelect, ScPass,
        ScEnd, fleetVars, machineVars, jobVars
    <3> QED
      BY <3>1
  <2> QED
    BY <2>1, <2>2, <2>3
<1> QED
  BY <1>3, <1>4, <1>5, FlagsKept DEF FlagInv, SameRun, HasProcess

LEMMA ApiKeepsFlags ==
  ASSUME IInv, FlagInv, ApiStep
  PROVE  FlagInv'
<1>1. UNCHANGED <<cpc, ccur, cseen>>
  BY DEF ApiStep, ctlVars
<1>2. UNCHANGED <<mstatus, mjob, deadjob, hpid, jmach, crashes>>
  BY DEF ApiStep, ApiNext, NewJob, RemoveJob, HarnessBegins, HarnessComplete, HarnessDies, UserNext,
         RemoveJobAndReturn, LeaseCheck, ReturnCheck, LeaseWrite, ReturnJobMachines, ReturnWrite,
         LeaseRunsOut, fleetVars, machineVars, jobVars, hostVars
<1>3. FleetTypeOK /\ TableInv
  BY DEF IInv, TypeOK
<1>4. /\ \A j \in Jobs : HasProcess(j)' => HasProcess(j)
      /\ \A j \in Jobs : jstatus[j] \in Scheduled => jstatus'[j] \in Scheduled
  <2>1. ASSUME NEW j \in Jobs,
               HarnessBegins(j) \/ HarnessComplete(j) \/ HarnessDies(j) \/ NewJob(j)
        PROVE  <1>4
    BY <1>3, <2>1 DEF FleetTypeOK, HarnessBegins, HarnessComplete, HarnessDies, NewJob, CompleteJob, HasProcess,
                      Scheduled, hostVars, jobVars
  <2>2. CASE UNCHANGED <<jstatus, proc>>
    BY <2>2 DEF HasProcess
  <2> QED
    BY <2>1, <2>2
      DEF ApiStep, ApiNext, RemoveJob, UserNext, RemoveJobAndReturn, LeaseCheck, ReturnCheck,
         LeaseWrite, ReturnJobMachines, ReturnWrite, LeaseRunsOut, fleetVars, jobVars, hostVars
<1> QED
  BY <1>1, <1>2, <1>4, FlagsKept DEF FlagInv, SameRun

-----------------------------------------------------------------------------
(***************************************************************************)
(* The controllers.                                                        *)
(***************************************************************************)
\* What a run does to the other runs, and to its own step.
LEMMA OwnStep ==
  ASSUME IInv, NEW c \in Ctrls
  PROVE  /\ \A label : CGoto(c, label) => cpc'[c] = label /\ \A d \in Ctrls : d # c => cpc'[d] = cpc[d]
         /\ \A r, seen, label : TakeUp(c, r, seen, label) =>
              /\ cpc'[c] = label /\ ccur'[c] = r /\ cseen'[c] = seen
              /\ \A d \in Ctrls : d # c =>
                   cpc'[d] = cpc[d] /\ ccur'[d] = ccur[d] /\ cseen'[d] = cseen[d]
         /\ CForget(c) => /\ cpc'[c] = "off"
                          /\ \A d \in Ctrls : d # c =>
                               cpc'[d] = cpc[d] /\ ccur'[d] = ccur[d] /\ cseen'[d] = cseen[d]
  BY DEF IInv, TypeOK, CtlTypeOK, CGoto, TakeUp, CForget

\* A run that goes on to a step FlagInv says nothing of, and starts, flags and
\* records nothing.
LEMMA QuietStepKeepsFlags ==
  ASSUME IInv, FlagInv, NEW c \in Ctrls, cpc[c] # "recordpid",
         cpc'[c] \notin {"launch", "recordpid", "probe", "dead"},
         \A d \in Ctrls : d # c => cpc'[d] = cpc[d] /\ ccur'[d] = ccur[d] /\ cseen'[d] = cseen[d],
         UNCHANGED <<deadjob, hpid, crashes, jmach>>,
         \A j \in Jobs : HasProcess(j)' => HasProcess(j),
         \A j \in Jobs : jstatus[j] \in Scheduled => jstatus'[j] \in Scheduled,
         \A m \in Machines : mstatus'[m] = "scheduled" =>
           mstatus[m] = "scheduled" /\ mjob'[m] = mjob[m]
  PROVE  FlagInv'
<1>1. \A d \in Ctrls : SameRun(d)
  BY DEF SameRun
<1> QED
  BY <1>1, FlagsKept DEF FlagInv

\* Reading the row of a machine and its job.
LEMMA ExamineKeepsFlags ==
  ASSUME IInv, FlagInv, NEW c \in Ctrls, CtlExamine(c)
  PROVE  FlagInv'
<1>1. PICK r \in ctodo[c] : IF StepFor(r, Seen(r.jobid)) = "scan" THEN DoneWith(c)
                            ELSE TakeUp(c, r, Seen(r.jobid), StepFor(r, Seen(r.jobid)))
  BY DEF CtlExamine
<1> DEFINE step == StepFor(r, Seen(r.jobid))
<1>2. /\ cpc'[c] = step /\ cpc[c] = "scan"
      /\ step # "scan" => ccur'[c] = r /\ cseen'[c] = Seen(r.jobid)
      /\ \A d \in Ctrls : d # c => cpc'[d] = cpc[d] /\ ccur'[d] = ccur[d] /\ cseen'[d] = cseen[d]
  BY <1>1, OwnStep DEF CtlExamine, DoneWith
<1>3. step \in {"scan", "free", "complete", "probe"} /\ (step = "probe" => r.rawstatus = "running")
  BY DEF StepFor
<1>4. UNCHANGED fleetVars
  BY DEF CtlExamine
<1> HIDE DEF step
<1>5. /\ FlagMeansDead' /\ FlaggedWasMarked' /\ PidOnItsWay'
      /\ \A d \in Ctrls : SameRun(d) => StartAtHand(d)' /\ ProbeAtHand(d)'
  BY <1>2, <1>4, FlagsKept DEF fleetVars, machineVars, jobVars, hostVars, HasProcess
<1>6. \A d \in Ctrls : d # c => SameRun(d)
  BY <1>2 DEF SameRun
<1>7. StartAtHand(c)' /\ ProbeAtHand(c)'
  <2>1. CASE step # "probe"
    BY <1>2, <1>3, <2>1 DEF StartAtHand, ProbeAtHand
  <2>2. CASE step = "probe"
    <3>1. SUFFICES ASSUME "pid" \notin Seen(r.jobid), HasProcess(r.jobid)
                   PROVE  r.jobid \notin hpid /\ crashes > 0
      BY <1>2, <1>4, <2>2
        DEF StartAtHand, ProbeAtHand, JobOf, HasProcess, fleetVars, jobVars, hostVars
    <3>2. RowOf(c, r) /\ Current(r) /\ r.jobid \in Jobs /\ r.name \in Machines
          /\ SiteOf[r.name] = SiteC(c) /\ mstatus[r.name] = "running" /\ mjob[r.name] = r.jobid
      BY <1>3, <2>2, RowMachine DEF IInv, CtlInv, CtlGood, TodoCurrent, Current, RowOf
    <3>3. r.jobid \notin hpid
      BY <3>1 DEF Seen
    <3>4. ASSUME NEW d \in Ctrls, Spawned(d, r.jobid) PROVE FALSE
      BY <1>2, <3>2, <3>4, StartedElsewhere DEF Spawned
    <3> QED
      BY <3>1, <3>2, <3>3, <3>4 DEF FlagInv, PidOnItsWay, Unrecorded
  <2> QED
    BY <2>1, <2>2
<1> QED
  BY <1>5, <1>6, <1>7 DEF FlagInv

\* Looking for the process, and flagging the job when it is not there.
LEMMA ProbeKeepsFlags ==
  ASSUME IInv, FlagInv, NEW c \in Ctrls, CtlProbe(c) \/ CtlFlagDead(c)
  PROVE  FlagInv'
<1>1. /\ cpc[c] \in {"probe", "dead"}
      /\ \A d \in Ctrls : d # c => cpc'[d] = cpc[d] /\ ccur'[d] = ccur[d] /\ cseen'[d] = cseen[d]
  BY OwnStep DEF CtlProbe, CtlFlagDead, GoOn, DoneWith
<1>2. cpc'[c] \notin {"launch", "recordpid", "probe"}
      /\ (cpc'[c] = "dead" => cpc[c] = "probe" /\ ccur' = ccur /\ cseen' = cseen)
  BY <1>1, OwnStep DEF CtlProbe, CtlFlagDead, GoOn, DoneWith
<1>3. /\ JobOf(c) \in Jobs /\ ccur[c].name \in Machines /\ mjob[ccur[c].name] = JobOf(c)
      /\ mstatus[ccur[c].name] = "running" /\ jstatus[JobOf(c)] \in Scheduled
  BY <1>1, AtHand DEF AsListed, IInv, CtlInv, CtlGood, RowAtHand, Current, Scheduled
<1>4. CASE CtlProbe(c)
  <2>1. UNCHANGED fleetVars
    BY <1>4 DEF CtlProbe
  <2>2. /\ FlagMeansDead' /\ FlaggedWasMarked' /\ PidOnItsWay'
        /\ \A d \in Ctrls : SameRun(d) => StartAtHand(d)' /\ ProbeAtHand(d)'
    BY <1>1, <2>1, FlagsKept DEF fleetVars, machineVars, jobVars, hostVars, HasProcess
  <2>3. \A d \in Ctrls : d # c => SameRun(d)
    BY <1>1 DEF SameRun
  <2>4. StartAtHand(c)' /\ ProbeAtHand(c)'
    <3>1. cpc'[c] = "dead" => ~("pid" \in cseen[c] /\ HasProcess(JobOf(c)))
      BY <1>4, OwnStep DEF CtlProbe, GoOn, DoneWith
    <3>2. cpc[c] = "probe"
      BY <1>4 DEF CtlProbe
    <3> QED
      BY <1>2, <2>1, <3>1, <3>2
        DEF FlagInv, StartAtHand, ProbeAtHand, JobOf, HasProcess, fleetVars, jobVars, hostVars
  <2> QED
    BY <2>2, <2>3, <2>4 DEF FlagInv
<1>5. CASE CtlFlagDead(c)
  <2>1. /\ deadjob' = deadjob \cup {JobOf(c)} /\ cpc[c] = "dead"
        /\ UNCHANGED <<mstatus, mjob, jstatus, jmach, hpid, proc, crashes>>
    BY <1>5 DEF CtlFlagDead, machineVars, hostVars
  <2>2. FlagMeansDead'
    BY <2>1 DEF FlagInv, FlagMeansDead, ProbeAtHand, HasProcess
  <2>3. FlaggedWasMarked'
    <3>1. ASSUME NEW m \in Machines, mstatus[m] = "scheduled" PROVE mjob[m] # JobOf(c)
      BY <1>3, <3>1, FirstMachine
    <3> QED
      BY <1>3, <2>1, <3>1 DEF FlagInv, FlaggedWasMarked, Scheduled
  <2>4. PidOnItsWay'
    <3>1. \A d \in Ctrls : cpc[d] = "recordpid" => cpc'[d] = "recordpid" /\ JobOf(d)' = JobOf(d)
      BY <1>1, <2>1 DEF JobOf
    <3> QED
      BY <2>1, <3>1 DEF FlagInv, PidOnItsWay, Unrecorded, Spawned, HasProcess
  <2>5. ASSUME NEW d \in Ctrls PROVE StartAtHand(d)' /\ ProbeAtHand(d)'
    <3>1. CASE d = c
      BY <1>2, <2>1, <3>1 DEF StartAtHand, ProbeAtHand
    <3>2. CASE d # c
      <4>1. cpc[d] \in {"launch", "recordpid"} => JobOf(d) # JobOf(c)
        BY <1>1, ProbesOthers
      <4>2. cpc'[d] = cpc[d] /\ ccur'[d] = ccur[d] /\ cseen'[d] = cseen[d]
        BY <1>1, <3>2
      <4> QED
        BY <2>1, <4>1, <4>2 DEF FlagInv, StartAtHand, ProbeAtHand, JobOf, RowOf, HasProcess, SiteC
    <3> QED
      BY <3>1, <3>2
  <2> QED
    BY <2>2, <2>3, <2>4, <2>5 DEF FlagInv
<1> QED
  BY <1>4, <1>5

\* Marking the machine of a job that is about to be started.
LEMMA MarkKeepsFlags ==
  ASSUME IInv, FlagInv, NEW c \in Ctrls, CtlMark(c)
  PROVE  FlagInv'
<1>1. PICK r \in cnew[c] : /\ SetMachineStatus({q.name : q \in Group(c, r)}, "running")
                           /\ TakeUp(c, r, {}, "launch")
  BY DEF CtlMark
<1>2. /\ cpc[c] = "scan" /\ cpc'[c] = "launch" /\ ccur'[c] = r
      /\ \A d \in Ctrls : d # c => cpc'[d] = cpc[d] /\ ccur'[d] = ccur[d] /\ cseen'[d] = cseen[d]
  BY <1>1, OwnStep DEF CtlMark, Scanned
<1>3. UNCHANGED <<mjob, jstatus, jmach, deadjob, hpid, proc, crashes>>
  BY DEF CtlMark, jobVars, hostVars
<1>4. \A m \in Machines : mstatus'[m] = "scheduled" => mstatus[m] = "scheduled"
  BY <1>1 DEF SetMachineStatus
<1>5. \A d \in Ctrls : d # c => SameRun(d)
  BY <1>2 DEF SameRun
<1>6. /\ FlagMeansDead' /\ FlaggedWasMarked' /\ PidOnItsWay'
      /\ \A d \in Ctrls : SameRun(d) => StartAtHand(d)' /\ ProbeAtHand(d)'
  BY <1>2, <1>3, <1>4, FlagsKept DEF HasProcess
<1>7. r.jobid \notin deadjob
  <2>1. RowOf(c, r) /\ Current(r) /\ r.rawstatus = "scheduled"
    BY DEF IInv, CtlInv, CtlGood, NewCurrent
  <2> QED
    BY <2>1, RowMachine DEF FlagInv, FlaggedWasMarked, Current
<1>8. StartAtHand(c)' /\ ProbeAtHand(c)'
  BY <1>2, <1>3, <1>7 DEF StartAtHand, ProbeAtHand, JobOf
<1> QED
  BY <1>5, <1>6, <1>8 DEF FlagInv

\* Spawning a harness.
LEMMA LaunchKeepsFlags ==
  ASSUME IInv, FlagInv, NEW c \in Ctrls, CtlLaunch(c)
  PROVE  FlagInv'
<1> DEFINE j == JobOf(c)
<1>1. /\ cpc[c] = "launch" /\ cpc'[c] \in {"recordpid", "fail"}
      /\ \A d \in Ctrls : d # c => cpc'[d] = cpc[d]
      /\ UNCHANGED <<ccur, cseen, mstatus, mjob, jstatus, jmach, deadjob, hpid, crashes>>
  BY OwnStep DEF CtlLaunch, GoOn, machineVars, jobVars
<1>2. /\ j \in Jobs /\ j \notin deadjob /\ RowOf(c, ccur[c]) /\ jstatus[j] \in Scheduled
      /\ ccur[c].name = jmach[j].prim
  BY <1>1, StartsHere
<1>3. /\ \A k \in Jobs : k # j => proc'[k] = proc[k]
      /\ cpc'[c] # "recordpid" => proc' = proc
  BY <1>1, OwnStep DEF CtlLaunch, GoOn, IInv, TypeOK, FleetTypeOK
<1>4. FlagMeansDead' /\ FlaggedWasMarked'
  <2>1. \A k \in deadjob : k \in Jobs /\ k # j
    BY <1>2 DEF IInv, TypeOK, FleetTypeOK
  <2> QED
    BY <1>1, <1>3, <2>1 DEF FlagInv, FlagMeansDead, FlaggedWasMarked, HasProcess
<1>5. PidOnItsWay'
  <2> SUFFICES ASSUME NEW k \in Jobs, Unrecorded(k)', ~(crashes > 0)
               PROVE  \E d \in Ctrls : Spawned(d, k)'
    BY <1>1 DEF PidOnItsWay
  <2>1. CASE k = j /\ cpc'[c] = "recordpid"
    BY <1>1, <2>1 DEF Spawned, JobOf
  <2>2. CASE k # j \/ cpc'[c] # "recordpid"
    <3>1. Unrecorded(k)
      BY <1>1, <1>3, <2>2 DEF Unrecorded, HasProcess
    <3>2. PICK d \in Ctrls : Spawned(d, k)
      BY <3>1 DEF FlagInv, PidOnItsWay
    <3> QED
      BY <1>1, <3>2 DEF Spawned, JobOf
  <2> QED
    BY <2>1, <2>2
<1>6. ASSUME NEW d \in Ctrls PROVE StartAtHand(d)' /\ ProbeAtHand(d)'
  <2>1. CASE d = c
    BY <1>1, <1>2, <2>1 DEF StartAtHand, ProbeAtHand, JobOf, RowOf, SiteC, Scheduled
  <2>2. CASE d # c
    <3>1. cpc[d] \in {"probe", "dead"} => JobOf(d) # j /\ JobOf(d) \in Jobs
      BY <1>1, ProbesOthers, AtHand DEF AsListed
    <3> QED
      BY <1>1, <1>3, <2>2, <3>1 DEF FlagInv, StartAtHand, ProbeAtHand, JobOf, RowOf, SiteC, HasProcess
  <2> QED
    BY <2>1, <2>2
<1> QED
  BY <1>4, <1>5, <1>6 DEF FlagInv

\* Recording its pid.
LEMMA RecordKeepsFlags ==
  ASSUME IInv, FlagInv, NEW c \in Ctrls, CtlRecordPid(c)
  PROVE  FlagInv'
<1> DEFINE j == JobOf(c)
<1>1. /\ cpc[c] = "recordpid" /\ cpc'[c] = "scan" /\ hpid' = hpid \cup {j}
      /\ \A d \in Ctrls : d # c => cpc'[d] = cpc[d] /\ ccur'[d] = ccur[d] /\ cseen'[d] = cseen[d]
      /\ UNCHANGED <<mstatus, mjob, jstatus, jmach, deadjob, proc, crashes>>
  BY OwnStep DEF CtlRecordPid, Started, DoneWith, machineVars, hostVars
<1>2. j \in Jobs /\ j \notin deadjob
  BY <1>1, StartsHere
<1>3. FlagMeansDead' /\ FlaggedWasMarked'
  BY <1>1, <1>2 DEF FlagInv, FlagMeansDead, FlaggedWasMarked, HasProcess
<1>4. PidOnItsWay'
  <2> SUFFICES ASSUME NEW k \in Jobs, Unrecorded(k)', ~(crashes > 0)
               PROVE  \E d \in Ctrls : Spawned(d, k)'
    BY <1>1 DEF PidOnItsWay
  <2>1. Unrecorded(k) /\ k # j
    BY <1>1 DEF Unrecorded, HasProcess
  <2>2. PICK d \in Ctrls : Spawned(d, k)
    BY <2>1 DEF FlagInv, PidOnItsWay
  <2> QED
    BY <1>1, <2>1, <2>2 DEF Spawned, JobOf
<1>5. ASSUME NEW d \in Ctrls PROVE StartAtHand(d)' /\ ProbeAtHand(d)'
  <2>1. CASE d = c
    BY <1>1, <2>1 DEF StartAtHand, ProbeAtHand
  <2>2. CASE d # c
    <3>1. cpc[d] \in {"probe", "dead"} => JobOf(d) # j
      BY <1>1, ProbesOthers
    <3> QED
      BY <1>1, <2>2, <3>1 DEF FlagInv, StartAtHand, ProbeAtHand, JobOf, RowOf, SiteC, HasProcess
  <2> QED
    BY <2>1, <2>2
<1> QED
  BY <1>3, <1>4, <1>5 DEF FlagInv

\* The other steps of a run.
LEMMA OtherStepKeepsFlags ==
  ASSUME IInv, FlagInv, NEW c \in Ctrls,
         \/ \E allowed \in 0..BurstJobs : CtlStart(c, allowed)
         \/ CtlKill(c) \/ CtlComplete(c) \/ CtlFree(c) \/ CtlFail(c) \/ CtlEnd(c)
  PROVE  FlagInv'
<1>1. /\ cpc[c] # "recordpid" /\ cpc'[c] \notin {"launch", "recordpid", "probe", "dead"}
      /\ \A d \in Ctrls : d # c => cpc'[d] = cpc[d] /\ ccur'[d] = ccur[d] /\ cseen'[d] = cseen[d]
  BY OwnStep DEF CtlStart, CtlKill, CtlComplete, CtlFree, CtlFail, CtlEnd, GoOn, DoneWith,
                 Started, Scanned
<1>2. UNCHANGED <<deadjob, hpid, crashes, jmach, mjob>>
  BY DEF CtlStart, CtlKill, CtlComplete, CtlFree, CtlFail, CtlEnd, fleetVars, machineVars,
         jobVars, hostVars
<1>3. \A j \in Jobs : HasProcess(j)' => HasProcess(j)
  BY DEF CtlStart, CtlKill, Killed, Live, CtlComplete, CtlFree, CtlFail, CtlEnd, fleetVars, hostVars, HasProcess,
         IInv, TypeOK, FleetTypeOK
<1>4. \A j \in Jobs : jstatus[j] \in Scheduled => jstatus'[j] \in Scheduled
  BY DEF CtlStart, CtlKill, CtlComplete, CtlFree, CtlFail, CtlEnd, fleetVars, jobVars,
         CompleteJob, Scheduled, IInv, TypeOK, FleetTypeOK
<1>5. \A m \in Machines : mstatus'[m] = "scheduled" => mstatus[m] = "scheduled"
  BY DEF CtlStart, CtlKill, CtlComplete, CtlFree, CtlFail, CtlEnd, fleetVars, machineVars,
         SetMachineStatus
<1> QED
  BY <1>1, <1>2, <1>3, <1>4, <1>5, QuietStepKeepsFlags

LEMMA CrashKeepsFlags ==
  ASSUME IInv, FlagInv, NEW c \in Ctrls, CtlCrash(c)
  PROVE  FlagInv'
<1>1. crashes' > 0
  BY DEF CtlCrash, CountCrash, IInv, TypeOK, FleetTypeOK
<1>2. UNCHANGED <<mstatus, mjob, jstatus, jmach, deadjob, hpid, proc>>
  BY DEF CtlCrash, CountCrash, machineVars, jobVars
<1>3. \A d \in Ctrls : SameRun(d)
  BY OwnStep DEF CtlCrash, SameRun
<1> QED
  BY <1>1, <1>2, <1>3, FlagsKept DEF FlagInv, HasProcess

LEMMA ControllerKeepsFlags ==
  ASSUME IInv, FlagInv, ControllerStep
  PROVE  FlagInv'
<1>1. PICK c \in Ctrls : (\E allowed \in 0..BurstJobs : CtlStart(c, allowed))
                         \/ CtlRun(c) \/ CtlCrash(c)
  BY DEF ControllerStep, ControllerNext
<1> QED
  BY <1>1, ExamineKeepsFlags, ProbeKeepsFlags, MarkKeepsFlags, LaunchKeepsFlags, RecordKeepsFlags,
     OtherStepKeepsFlags, CrashKeepsFlags DEF CtlRun

-----------------------------------------------------------------------------
LEMMA FlagInvariance == Spec => []FlagInv
<1>1. Init => FlagInv
  BY DEF Init, FleetInit, CtlInit, FlagInv, FlagMeansDead, FlaggedWasMarked, PidOnItsWay,
         Unrecorded, HasProcess, StartAtHand, ProbeAtHand
<1>2. IInv /\ FlagInv /\ [Next]_vars => FlagInv'
  <2> SUFFICES ASSUME IInv, FlagInv, [Next]_vars PROVE FlagInv'
    OBVIOUS
  <2>1. CASE UNCHANGED vars
    BY <2>1, FlagsKept
      DEF vars, fleetVars, machineVars, jobVars, hostVars, ctlVars, FlagInv, SameRun, HasProcess
  <2> QED
    BY <2>1, SchedulerKeepsFlags, ControllerKeepsFlags, ApiKeepsFlags DEF Next
<1> QED
  BY <1>1, <1>2, Invariance, PTL DEF Spec

\* A job flagged DEAD_JOB that has a process is one whose HARNESS_PID was
\* never recorded, because a run was killed; whatever runs overlap.
THEOREM FlagIsHonest == Spec => []FlagMeansDead
<1>1. FlagInv => FlagMeansDead
  BY DEF FlagInv
<1> QED
  BY <1>1, FlagInvariance, PTL
=============================================================================
