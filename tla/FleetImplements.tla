--------------------------- MODULE FleetImplements ---------------------------
(***************************************************************************)
(* Fleet implements MachineAlloc: under the refinement mapping of Fleet    *)
(* (Holder, Phase) every step is a step of the abstract allocation or a    *)
(* stutter.                                                                *)
(***************************************************************************)
EXTENDS FleetSiteProofs

AbstractStep == [Alloc!Next]_<<Holder, Phase>>

\* A step that leaves machines, job states and harnesses alone is a stutter.
LEMMA StutterImplements ==
  ASSUME UNCHANGED <<mstatus, mjob, jstatus, proc>>
  PROVE  AbstractStep
  BY DEF AbstractStep, Holder, Phase, Busy

\* So is one that leaves holders and phases alone.
LEMMA SamePhases ==
  ASSUME UNCHANGED <<mstatus, mjob>>,
         \A j \in Jobs : Phase'[j] = Phase[j]
  PROVE  AbstractStep
<1>1. Holder' = Holder
  BY DEF Holder, Busy
<1>2. Phase' = Phase
  BY DEF Phase
<1> QED
  BY <1>1, <1>2 DEF AbstractStep

\* What the phase of a job is, while wrappers and harnesses are those of running
\* jobs, or of finished ones that killJob passed over.
LEMMA Phases ==
  ASSUME IInv, NEW j \in Jobs
  PROVE  /\ Phase[j] = "working" <=> proc[j] = "alive"
         /\ Phase[j] = "holding" <=> jstatus[j] = "running" /\ proc[j] \in {"none", "starting"}
         /\ Phase[j] = "missed" <=> jstatus[j] = "running" /\ proc[j] = "missed"
         /\ Phase[j] = "stray" <=> jstatus[j] = "running" /\ proc[j] = "stray"
         /\ Phase[j] = "loose" <=> jstatus[j] = "done" /\ Missed(j)
         /\ Phase[j] = "stopped" <=> jstatus[j] = "running" /\ proc[j] = "exited"
         /\ Phase[j] = "over" <=> jstatus[j] = "done" /\ ~HasProcess(j)
         /\ Phase[j] = "waiting" <=> jstatus[j] \in {"none", "new"}
<1>1. /\ jstatus[j] \in JobStatus /\ proc[j] \in ProcState
      /\ HasProcess(j) => jstatus[j] = "running" \/ (jstatus[j] = "done" /\ Missed(j))
      /\ jstatus[j] \in {"none", "new"} => proc[j] = "none"
  BY DEF IInv, TypeOK, FleetTypeOK, TableInv, HarnessOfRunningJob, UnscheduledNotStarted
<1> QED
  BY <1>1 DEF Phase, PhaseOf, Missed, HasProcess, JobStatus, ProcState

\* A step that concerns one job only moves its phase at most.
LEMMA OneJobMoves ==
  ASSUME NEW j \in Jobs, NEW to, UNCHANGED <<mstatus, mjob>>,
         \A k \in Jobs : k # j => jstatus'[k] = jstatus[k] /\ proc'[k] = proc[k],
         Phase'[j] = to
  PROVE  Holder' = Holder /\ Phase' = [Phase EXCEPT ![j] = to]
<1>1. \A k \in Jobs : k # j => Phase'[k] = Phase[k]
  BY DEF Phase
<1>2. Phase = [k \in Jobs |-> Phase[k]] /\ Phase' = [k \in Jobs |-> Phase'[k]]
  BY DEF Phase
<1>3. Phase' = [Phase EXCEPT ![j] = to]
  BY <1>1, <1>2
<1>4. Holder' = Holder
  BY DEF Holder, Busy
<1> QED
  BY <1>3, <1>4

\* The moves the abstract allocation allows.
Allowed(from, to) ==
  \/ from = to
  \/ from = "holding" /\ to \in {"working", "missed"}
  \/ from = "missed" /\ to = "stray"
  \/ from \in {"missed", "stray"} /\ to = "loose"
  \/ from \in {"holding", "working", "missed", "stray"} /\ to = "stopped"
  \/ from \in {"holding", "working", "stopped", "missed", "stray", "loose"} /\ to = "over"

\* A step that moves one job in a way the abstract allocation allows.
LEMMA MoveImplements ==
  ASSUME NEW j \in Jobs, UNCHANGED <<mstatus, mjob>>,
         \A k \in Jobs : k # j => jstatus'[k] = jstatus[k] /\ proc'[k] = proc[k],
         Allowed(Phase[j], Phase'[j])
  PROVE  AbstractStep
<1> DEFINE to == Phase'[j]
<1>1. Holder' = Holder /\ Phase' = [Phase EXCEPT ![j] = to]
  BY OneJobMoves
<1>2. Phase = [k \in Jobs |-> Phase[k]]
  BY DEF Phase
<1>3. CASE Phase[j] = to
  <2>1. Phase' = Phase
    BY <1>1, <1>2, <1>3
  <2> QED
    BY <1>1, <2>1 DEF AbstractStep
<1> HIDE DEF to
<1>4. CASE Phase[j] # to
  <2>1. Allowed(Phase[j], to)
    BY DEF to
  <2>2. \/ Alloc!Work(j) \/ Alloc!Stop(j) \/ Alloc!Finish(j)
        \/ Alloc!Miss(j) \/ Alloc!Lose(j)
    BY <1>1, <1>4, <2>1 DEF Allowed, Alloc!Work, Alloc!Stop, Alloc!Finish, Alloc!Miss,
       Alloc!Lose, Alloc!Move
  <2> QED
    BY <2>2 DEF AbstractStep, Alloc!Next
<1> QED
  BY <1>3, <1>4

\* The abstract module counts machines as this one does.
LEMMA SameCardinality == \A S : Alloc!Cardinality(S) = Cardinality(S)
  BY DEF Alloc!Cardinality, Cardinality

\* schedule_on is the abstract acquisition: all the machines at once.
LEMMA AssignImplements ==
  ASSUME IInv, SiteInv, NEW s \in Schedulers, ScAssign(s)
  PROVE  AbstractStep
<1> DEFINE j == sjob[s]
           a == ssel[s]
<1>1. FleetTypeOK /\ SchedTypeOK /\ SchedGood(s)
  BY DEF IInv, TypeOK, SchedInv
<1>2. /\ j \in Jobs /\ jstatus[j] = "new"
      /\ a \in Placement /\ a.prim \in Machines /\ a.prim \notin a.rest
      /\ \A m \in Members(a) : mstatus[m] = "idle"
  BY <1>1 DEF ScAssign, SchedGood, ChoiceGood, HasJob, Proper, SchedTypeOK, Busy
<1>3. Members(a) = {a.prim} \cup a.rest /\ Members(a) \in SUBSET Machines
  BY <1>2, FleetAssumption DEF Members, Placement
<1>4. \A m \in Machines :
        /\ m \notin Members(a) => mstatus'[m] = mstatus[m] /\ mjob'[m] = mjob[m]
        /\ m \in Members(a) => mjob'[m] = j /\ mstatus'[m] # "idle"
  BY <1>2, <1>3 DEF ScAssign, AssignedStatus, Busy
<1>5. /\ jstatus'[j] = "running"
      /\ \A k \in Jobs : k # j => jstatus'[k] = jstatus[k]
  BY <1>1, <1>2 DEF ScAssign, MarkRunning, FleetTypeOK
<1> HIDE DEF j, a
<1>6. proc[j] = "none" /\ proc' = proc
  BY <1>2 DEF ScAssign, hostVars, IInv, TableInv, UnscheduledNotStarted
<1>7. Phase[j] = "waiting" /\ Phase' = [Phase EXCEPT ![j] = "holding"]
  <2>1. Phase[j] = "waiting" /\ Phase'[j] = "holding"
    BY <1>2, <1>5, <1>6 DEF Phase, PhaseOf
  <2>2. \A k \in Jobs : k # j => Phase'[k] = Phase[k]
    BY <1>5, <1>6 DEF Phase
  <2>3. Phase = [k \in Jobs |-> Phase[k]] /\ Phase' = [k \in Jobs |-> Phase'[k]]
    BY DEF Phase
  <2> QED
    BY <1>2, <2>1, <2>2, <2>3
<1>8. \A m \in Members(a) : Holder[m] = NoJob
  BY <1>2, <1>3 DEF Holder, Busy
<1>9. Holder' = [m \in Machines |-> IF m \in Members(a) THEN j ELSE Holder[m]]
  BY <1>4 DEF Holder, Busy
<1>10. Suits(j, a)
  BY DEF ScAssign, SiteInv, ChoiceSuits, HasJob, j, a
<1>11. Alloc!Cardinality(Members(a)) = Need[j]
  BY <1>10, SameCardinality DEF Suits
<1>12. Alloc!Acquire(j, Members(a))
  BY <1>3, <1>7, <1>8, <1>9, <1>10, <1>11 DEF Suits, Alloc!Acquire
<1> QED
  BY <1>2, <1>3, <1>12 DEF AbstractStep, Alloc!Next

\* Completing a job is the abstract end of it, or nothing when it was over; its
\* process ends with it, or is not there, or was passed over.
LEMMA CompleteImplements ==
  ASSUME IInv, NEW j \in Jobs, CompleteJob(j), jstatus[j] \in {"running", "done"},
         UNCHANGED <<mstatus, mjob>>,
         \/ proc'[j] = "exited" /\ HasProcess(j)
         \/ proc'[j] = proc[j] /\ (HasProcess(j) => Missed(j)),
         \A k \in Jobs : k # j => proc'[k] = proc[k]
  PROVE  AbstractStep
<1>1. /\ jstatus'[j] = "done" /\ proc[j] \in ProcState
      /\ HasProcess(j) => jstatus[j] = "running" \/ (jstatus[j] = "done" /\ Missed(j))
      /\ \A k \in Jobs : k # j => jstatus'[k] = jstatus[k]
  BY DEF IInv, TypeOK, FleetTypeOK, CompleteJob, TableInv, HarnessOfRunningJob
<1>2. Phase[j] = PhaseOf(proc[j], jstatus[j]) /\ Phase'[j] = PhaseOf(proc'[j], "done")
  BY <1>1 DEF Phase
<1>3. Allowed(PhaseOf(proc[j], jstatus[j]), PhaseOf(proc'[j], "done"))
  <2>1. CASE proc'[j] = "exited" /\ HasProcess(j)
    BY <1>1, <2>1 DEF Allowed, PhaseOf, Missed, HasProcess, ProcState
  <2>2. CASE proc'[j] = proc[j] /\ (HasProcess(j) => Missed(j))
    BY <1>1, <2>2 DEF Allowed, PhaseOf, Missed, HasProcess, ProcState
  <2> QED
    BY <2>1, <2>2
<1> QED
  BY <1>1, <1>2, <1>3, MoveImplements

\* What becomes of the process of a job while the job itself stays as it is:
\* the harness begins, it or its wrapper ends, or is passed over.
LEMMA ProcessImplements ==
  ASSUME IInv, NEW j \in Jobs, UNCHANGED <<mstatus, mjob, jstatus>>,
         jstatus[j] \in {"running", "done"},
         \A k \in Jobs : k # j => proc'[k] = proc[k],
         \/ proc'[j] = proc[j]
         \/ proc[j] = "none" /\ proc'[j] = "starting"
         \/ proc[j] = "starting" /\ proc'[j] \in {"alive", "missed"}
         \/ proc[j] = "missed" /\ proc'[j] = "stray"
         \/ HasProcess(j) /\ proc'[j] = "exited",
         proc[j] = "none" /\ proc'[j] = "starting" => jstatus[j] = "running"
  PROVE  AbstractStep
<1>1. /\ proc[j] \in ProcState
      /\ HasProcess(j) => jstatus[j] = "running" \/ (jstatus[j] = "done" /\ Missed(j))
  BY DEF IInv, TypeOK, FleetTypeOK, TableInv, HarnessOfRunningJob
<1>2. Phase[j] = PhaseOf(proc[j], jstatus[j]) /\ Phase'[j] = PhaseOf(proc'[j], jstatus[j])
  BY DEF Phase
<1>3. Allowed(PhaseOf(proc[j], jstatus[j]), PhaseOf(proc'[j], jstatus[j]))
  <2>1. CASE proc'[j] = proc[j]
    BY <2>1 DEF Allowed
  <2>2. CASE proc[j] = "none" /\ proc'[j] = "starting"
    BY <2>2 DEF Allowed, PhaseOf
  <2>3. CASE proc[j] = "starting" /\ proc'[j] \in {"alive", "missed"}
    BY <1>1, <2>3 DEF Allowed, PhaseOf, Missed, HasProcess
  <2>4. CASE proc[j] = "missed" /\ proc'[j] = "stray"
    BY <2>4 DEF Allowed, PhaseOf
  <2>5. CASE HasProcess(j) /\ proc'[j] = "exited"
    BY <1>1, <2>5 DEF Allowed, PhaseOf, Missed, HasProcess, ProcState
  <2> QED
    BY <2>1, <2>2, <2>3, <2>4, <2>5
<1> QED
  BY <1>2, <1>3, MoveImplements

\* killJob ends a harness and passes a wrapper over.
LEMMA KillImplements ==
  ASSUME IInv, NEW c \in Ctrls, CtlKill(c)
  PROVE  AbstractStep
<1>1. JobOf(c) \in Jobs /\ jstatus[JobOf(c)] \in {"running", "done"}
  BY AtHand DEF CtlKill, AsListed
<1> DEFINE j == JobOf(c)
<1>2. /\ UNCHANGED <<mstatus, mjob, jstatus>> /\ proc'[j] = Killed(j)
      /\ \A k \in Jobs : k # j => proc'[k] = proc[k]
      /\ proc[j] \in ProcState
  BY <1>1 DEF CtlKill, machineVars, jobVars, IInv, TypeOK, FleetTypeOK
<1> HIDE DEF j
<1>3. /\ proc'[j] = proc[j] \/ (proc[j] = "starting" /\ proc'[j] = "missed")
         \/ (HasProcess(j) /\ proc'[j] = "exited")
      /\ proc'[j] = "starting" => proc[j] # "none"
  BY <1>2 DEF Killed, Live, HasProcess, ProcState
<1> QED
  BY <1>1, <1>2, <1>3, ProcessImplements DEF j

\* Spawning the wrapper: the job holds its machines already.
LEMMA LaunchImplements ==
  ASSUME IInv, NEW c \in Ctrls, CtlLaunch(c)
  PROVE  AbstractStep
<1> DEFINE j == JobOf(c)
<1>1. /\ j \in Jobs /\ jstatus[j] = "running" /\ proc[j] = "none"
      /\ proc \in [Jobs -> ProcState]
  BY AtHand DEF CtlLaunch, Marked, IInv, CtlInv, CtlGood, JobAtHand, TypeOK, FleetTypeOK
<1>2. UNCHANGED <<mstatus, mjob, jstatus>> /\ proc' \in {proc, [proc EXCEPT ![j] = "starting"]}
  BY DEF CtlLaunch, machineVars, jobVars
<1> QED
  BY <1>1, <1>2, ProcessImplements

\* Making a machine idle gives it back; its job is over, or runs loose.
LEMMA FreeImplements ==
  ASSUME IInv, NEW c \in Ctrls, CtlFree(c)
  PROVE  AbstractStep
<1> DEFINE n == ccur[c].name
<1>1. /\ n \in Machines /\ Busy(n) /\ mjob[n] = JobOf(c) /\ JobOf(c) \in Jobs
      /\ jstatus[JobOf(c)] = "done"
  BY AtHand DEF CtlFree, AsListed, IInv, CtlInv, CtlGood, RowAtHand
<1>2. /\ UNCHANGED <<mjob, jstatus, proc>>
      /\ mstatus' = [m \in Machines |-> IF m = n THEN "idle" ELSE mstatus[m]]
  BY DEF CtlFree, SetMachineStatus, jobVars, hostVars
<1> HIDE DEF n
<1>3. Holder[n] = JobOf(c) /\ Holder' = [Holder EXCEPT ![n] = NoJob]
  BY <1>1, <1>2 DEF Holder, Busy
<1>4. Phase[JobOf(c)] \in {"over", "loose"} /\ Phase' = Phase
  <2>1. HasProcess(JobOf(c)) => Missed(JobOf(c))
    BY <1>1 DEF IInv, TableInv, HarnessOfRunningJob
  <2> QED
    BY <1>1, <1>2, <2>1, Phases DEF Phase
<1>5. Alloc!GiveBack(n)
  BY <1>1, <1>3, <1>4, FleetAssumption DEF Alloc!GiveBack
<1> QED
  BY <1>1, <1>5 DEF AbstractStep, Alloc!Next

\* Marking a scheduled machine running: it stays with its job.
LEMMA MarkImplements ==
  ASSUME IInv, NEW c \in Ctrls, CtlMark(c)
  PROVE  AbstractStep
<1>1. PICK r \in cnew[c] : SetMachineStatus({q.name : q \in Group(c, r)}, "running")
  BY DEF CtlMark
<1>2. \A q \in cnew[c] : Current(q) /\ q.rawstatus = "scheduled"
  BY DEF IInv, CtlInv, CtlGood, NewCurrent
<1>3. \A m \in {q.name : q \in Group(c, r)} : Busy(m)
  BY <1>2 DEF Group, Current, Busy
<1>4. UNCHANGED <<mjob, jstatus, proc>>
  BY DEF CtlMark, jobVars, hostVars
<1>5. \A m \in Machines : Busy(m)' <=> Busy(m)
  BY <1>1, <1>3 DEF SetMachineStatus, Busy
<1> QED
  BY <1>4, <1>5 DEF AbstractStep, Holder, Phase

LEMMA StepImplements ==
  ASSUME IInv, SiteInv, [Next]_vars
  PROVE  AbstractStep
<1>1. CASE SchedulerStep
  <2>1. PICK s \in Schedulers : ScStart(s) \/ ScRun(s) \/ ScCrash(s)
    BY <1>1 DEF SchedulerStep, SchedulerNext
  <2>2. CASE ScAssign(s)
    BY <2>2, AssignImplements
  <2>3. CASE ~ScAssign(s)
    BY <2>1, <2>3, StutterImplements
      DEF ScRun, ScStart, ScCrash, CountCrash, ScCountRunning, ScCountScheduled,
          ScFindExpired, ScClearExpired, ScListMachines, ScReadJobs, ScSelect, ScPass,
          ScRecord, ScEnd, fleetVars, machineVars, jobVars, hostVars
  <2> QED
    BY <2>2, <2>3
<1>2. CASE ControllerStep
  <2>1. PICK c \in Ctrls : (\E allowed \in 0..BurstJobs : CtlStart(c, allowed))
                           \/ CtlRun(c) \/ CtlCrash(c)
    BY <1>2 DEF ControllerStep, ControllerNext
  <2>2. CASE CtlComplete(c) \/ CtlFail(c)
    <3>1. JobOf(c) \in Jobs /\ jstatus[JobOf(c)] \in {"running", "done"}
      BY <2>2, AtHand DEF CtlComplete, CtlFail, AsListed, Marked
    <3>2. HasProcess(JobOf(c)) => Missed(JobOf(c))
      BY <2>2 DEF CtlComplete, CtlFail, AsListed, Marked, IInv, CtlInv, CtlGood, RowAtHand,
                  JobAtHand, HasProcess
    <3> QED
      BY <2>2, <3>1, <3>2, CompleteImplements DEF CtlComplete, CtlFail, machineVars, hostVars
  <2>3. CASE CtlFree(c)
    BY <2>3, FreeImplements
  <2>4. CASE CtlMark(c)
    BY <2>4, MarkImplements
  <2>5. CASE CtlLaunch(c)
    BY <2>5, LaunchImplements
  <2>6. CASE CtlKill(c)
    BY <2>6, KillImplements
  <2>7. CASE ~(CtlComplete(c) \/ CtlFail(c) \/ CtlFree(c) \/ CtlMark(c) \/ CtlLaunch(c)
               \/ CtlKill(c))
    BY <2>1, <2>7, StutterImplements
      DEF CtlRun, CtlStart, CtlCrash, CountCrash, CtlExamine, CtlProbe, CtlFlagDead,
          CtlRecordPid, CtlEnd, fleetVars, machineVars, jobVars, hostVars
  <2> QED
    BY <2>2, <2>3, <2>4, <2>5, <2>6, <2>7
<1>3. CASE ApiStep
  <2>1. ASSUME NEW j \in Jobs, HarnessComplete(j) PROVE AbstractStep
    <3>1. jstatus[j] \in {"running", "done"} /\ proc \in [Jobs -> ProcState]
      BY <2>1 DEF HarnessComplete, IInv, TableInv, HarnessOfRunningJob, TypeOK, FleetTypeOK
    <3>2. proc'[j] = "exited" /\ HasProcess(j) /\ \A k \in Jobs : k # j => proc'[k] = proc[k]
      BY <2>1, <3>1 DEF HarnessComplete
    <3> QED
      BY <2>1, <3>1, <3>2, CompleteImplements DEF HarnessComplete, machineVars
  <2>2. ASSUME NEW j \in Jobs, NewJob(j) PROVE AbstractStep
    <3>1. UNCHANGED <<mstatus, mjob, proc>> /\ jstatus[j] = "none"
          /\ \A k \in Jobs : jstatus'[k] = IF k = j THEN "new" ELSE jstatus[k]
      BY <2>2 DEF NewJob, machineVars, hostVars, IInv, TypeOK, FleetTypeOK
    <3>2. \A k \in Jobs : Phase'[k] = Phase[k]
      BY <3>1 DEF Phase, PhaseOf
    <3> QED
      BY <3>1, <3>2, SamePhases
  <2>3. ASSUME NEW j \in Jobs, RemoveJob(j) PROVE AbstractStep
    BY <2>3, StutterImplements DEF RemoveJob, machineVars, hostVars
  <2>6. ASSUME NEW j \in Jobs, HarnessBegins(j) \/ HarnessDies(j) PROVE AbstractStep
    <3>1. /\ UNCHANGED <<mstatus, mjob, jstatus>> /\ HasProcess(j)
          /\ \A k \in Jobs : k # j => proc'[k] = proc[k]
          /\ \/ proc[j] = "starting" /\ proc'[j] = "alive"
             \/ proc[j] = "missed" /\ proc'[j] = "stray"
             \/ proc'[j] = "exited"
      BY <2>6 DEF HarnessBegins, HarnessDies, HasProcess, Missed, machineVars, jobVars,
                  IInv, TypeOK, FleetTypeOK
    <3>2. jstatus[j] \in {"running", "done"}
      BY <3>1 DEF IInv, TableInv, HarnessOfRunningJob
    <3> QED
      BY <3>1, <3>2, ProcessImplements DEF HasProcess
  <2>4. ASSUME NEW u \in Users, UserNext(u) PROVE AbstractStep
    BY <2>4, StutterImplements
      DEF UserNext, RemoveJobAndReturn, LeaseCheck, ReturnCheck, LeaseWrite,
          ReturnJobMachines, ReturnWrite, fleetVars, machineVars, jobVars, hostVars
  <2>5. ASSUME NEW m \in Machines, LeaseRunsOut(m) PROVE AbstractStep
    BY <2>5, StutterImplements DEF LeaseRunsOut, machineVars, jobVars, hostVars
  <2> QED
    BY <1>3, <2>1, <2>2, <2>3, <2>4, <2>5, <2>6 DEF ApiStep, ApiNext
<1>4. CASE UNCHANGED vars
  BY <1>4, StutterImplements DEF vars, fleetVars, machineVars, jobVars, hostVars
<1> QED
  BY <1>1, <1>2, <1>3, <1>4 DEF Next

LEMMA InitImplements == Init => Alloc!Init
<1> SUFFICES ASSUME Init PROVE Alloc!Init
  OBVIOUS
<1>1. Holder = [m \in Machines |-> NoJob]
  BY DEF Init, FleetInit, Holder, Busy
<1>2. Phase = [j \in Jobs |-> "waiting"]
  BY DEF Init, FleetInit, Phase, PhaseOf
<1> QED
  BY <1>1, <1>2 DEF Alloc!Init

\* The scheduler and the controllers together keep the promise MachineAlloc
\* states: a job gets all its machines at one moment, as many as it needs, at
\* one site and when all of them are free; its harness starts at most once; the
\* job keeps every one of them until it is over, with no harness at work or still
\* to begin, and never gets machines again.  The exception: a job that was to be
\* stopped while its wrapper was setting up may be over with its harness to come.
THEOREM Implementation == Spec => AllocSpec
<1>1. Init => Alloc!Init
  BY InitImplements
<1>2. IInv /\ SiteInv /\ [Next]_vars => [Alloc!Next]_<<Holder, Phase>>
  BY StepImplements DEF AbstractStep
<1>3. IInv /\ SiteInv /\ [Next]_vars => [Alloc!Next]_(Alloc!allocVars)
  BY <1>2 DEF Alloc!allocVars
<1> QED
  BY <1>1, <1>3, Invariance, SiteInvariance, PTL DEF Spec, AllocSpec, Alloc!Spec
=============================================================================
