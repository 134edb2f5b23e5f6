--------------------------- MODULE FleetSiteProofs ---------------------------
(***************************************************************************)
(* The machines of a scheduled job: as many as it needs, all at one site.  *)
(* Which machines a run selects is settled long before the job is marked   *)
(* running, so the invariant follows the selection through the run.        *)
(***************************************************************************)
EXTENDS FleetProofs

\* List a is what job j asked for: enough machines, of one site.
Suits(j, a) ==
  /\ Cardinality(Members(a)) = Need[j]
  /\ \A m, n \in Members(a) : SiteOf[m] = SiteOf[n]

ChoiceSuits(s) == spc[s] \in HasJob => Suits(sjob[s], ssel[s])

SiteInv == JobAtOneSite /\ \A s \in Schedulers : ChoiceSuits(s)

\* A machine and two sets of others without common members, counted.
LEMMA CountThree ==
  ASSUME NEW first \in Machines, NEW R \in SUBSET Machines, NEW Q \in SUBSET Machines,
         first \notin R, first \notin Q, R \cap Q = {}
  PROVE  Cardinality({first} \cup R \cup Q) = 1 + Cardinality(R) + Cardinality(Q)
<1>1. IsFiniteSet(R) /\ IsFiniteSet(Q) /\ IsFiniteSet(R \cup Q)
  BY FS_Subset, FleetAssumption
<1>2. Cardinality(R \cup Q) = Cardinality(R) + Cardinality(Q) - Cardinality(R \cap Q)
  BY <1>1, FS_Union
<1>3. Cardinality(R \cap Q) = 0
  BY FS_EmptySet
<1>4. Cardinality((R \cup Q) \cup {first}) = Cardinality(R \cup Q) + 1
  BY <1>1, FS_AddElement
<1>5. {first} \cup R \cup Q = (R \cup Q) \cup {first}
  OBVIOUS
<1>6. Cardinality(R) \in Nat /\ Cardinality(Q) \in Nat
  BY <1>1, FS_CardinalityType
<1> QED
  BY <1>2, <1>3, <1>4, <1>5, <1>6

\* What is selected for a job suits it.
LEMMA SelectionSuits ==
  ASSUME IInv, NEW s \in Schedulers, NEW j \in Jobs, NEW a \in Selections(j, savail[s])
  PROVE  Suits(j, a)
<1>1. savail[s] \subseteq Machines /\ jmach[j] \in Placement /\ Proper(jmach[j])
  BY DEF IInv, TypeOK, SchedTypeOK, FleetTypeOK, TableInv, ListsProper
<1>2. a \in Placement /\ a.prim \in Machines
  BY SelectionIsPlacement DEF IInv
<1>3. Members(a) = {a.prim} \cup a.rest
  BY <1>2, FleetAssumption DEF Members, Placement
<1>4. Need[j] \in Nat \ {0}
  BY FleetAssumption
<1>5. CASE jmach[j].prim = NoMachine
  <2>1. a.rest \in OtherChoices(SiteOf[a.prim], savail[s], {a.prim}, Need[j] - 1)
    BY <1>5 DEF Selections
  <2>2. /\ a.rest \in SUBSET Machines /\ a.prim \notin a.rest
        /\ \A m \in a.rest : SiteOf[m] = SiteOf[a.prim]
        /\ Cardinality(a.rest) = Need[j] - 1
    BY <1>1, <2>1 DEF OtherChoices
  <2>3. Cardinality({a.prim} \cup a.rest \cup {}) = 1 + Cardinality(a.rest) + Cardinality({})
    BY <1>2, <2>2, CountThree
  <2>4. Cardinality(Members(a)) = Need[j]
    <3>1. {a.prim} \cup a.rest \cup {} = Members(a)
      BY <1>3
    <3>2. Cardinality({}) = 0
      BY FS_EmptySet
    <3>3. Cardinality(Members(a)) = 1 + (Need[j] - 1) + 0
      BY <2>2, <2>3, <3>1, <3>2
    <3> QED
      BY <1>4, <3>3
  <2> QED
    BY <1>3, <2>2, <2>4 DEF Suits
<1>6. CASE jmach[j].prim # NoMachine
  <2> DEFINE first == jmach[j].prim
  <2>1. PICK b \in NamedChoices(j, savail[s]) \X SUBSET savail[s] :
          /\ a = [prim |-> first, rest |-> b[1] \cup b[2]]
          /\ b[2] \in OtherChoices(SiteOf[first], savail[s], {first} \cup b[1],
                                   Need[j] - 1 - Cardinality(b[1]))
    BY <1>6 DEF Selections
  <2> DEFINE R == b[1]
             Q == b[2]
  <2>2. /\ R \in SUBSET jmach[j].rest
        /\ \A m \in R : SiteOf[m] = SiteOf[first]
    BY <2>1 DEF NamedChoices
  <2>3. /\ Q \in SUBSET savail[s] /\ first \notin Q /\ R \cap Q = {}
        /\ \A m \in Q : SiteOf[m] = SiteOf[first]
        /\ Cardinality(Q) = Need[j] - 1 - Cardinality(R)
    BY <2>1 DEF OtherChoices
  <2>4. R \in SUBSET Machines /\ Q \in SUBSET Machines /\ first \notin R
    BY <1>1, <2>2, <2>3 DEF Placement, Proper
  <2>5. first \in Machines /\ Members(a) = {first} \cup R \cup Q
    BY <1>2, <1>3, <2>1
  <2>6. Cardinality(R) \in Nat
    BY <2>4, FS_Subset, FS_CardinalityType, FleetAssumption
  <2> HIDE DEF first, R, Q
  <2>7. Cardinality({first} \cup R \cup Q) = 1 + Cardinality(R) + Cardinality(Q)
    BY <2>3, <2>4, <2>5, CountThree
  <2>8. Cardinality(Members(a)) = Need[j]
    BY <1>4, <2>3, <2>5, <2>6, <2>7
  <2>9. \A m \in Members(a) : SiteOf[m] = SiteOf[first]
    BY <2>2, <2>3, <2>5
  <2> QED
    BY <2>8, <2>9 DEF Suits
<1> QED
  BY <1>5, <1>6

\* A step that leaves the lists and the scheduler alone and ends no job that
\* was not scheduled.
LEMMA SiteFrame ==
  ASSUME IInv, SiteInv, UNCHANGED <<jmach, spc, sjob, ssel>>,
         \A j \in Jobs : jstatus'[j] \in {"running", "done"} => jstatus[j] \in {"running", "done"}
  PROVE  SiteInv'
  BY DEF SiteInv, JobAtOneSite, ChoiceSuits, Suits, MachinesOf, Members

LEMMA CompleteKeepsSites ==
  ASSUME IInv, SiteInv, NEW j \in Jobs, CompleteJob(j), jstatus[j] \in {"running", "done"},
         UNCHANGED <<jmach, spc, sjob, ssel>>
  PROVE  SiteInv'
<1>1. \A k \in Jobs : k # j => jstatus'[k] = jstatus[k]
  BY DEF CompleteJob, IInv, TypeOK, FleetTypeOK
<1> QED
  BY <1>1, SiteFrame

LEMMA SchedulerKeepsSites ==
  ASSUME IInv, SiteInv, SchedulerStep
  PROVE  SiteInv'
<1>1. FleetTypeOK /\ SchedTypeOK /\ SchedInv
  BY DEF IInv, TypeOK
<1>2. PICK s \in Schedulers : ScStart(s) \/ ScRun(s) \/ ScCrash(s)
  BY DEF SchedulerStep, SchedulerNext
<1>3. ASSUME NEW t \in Schedulers, spc'[t] \notin HasJob \/ UNCHANGED <<spc[t], sjob[t], ssel[t]>>
      PROVE  ChoiceSuits(t)'
  BY <1>3 DEF SiteInv, ChoiceSuits, Suits, Members
<1>4. ASSUME UNCHANGED <<jmach, jstatus>> PROVE JobAtOneSite'
  BY <1>4 DEF SiteInv, JobAtOneSite, MachinesOf, Members
<1>5. \A k \in Jobs : jstatus[k] \in {"running", "done"} => Suits(k, jmach[k])
  BY DEF SiteInv, JobAtOneSite, Suits, MachinesOf
<1> USE <1>1 DEF SchedTypeOK, Goto, HasJob
<1>a. CASE ScSelect(s)
  <2>0. PICK j \in squeue[s] : \E a \in Selections(j, savail[s]) :
          sjob' = [sjob EXCEPT ![s] = j] /\ ssel' = [ssel EXCEPT ![s] = a]
    BY <1>a DEF ScSelect
  <2>1. PICK a \in Selections(j, savail[s]) :
          sjob' = [sjob EXCEPT ![s] = j] /\ ssel' = [ssel EXCEPT ![s] = a]
    BY <2>0
  <2>2. Suits(j, a)
    BY SelectionSuits
  <2>3. ChoiceSuits(s)'
    BY <2>1, <2>2 DEF ChoiceSuits, Suits, Members
  <2>4. \A t \in Schedulers \ {s} : ChoiceSuits(t)'
    BY <1>3, <1>a, <2>1 DEF ScSelect
  <2> QED
    BY <1>4, <1>a, <2>3, <2>4 DEF ScSelect, fleetVars, jobVars, SiteInv
<1>b. CASE ScRecord(s)
  <2>1. sjob[s] \in Jobs /\ jstatus[sjob[s]] = "new"
    BY <1>b DEF ScRecord, SchedInv, SchedGood, ChoiceGood
  <2>2. /\ UNCHANGED <<jstatus, sjob, ssel>>
        /\ \A k \in Jobs : k # sjob[s] => jmach'[k] = jmach[k]
    BY <1>b DEF ScRecord, FleetTypeOK
  <2>3. JobAtOneSite'
    <3> SUFFICES ASSUME NEW k \in Jobs, jstatus'[k] \in {"running", "done"}
                 PROVE  Suits(k, jmach'[k])
      BY DEF JobAtOneSite, MachinesOf, Suits, Members
    <3>1. jmach'[k] = jmach[k] /\ jstatus[k] \in {"running", "done"}
      BY <2>1, <2>2
    <3> QED
      BY <1>5, <3>1
  <2>4. \A t \in Schedulers : ChoiceSuits(t)'
    <3>1. ChoiceSuits(s)'
      BY <1>b, <2>2 DEF ScRecord, SiteInv, ChoiceSuits, Suits, Members
    <3>2. \A t \in Schedulers \ {s} : ChoiceSuits(t)'
      BY <1>3, <1>b, <2>2 DEF ScRecord
    <3> QED
      BY <3>1, <3>2
  <2> QED
    BY <2>3, <2>4 DEF SiteInv
<1>c. CASE ScAssign(s)
  <2>1. sjob[s] \in Jobs /\ jmach[sjob[s]] = ssel[s] /\ Suits(sjob[s], ssel[s])
    BY <1>c DEF ScAssign, SchedInv, SchedGood, ChoiceGood, Recorded, SiteInv, ChoiceSuits
  <2>2. /\ UNCHANGED jmach
        /\ \A k \in Jobs : k # sjob[s] => jstatus'[k] = jstatus[k]
    BY <1>c DEF ScAssign, MarkRunning, FleetTypeOK
  <2>3. JobAtOneSite'
    <3> SUFFICES ASSUME NEW k \in Jobs, jstatus'[k] \in {"running", "done"}
                 PROVE  Suits(k, jmach'[k])
      BY DEF JobAtOneSite, MachinesOf, Suits, Members
    <3>1. CASE k = sjob[s]
      BY <2>1, <2>2, <3>1
    <3>2. CASE k # sjob[s]
      BY <1>5, <2>2, <3>2
    <3> QED
      BY <3>1, <3>2
  <2>4. \A t \in Schedulers : ChoiceSuits(t)'
    <3>1. \A t \in Schedulers : t # s =>
            spc'[t] = spc[t] /\ sjob'[t] = sjob[t] /\ ssel'[t] = ssel[t]
      BY <1>c DEF ScAssign
    <3>2. spc'[s] \notin HasJob
      BY <1>c DEF ScAssign
    <3> QED
      BY <1>3, <3>1, <3>2
  <2> QED
    BY <2>3, <2>4 DEF SiteInv
<1>d. CASE ScEnd(s) \/ ScCrash(s)
  <2>1. \A t \in Schedulers : ChoiceSuits(t)'
    BY <1>3, <1>d DEF ScEnd, ScCrash, Forget
  <2> QED
    BY <1>4, <1>d, <2>1 DEF ScEnd, ScCrash, CountCrash, fleetVars, jobVars, SiteInv
<1>e. CASE ScStart(s) \/ ScCountRunning(s) \/ ScCountScheduled(s) \/ ScFindExpired(s)
           \/ ScClearExpired(s) \/ ScListMachines(s) \/ ScReadJobs(s) \/ ScPass(s)
  <2>1. UNCHANGED <<jmach, jstatus, sjob, ssel>>
    BY <1>e DEF ScStart, ScCountRunning, ScCountScheduled, ScFindExpired, ScClearExpired,
                ScListMachines, ScReadJobs, ScPass, fleetVars, jobVars
  <2>2. \A t \in Schedulers : spc'[t] \notin HasJob \/ spc'[t] = spc[t]
    BY <1>e DEF ScStart, ScCountRunning, ScCountScheduled, ScFindExpired, ScClearExpired,
                ScListMachines, ScReadJobs, ScPass
  <2>3. \A t \in Schedulers : ChoiceSuits(t)'
    BY <1>3, <2>1, <2>2
  <2> QED
    BY <1>4, <2>1, <2>3 DEF SiteInv
<1> QED
  BY <1>2, <1>a, <1>b, <1>c, <1>d, <1>e DEF ScRun

LEMMA ControllerKeepsSites ==
  ASSUME IInv, SiteInv, ControllerStep
  PROVE  SiteInv'
<1>1. UNCHANGED <<spc, sjob, ssel>>
  BY DEF ControllerStep, schedVars
<1>2. PICK c \in Ctrls : (\E allowed \in 0..BurstJobs : CtlStart(c, allowed))
                         \/ CtlRun(c) \/ CtlCrash(c)
  BY DEF ControllerStep, ControllerNext
<1>3. CASE CtlComplete(c) \/ CtlFail(c)
  <2>1. JobOf(c) \in Jobs /\ jstatus[JobOf(c)] \in {"running", "done"}
    BY <1>3, AtHand DEF CtlComplete, CtlFail, AsListed, Marked
  <2> QED
    BY <1>1, <1>3, <2>1, CompleteKeepsSites DEF CtlComplete, CtlFail
<1>4. CASE ~(CtlComplete(c) \/ CtlFail(c))
  <2>1. UNCHANGED <<jstatus, jmach>>
    BY <1>2, <1>4
      DEF CtlRun, CtlStart, CtlCrash, CountCrash, CtlExamine, CtlProbe, CtlFlagDead, CtlKill,
          CtlFree, CtlMark, CtlLaunch, CtlRecordPid, CtlEnd, fleetVars, jobVars
  <2> QED
    BY <1>1, <2>1, SiteFrame
<1> QED
  BY <1>3, <1>4

LEMMA ApiKeepsSites ==
  ASSUME IInv, SiteInv, ApiStep
  PROVE  SiteInv'
<1>1. UNCHANGED <<spc, sjob, ssel>>
  BY DEF ApiStep, schedVars
<1>2. ASSUME UNCHANGED <<jstatus, jmach>> PROVE SiteInv'
  BY <1>1, <1>2, SiteFrame
<1>3. ASSUME NEW j \in Jobs, HarnessComplete(j) PROVE SiteInv'
  <2>1. jstatus[j] \in {"running", "done"}
    BY <1>3 DEF HarnessComplete, IInv, TableInv, HarnessOfRunningJob
  <2> QED
    BY <1>1, <1>3, <2>1, CompleteKeepsSites DEF HarnessComplete
<1>4. ASSUME NEW j \in Jobs, NewJob(j) PROVE SiteInv'
  <2>1. jmach' = jmach /\ jstatus'[j] = "new"
        /\ \A k \in Jobs : k # j => jstatus'[k] = jstatus[k]
    BY <1>4 DEF NewJob, IInv, TypeOK, FleetTypeOK
  <2> QED
    BY <1>1, <2>1, SiteFrame
<1>5. ASSUME NEW j \in Jobs, RemoveJob(j) \/ HarnessBegins(j) \/ HarnessDies(j)
      PROVE  SiteInv'
  BY <1>2, <1>5 DEF RemoveJob, HarnessBegins, HarnessDies, jobVars
<1>6. ASSUME NEW u \in Users, UserNext(u) PROVE SiteInv'
  BY <1>2, <1>6
    DEF UserNext, RemoveJobAndReturn, LeaseCheck, ReturnCheck, LeaseWrite, ReturnJobMachines,
        ReturnWrite, fleetVars, jobVars
<1>7. ASSUME NEW m \in Machines, LeaseRunsOut(m) PROVE SiteInv'
  BY <1>2, <1>7 DEF LeaseRunsOut, jobVars
<1> QED
  BY <1>3, <1>4, <1>5, <1>6, <1>7 DEF ApiStep, ApiNext

\* The selection of every run suits its job, in every reachable state.
LEMMA SiteInvariance == Spec => []SiteInv
<1>1. Init => SiteInv
  BY DEF Init, FleetInit, SchedInit, SiteInv, JobAtOneSite, ChoiceSuits, HasJob
<1>2. IInv /\ SiteInv /\ [Next]_vars => SiteInv'
  <2> SUFFICES ASSUME IInv, SiteInv, [Next]_vars PROVE SiteInv'
    OBVIOUS
  <2>1. CASE UNCHANGED vars
    BY <2>1, SiteFrame DEF vars, fleetVars, jobVars, schedVars
  <2> QED
    BY <2>1, SchedulerKeepsSites, ControllerKeepsSites, ApiKeepsSites DEF Next
<1> QED
  BY <1>1, <1>2, Invariance, PTL DEF Spec

\* All machines of a scheduled job are at one site, and there are as many as
\* it needs, also when some of them were named in its MACHINE parameter and
\* some of those belong to other sites.
THEOREM OneSite == Spec => []JobAtOneSite
<1>1. SiteInv => JobAtOneSite
  BY DEF SiteInv
<1> QED
  BY <1>1, SiteInvariance, PTL
=============================================================================
