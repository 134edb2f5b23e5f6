---------------------------- MODULE MachineAlloc ----------------------------
(***************************************************************************)
(* What the scheduler and the site controllers promise together: a job     *)
(* gets all its machines at one moment, as many as it needs and all at one *)
(* site, when all of them are free; its harness is started at most once,   *)
(* while the job holds them; it keeps every one of them until it is over,  *)
(* when no harness works any more; each machine then comes back on its     *)
(* own; no job gets machines twice.                                        *)
(*                                                                         *)
(* A job that was to be stopped before its harness began may have been     *)
(* missed: only such a job is over with its harness still to begin or at   *)
(* work ("loose").                                                         *)
(***************************************************************************)
EXTENDS FiniteSets

CONSTANTS Machines, Jobs, NoJob,
          Need,    \* machines each job needs
          SiteOf   \* the site of each machine

VARIABLES holder,  \* the job each machine works for
          phase    \* of each job: waiting, holding, working (its harness),
                   \* stopped (the harness ended first) or over; or missed while
                   \* it was holding, then stray (its harness works) and loose

allocVars == <<holder, phase>>

Init ==
  /\ holder = [m \in Machines |-> NoJob]
  /\ phase = [j \in Jobs |-> "waiting"]

Acquire(j, ms) ==
  /\ phase[j] = "waiting"
  /\ Cardinality(ms) = Need[j]
  /\ \A m, n \in ms : SiteOf[m] = SiteOf[n]
  /\ \A m \in ms : holder[m] = NoJob
  /\ holder' = [m \in Machines |-> IF m \in ms THEN j ELSE holder[m]]
  /\ phase' = [phase EXCEPT ![j] = "holding"]

Move(j, from, to) ==
  /\ phase[j] \in from
  /\ phase' = [phase EXCEPT ![j] = to]
  /\ UNCHANGED holder

Work(j)   == Move(j, {"holding"}, "working") \/ Move(j, {"missed"}, "stray")
Stop(j)   == Move(j, {"holding", "working", "missed", "stray"}, "stopped")
Finish(j) == Move(j, {"holding", "working", "stopped", "missed", "stray", "loose"}, "over")

Miss(j) == Move(j, {"holding"}, "missed")
Lose(j) == Move(j, {"missed", "stray"}, "loose")

GiveBack(m) ==
  /\ holder[m] # NoJob
  /\ phase[holder[m]] \in {"over", "loose"}
  /\ holder' = [holder EXCEPT ![m] = NoJob]
  /\ UNCHANGED phase

\* (What most steps of an implementation do to the allocation is nothing.)
Next ==
  \/ UNCHANGED allocVars
  \/ \E j \in Jobs, ms \in SUBSET Machines : Acquire(j, ms)
  \/ \E j \in Jobs : Work(j) \/ Stop(j) \/ Finish(j) \/ Miss(j) \/ Lose(j)
  \/ \E m \in Machines : GiveBack(m)

Spec == Init /\ [][Next]_allocVars
=============================================================================
