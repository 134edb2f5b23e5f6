------------------------------ MODULE MCFleet ------------------------------
(***************************************************************************)
(* Instances of Fleet for TLC.                                             *)
(***************************************************************************)
EXTENDS FleetInv, TLC

CONSTANTS m1, m2, m3, j1, j2, u1, u2, siteA, siteB

MCMachines2 == {m1, m2}
MCMachines3 == {m1, m2, m3}

\* One site for all machines, or the last machine alone at another.
OneSite  == [m \in Machines |-> siteA]
TwoSites == [m \in Machines |-> IF m = m3 THEN siteB ELSE siteA]
CtrlAtA  == [c \in Ctrls |-> siteA]

LimitOne == [site \in Sites |-> 1]
LimitTwo == [site \in Sites |-> 2]

\* j1 needs two machines, any other job one.
OneOrTwo == [j \in Jobs |-> IF j = j1 THEN 2 ELSE 1]
OneEach  == [j \in Jobs |-> 1]

NoWish == [j \in Jobs |-> NoPlacement]
\* j1 names m1 first and m2, m3 after it, though m3 is at another site.
NamesAcross == [j \in Jobs |-> IF j = j1 THEN [prim |-> m1, rest |-> {m2, m3}]
                               ELSE NoPlacement]
\* j1 names m1 and m2, j2 names m3.
NamesApart == [j \in Jobs |-> IF j = j1 THEN [prim |-> m1, rest |-> {m2}]
                              ELSE [prim |-> m3, rest |-> {}]]
OwnedByU1 == [j \in Jobs |-> u1]

Symm == Permutations(Machines) \cup Permutations(Ctrls) \cup Permutations(Schedulers)

(***************************************************************************)
(* The fleet after two runs of the scheduler that gave every job the       *)
(* machines it names: with a burst of one, no run of the controller can    *)
(* start both.                                                             *)
(***************************************************************************)
ScheduledInit ==
  /\ mstatus = [m \in Machines |-> IF \E j \in Jobs : m = Wish[j].prim
                                   THEN "scheduled" ELSE "slaved"]
  /\ mjob = [m \in Machines |-> CHOOSE j \in Jobs : m \in Members(Wish[j])]
  /\ lease = [m \in Machines |-> NoUser] /\ overdue = {}
  /\ jstatus = [j \in Jobs |-> "running"] /\ removed = {} /\ jmach = Wish
  /\ deadjob = {} /\ hpid = {} /\ resdir = {}
  /\ proc = [j \in Jobs |-> "none"] /\ crashes = 0
  /\ SchedInit /\ CtlInit /\ ApiInit

ScheduledSpec == ScheduledInit /\ [][Next]_vars /\ Fairness
=============================================================================
