------------------------------- MODULE JobApi -------------------------------
(***************************************************************************)
(* What people and job harnesses do through the server's API: submitting   *)
(* and removing jobs (server/app/apiv2/jobs.py), leasing and returning     *)
(* machines (server/app/apiv2/machines.py), and the life of a harness      *)
(* (control/venvwrapper2.sh, exec/main.py), which completes its job at its *)
(* end.                                                                    *)
(*                                                                         *)
(* A request that reads the lease columns, decides, and then writes them   *)
(* is two actions: nothing locks the row in between.  The lease policy,    *)
(* the length of a lease and the ACL can only refuse a lease, which is a   *)
(* request never made here.                                                *)
(***************************************************************************)
EXTENDS FleetDB

VARIABLE ureq   \* the request each user has in progress

apiVars == <<ureq>>

Ops    == {"none", "lease", "givejob", "return"}
NoReq  == [op |-> "none", ms |-> {}, force |-> FALSE]
Requests == [op: Ops, ms: SUBSET Machines, force: BOOLEAN]

ApiTypeOK == ureq \in [Users -> Requests]
ApiInit   == ureq = [u \in Users |-> NoReq]

Request(u, op, ms, force) ==
  ureq' = [ureq EXCEPT ![u] = [op |-> op, ms |-> ms, force |-> force]]

-----------------------------------------------------------------------------
\* NewJob.newJob: a row with status 'new'.
NewJob(j) ==
  /\ jstatus[j] = "none"
  /\ jstatus' = [jstatus EXCEPT ![j] = "new"]
  /\ UNCHANGED <<ureq, machineVars, leaseVars, removed, jmach, deadjob, hpid,
                 hostVars>>

\* removeJob: REMOVED=yes, the status stays.
RemoveJob(j) ==
  /\ jstatus[j] # "none"
  /\ removed' = removed \cup {j}
  /\ UNCHANGED <<ureq, machineVars, leaseVars, jstatus, jmach, deadjob, hpid,
                 hostVars>>

\* RemoveJob.render with return_machines: the removal is committed, the leases
\* of the job's machines are looked at afterwards.
RemoveJobAndReturn(u, j) ==
  /\ ureq[u] = NoReq
  /\ jstatus[j] # "none"
  /\ removed' = removed \cup {j}
  /\ Request(u, "givejob", MachinesOf(j), FALSE)
  /\ UNCHANGED <<machineVars, leaseVars, jstatus, jmach, deadjob, hpid, hostVars>>

\* lease(): the checks.  A lease held by someone else needs force.
LeaseAllowed(u, m, force) == lease[m] \in {NoUser, u} \/ force

LeaseCheck(u, m, force) ==
  /\ ureq[u] = NoReq
  /\ LeaseAllowed(u, m, force)
  /\ Request(u, "lease", {m}, force)
  /\ UNCHANGED fleetVars

\* lease(): the UPDATE, on the machine name alone.
LeaseWrite(u) ==
  /\ ureq[u].op = "lease"
  /\ lease' = [m \in Machines |-> IF m \in ureq[u].ms THEN u ELSE lease[m]]
  /\ overdue' = overdue \ ureq[u].ms
  /\ ureq' = [ureq EXCEPT ![u] = NoReq]
  /\ UNCHANGED <<machineVars, jobVars, hostVars>>

\* return_machine(): the checks.
MayReturn(u, m, force) == lease[m] # NoUser /\ (lease[m] = u \/ force)

ReturnCheck(u, m, force) ==
  /\ ureq[u] = NoReq
  /\ MayReturn(u, m, force)
  /\ Request(u, "return", {m}, force)
  /\ UNCHANGED fleetVars

\* The same for the machines of a job being removed: the first machine that
\* is not leased to the user ends the request, and nothing is returned.
ReturnJobMachines(u) ==
  /\ ureq[u].op = "givejob"
  /\ IF \A m \in ureq[u].ms : MayReturn(u, m, FALSE)
     THEN Request(u, "return", ureq[u].ms, FALSE)
     ELSE ureq' = [ureq EXCEPT ![u] = NoReq]
  /\ UNCHANGED fleetVars

\* return_machine(): the UPDATE.
ReturnWrite(u) ==
  /\ ureq[u].op = "return"
  /\ ClearLease(ureq[u].ms)
  /\ ureq' = [ureq EXCEPT ![u] = NoReq]
  /\ UNCHANGED <<machineVars, jobVars, hostVars>>

\* The clock passes the end of a lease.
LeaseRunsOut(m) ==
  /\ lease[m] # NoUser
  /\ overdue' = overdue \cup {m}
  /\ UNCHANGED <<ureq, lease, machineVars, jobVars, hostVars>>

-----------------------------------------------------------------------------
\* The environment is set up: the wrapper runs main.py, which changes to the
\* results directory and uses the machines, whatever became of the job meanwhile.
HarnessBegins(j) ==
  /\ proc[j] \in {"starting", "missed"}
  /\ proc' = [proc EXCEPT ![j] = IF Missed(j) THEN "stray" ELSE "alive"]
  /\ UNCHANGED <<ureq, machineVars, leaseVars, jobVars, resdir, crashes>>

\* The exit handler of main.py, or the error trap of the wrapper that sets the
\* environment up, completes the job as the last thing the process does.
HarnessComplete(j) ==
  /\ HasProcess(j)
  /\ CompleteJob(j)
  /\ proc' = [proc EXCEPT ![j] = "exited"]
  /\ UNCHANGED <<ureq, machineVars, leaseVars, removed, jmach, deadjob, hpid,
                 resdir, crashes>>

\* The process ends without completing its job.
HarnessDies(j) ==
  /\ HasProcess(j)
  /\ proc' = [proc EXCEPT ![j] = "exited"]
  /\ UNCHANGED <<ureq, machineVars, leaseVars, jobVars, resdir, crashes>>

UserNext(u) ==
  \/ \E j \in Jobs : RemoveJobAndReturn(u, j)
  \/ \E m \in Machines, force \in BOOLEAN : LeaseCheck(u, m, force) \/ ReturnCheck(u, m, force)
  \/ LeaseWrite(u) \/ ReturnJobMachines(u) \/ ReturnWrite(u)

ApiNext ==
  \/ \E j \in Jobs : \/ NewJob(j) \/ RemoveJob(j)
                     \/ HarnessBegins(j) \/ HarnessComplete(j) \/ HarnessDies(j)
  \/ \E u \in Users : UserNext(u)
  \/ \E m \in Machines : LeaseRunsOut(m)
=============================================================================
