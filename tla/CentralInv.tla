----------------------------- MODULE CentralInv -----------------------------
(***************************************************************************)
(* The inductive invariant of CentralResource: types, uses and ages for    *)
(* every instance; ownership while no cleaner runs, for locks that are     *)
(* never broken: those without a timeout, and the others as long as        *)
(* nothing went wrong.                                                     *)
(***************************************************************************)
EXTENDS CentralResource

Acquiring == {"look", "rmtree", "mkdir", "write id", "write timestamp", "write jobid"}

\* A process in the course of a use has one left.
UsesInv == \A p \in Procs :
  pc[p] \in Acquiring \cup {"unregister"} \cup (IF p \in exiting THEN {} ELSE Releasing \cup {"held"})
    => uses[p] < MaxUses

\* The process whose directory it is: it made it, and has not removed it.
Owning(p) == pc[p] \in {"write id", "write timestamp", "write jobid", "held",
                        "stuck", "kept"} \cup Releasing

\* One that has nothing to do with the directory there is.
Without == {"idle", "look", "unregister", "over"}

\* What its object says agrees with it.
Object(p) ==
  /\ Owning(p) /\ pc[p] # "kept" => p \in locked
  /\ pc[p] \in {"held", "stuck"} \cup Releasing => p \in resHeld
  /\ pc[p] \in Without => p \notin locked
  /\ pc[p] \notin {"rmtree", "mkdir"}
  /\ pc[p] = "look" => Timed
  /\ pc[p] = "kept" => ~Timed
  /\ p \in lent => pc[p] = "kept"
  /\ pc[p] = "over" => p \in exiting
  /\ p \in exiting => pc[p] \in {"over", "kept", "killed"} \cup Releasing

\* The files it has written are there.
Written(p) ==
  /\ pc[p] \in {"write timestamp", "write jobid", "held", "kept"} => "id" \in files
  /\ pc[p] \in {"write jobid", "held", "kept"} => "timestamp" \in files
  /\ pc[p] \in {"held", "kept"} => "jobid" \in files /\ job = p

\* The callbacks at the end find no mark round going on, so what they have
\* unlinked stays away.
Leaving(p) == p \in exiting /\ pc[p] \in Releasing =>
  /\ \A q \in Procs : ~InRound(q)
  /\ pc[p] # "jobid" => "jobid" \notin files
  /\ pc[p] \in {"timestamp", "rmdir"} => "id" \notin files
  /\ pc[p] = "rmdir" => "timestamp" \notin files

LockGood(p) ==
  /\ Owning(p) => maker = p
  /\ pc[p] \in Without => maker # p
  /\ Object(p) /\ Written(p) /\ Leaving(p)

LockInv == \A p \in Procs : LockGood(p)

\* The timestamp of this minute is of age 0, whoever wrote it.
AgeInv ==
  /\ marked # {} \/ (\E p \in Procs : marker[p] = "write") => age = 0
  /\ ~Exists => files = {}

\* Who is dead, and whose job is over.
EndInv == \A p \in Procs :
  /\ p \in done => pc[p] \in {"over", "kept", "killed"}
  /\ pc[p] = "killed" => crashes > 0
  /\ marker[p] = "gone" => p \in done \/ pc[p] = "killed"

\* No waiter has a reason to break the lock: there is no timeout, or whoever has
\* it renews its timestamp every minute.
Unbroken == ~Timed \/ Faultless
Young    == Timed => age <= 1

IInv == TypeOK /\ UsesInv /\ AgeInv /\ EndInv /\ (Unbroken => LockInv /\ Young)

-----------------------------------------------------------------------------
(***************************************************************************)
(* The lock keeps the promise of PoolLock, file by file and whatever mark  *)
(* threads do meanwhile: the directory is the ownership, and removed by    *)
(* its maker alone, when neither a test nor a person relies on it.         *)
(***************************************************************************)
Users  == {p \in Procs : Keeps(p)}
Ended  == {p \in Procs : pc[p] \in {"over", "kept"}}
Killed == {p \in Procs : pc[p] = "killed"}

Lock == INSTANCE PoolLock WITH owner <- maker, users <- Users, ended <- Ended, killed <- Killed
ImplementsLock == Lock!Spec
=============================================================================
