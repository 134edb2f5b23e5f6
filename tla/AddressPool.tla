---------------------------- MODULE AddressPool ----------------------------
(***************************************************************************)
(* What the users of a site's address range are promised: hosts lease      *)
(* addresses one at a time, jobs get any number of adjacent ones at once,  *)
(* and nobody is given what somebody else has.  A job's address may be     *)
(* leased to the host that the job reserved it for.                        *)
(*                                                                         *)
(* The promise is broken in one way: when a job is over its addresses are  *)
(* swept up for it, and an address that has another user by then may go    *)
(* with them.                                                              *)
(***************************************************************************)
EXTENDS Integers

CONSTANTS Addrs, Hosts, Jobs, MacOf, NoAddr

VARIABLES lease,  \* the address each host uses
          has,    \* the addresses each job uses
          over,   \* the jobs that are over
          swept   \* addresses in use that were swept up for a job that is over

vars == <<lease, has, over, swept>>

Init ==
  /\ lease = [h \in Hosts |-> NoAddr] /\ has = [j \in Jobs |-> {}]
  /\ over = {} /\ swept = {}

\* An address is swept as long as anybody goes on using it.
InUse(S) == {a \in S : \E j \in Jobs : a \in has'[j]}

Give(h, a) ==
  /\ \A g \in Hosts : lease[g] = a => g = h
  /\ a \notin swept => \A j \in Jobs : a \in has[j] => h = MacOf[j]
  /\ lease' = [lease EXCEPT ![h] = a]
  /\ UNCHANGED <<has, over, swept>>

\* Leases end, one or many at a time.
End(S) ==
  /\ lease' = [h \in Hosts |-> IF h \in S THEN NoAddr ELSE lease[h]]
  /\ UNCHANGED <<has, over, swept>>

Adjacent(S) == \A a, b \in S : a .. b \subseteq S

Allot(j, S) ==
  /\ j \notin over /\ Adjacent(S)
  /\ \A a \in S \ swept, i \in Jobs : a \in has[i] => i = j
  /\ \A h \in Hosts : lease[h] \in S => h = MacOf[j]
  /\ has' = [has EXCEPT ![j] = @ \cup S]
  /\ UNCHANGED <<lease, over, swept>>

Return(j, a) ==
  /\ a \in has[j]
  /\ has' = [has EXCEPT ![j] = @ \ {a}]
  /\ swept' = InUse(swept)
  /\ UNCHANGED <<lease, over>>

Finish(j) ==
  /\ j \notin over
  /\ over' = over \cup {j}
  /\ has' = [has EXCEPT ![j] = {}]
  /\ swept' = InUse(swept)
  /\ UNCHANGED lease

\* Some job is over, and the one that uses the address is another.
Sweep(a) ==
  /\ over # {} /\ \E j \in Jobs \ over : a \in has[j]
  /\ swept' = swept \cup {a}
  /\ UNCHANGED <<lease, has, over>>

Next ==
  \/ \E S \in SUBSET Hosts : End(S)
  \/ \E h \in Hosts, a \in Addrs : Give(h, a)
  \/ \E j \in Jobs, S \in SUBSET Addrs : Allot(j, S)
  \/ \E j \in Jobs, a \in Addrs : Return(j, a)
  \/ \E j \in Jobs : Finish(j)
  \/ \E a \in Addrs : Sweep(a)

Spec == Init /\ [][Next]_vars
=============================================================================
