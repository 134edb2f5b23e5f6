------------------------------ MODULE PoolLock ------------------------------
(***************************************************************************)
(* What the harnesses of a site are promised about a lock that no cleaner  *)
(* touches and no waiter breaks.  One of them owns it, from the moment     *)
(* it takes the lock until it has given it back; it relies on the lock for *)
(* some of that time.  Nobody but its owner gives it back, and not while   *)
(* anybody relies on it.  A harness that ends by itself has given back     *)
(* what it took, or leaves the lock to a person who relies on it further;  *)
(* the lock of one that was killed stays taken.                            *)
(***************************************************************************)
CONSTANTS Procs, NoProc

VARIABLES owner,  \* who owns the lock, or NoProc
          users,  \* who relies on it: harnesses, or the persons they left it to
          ended,  \* harnesses that have ended by themselves
          killed

Init == owner = NoProc /\ users = {} /\ ended = {} /\ killed = {}

Working(p) == p \notin ended \cup killed

Take(p) ==
  /\ Working(p) /\ owner = NoProc
  /\ owner' = p
  /\ UNCHANGED <<users, ended, killed>>

Use(p) ==
  /\ Working(p) /\ owner = p /\ users = {}
  /\ users' = {p}
  /\ UNCHANGED <<owner, ended, killed>>

\* The harness, or the person, needs it no longer.
Stop(p) ==
  /\ users' = users \ {p}
  /\ UNCHANGED <<owner, ended, killed>>

\* Giving it back may be the last thing a harness does.
Give(p) ==
  /\ Working(p) /\ owner = p /\ users = {}
  /\ owner' = NoProc
  /\ ended' \in {ended, ended \cup {p}}
  /\ UNCHANGED <<users, killed>>

End(p) ==
  /\ Working(p) /\ (owner = p => users = {p})
  /\ ended' = ended \cup {p}
  /\ UNCHANGED <<owner, users, killed>>

Kill(p) ==
  /\ Working(p)
  /\ users' = users \ {p}
  /\ killed' = killed \cup {p}
  /\ UNCHANGED <<owner, ended>>

Next == \E p \in Procs : Take(p) \/ Use(p) \/ Stop(p) \/ Give(p) \/ End(p) \/ Kill(p)

Spec == Init /\ [][Next]_<<owner, users, ended, killed>>
=============================================================================
