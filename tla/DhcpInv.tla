------------------------------ MODULE DhcpInv ------------------------------
(***************************************************************************)
(* The inductive invariant of DhcpAllocator: SafeInv, in which the         *)
(* cleaners do not matter, and what jobs may count on beside them.         *)
(***************************************************************************)
EXTENDS DhcpAllocator

\* Who has an address or will have it when an answer arrives that is on its way.
Answered(t, h, a) == pc[t] = "answer" /\ whose[t] = h /\ tip[t] = a /\ fresh[t] > 0
Holder(h, a) == lease[h] = a \/ \E t \in Threads : Answered(t, h, a)
Unheld(a) == \A h \in Hosts : ~Holder(h, a)

\* Whose packet a thread has, and whom the lock serves.
Locking == {"renew?", "renew", "new", "take"}
Served(t) ==
  /\ pc[t] # "off" => whose[t] \in Hosts
  /\ pc[t] \in {"renew?", "renew", "take", "answer"} => tip[t] \in Addrs
  /\ pc[t] \in Locking => lock = t
RpcServed ==
  /\ lock = Rpc => rpcJob \in Jobs /\ rpcMac \in {NoMac, MacOf[rpcJob]}
  /\ lock # Rpc => picked = {} /\ taken = {}
Base == TypeOK /\ RpcServed /\ \A t \in Threads : Served(t)

\* The row of an address that is held names its holder or is blacklisted, and
\* outlasts the lease.
Covers(a, h, n) == mac[a] \in {h, Invalid} /\ 0 < n /\ n <= left[a]
LeaseInv  == \A h \in Hosts : lease[h] # NoAddr => Covers(lease[h], h, remain[h])
AnswerInv == \A t \in Threads : pc[t] = "answer" /\ fresh[t] > 0 => Covers(tip[t], whose[t], fresh[t])
Sole      == \A a \in Addrs : \A g, h \in Hosts : Holder(g, a) /\ Holder(h, a) => g = h

\* What a thread under the lock may count on, whatever a DECLINE does.
RenewInv == \A t \in Threads : pc[t] = "renew" =>
  /\ mac[tip[t]] \in {whose[t], Invalid}
  /\ \A h \in Hosts : Holder(h, tip[t]) => h = whose[t]
  /\ rsv[tip[t]] # NoJob => whose[t] = MacOf[rsv[tip[t]]]
TakeInv == \A t \in Threads : pc[t] = "take" => rsv[tip[t]] = NoJob /\ Unheld(tip[t])

\* The same of a call that reserves.
RpcInv ==
  /\ \A a \in picked : rsv[a] = NoJob /\ Unheld(a)
  /\ \A a \in taken : rsv[a] = rpcJob
RunInv == \A a, b \in picked \cup taken : a .. b \subseteq picked \cup taken

\* Only the host a reservation names holds the address.
ReservedInv == \A a \in Addrs : rsv[a] # NoJob =>
  /\ mac[a] \in {NoMac, Invalid, MacOf[rsv[a]]}
  /\ \A h \in Hosts : Holder(h, a) => h = MacOf[rsv[a]]

\* No host leases an address that is reserved for another, or for none.
ReservationsKept ==
  \A a \in Addrs, h \in Hosts : lease[h] = a /\ rsv[a] # NoJob => h = MacOf[rsv[a]]

HasInv   == \A j \in Jobs : \A a \in has[j] : j \notin over /\ (a \notin swept => rsv[a] = j)
SweptInv == \A a \in swept : \E j \in Jobs : a \in has[j]
CleanInv == \A c \in Cleaners : \A a \in toClean[c] : listed[c][a] \in over

LostInv == \A a \in Addrs : mac[a] # NoMac /\ left[a] = NoExpiry => \E j \in Jobs : mac[a] = MacOf[j]

HostInv == LeaseInv /\ AnswerInv /\ Sole
SafeInv == /\ Base /\ HostInv /\ RenewInv /\ TakeInv
           /\ RpcInv /\ RunInv /\ ReservedInv /\ LostInv
IInv == SafeInv /\ HasInv /\ SweptInv /\ CleanInv

-----------------------------------------------------------------------------
(***************************************************************************)
(* The allocator keeps the promise of AddressPool: a lease or reservation  *)
(* is given to nobody while somebody else has the address, at the moment   *)
(* the answer arrives.                                                     *)
(***************************************************************************)
Pool == INSTANCE AddressPool
ImplementsPool == Pool!Spec
=============================================================================
