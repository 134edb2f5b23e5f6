------------------------------- MODULE MCDhcp -------------------------------
(***************************************************************************)
(* Instances of DhcpAllocator for TLC.                                     *)
(***************************************************************************)
EXTENDS DhcpInv, TLC

CONSTANTS h1, h2, j1, j2,
          MaxAtWork  \* who may be in the middle of something at the same time

\* One job reserves for a MAC, the other does not.
TwoJobs == j1 :> h1 @@ j2 :> NoMac

\* Packets, the XML-RPC call and cleaners overlap, but no packet is answered while
\* a cleaner has a listing: packets leave the reservations alone, cleaners the
\* leases.  Nor are two packets answered once a job is over, which no packet asks.
Packets  == {t \in Threads : pc[t] # "off"}
Listings == {c \in Cleaners : listed[c] # Nobody}
AtWork   == Cardinality(Packets) + Cardinality(Listings) + IF lock = Rpc THEN 1 ELSE 0
FewAtWork ==
  /\ AtWork <= MaxAtWork
  /\ Packets = {} \/ Listings = {}
  /\ Cardinality(Packets) = 2 => over = {}

Symm == Permutations(Threads) \cup Permutations(Cleaners)
=============================================================================
