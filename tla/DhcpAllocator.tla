--------------------------- MODULE DhcpAllocator ---------------------------
(***************************************************************************)
(* The address allocator of a site's DHCP server (xenrtallocator.py.in):   *)
(* leases for hosts that send packets, reservations for jobs that call it  *)
(* by XML-RPC, and the cleaner that releases what dead jobs left.          *)
(*                                                                         *)
(* Every packet has a thread, XML-RPC another.  Each SQL statement is a    *)
(* transaction of its own; a lock keeps allocations apart, but not the     *)
(* blacklisting of a declined address.  Time goes in Ticks; an expiry is   *)
(* the number of Ticks left.                                               *)
(***************************************************************************)
EXTENDS Integers, FiniteSets

CONSTANTS
  NumAddrs,     \* the range of the interface is 1 .. NumAddrs
  Hosts,        \* MACs of network cards
  CloudHosts,   \* those with a CloudStack prefix
  Jobs,
  MacOf,        \* the MAC a job gives with its single reservations, or NoMac
  Threads,      \* packet threads at work at the same time
  Cleaners,     \* runs of --cleanup-locks
  ClientLease,  \* clientleasetime, what hosts are told
  TrueLease,    \* trueleasetime, what the table says
  Blacklist,    \* how long a declined address rests
  NoMac, NoAddr, NoJob, NoHost, NoOne, Invalid, Rpc

Addrs == 1 .. NumAddrs
NoExpiry == -1

ASSUME DhcpAssumption ==
  /\ NumAddrs \in Nat /\ NoAddr \notin Addrs
  /\ CloudHosts \subseteq Hosts
  /\ MacOf \in [Jobs -> Hosts \cup {NoMac}]
  /\ NoMac \notin Hosts /\ Invalid \notin Hosts /\ NoMac # Invalid /\ NoHost \notin Hosts
  /\ NoJob \notin Jobs /\ NoOne \notin Threads /\ Rpc \notin Threads /\ Rpc # NoOne

(***************************************************************************)
(* 7200 and 14400 seconds in infrastructuresetup.py, 24 hours in           *)
(* _blacklistIp.                                                           *)
(***************************************************************************)
ASSUME LeaseAssumption ==
  /\ ClientLease \in Nat \ {0} /\ TrueLease \in Nat /\ Blacklist \in Nat
  /\ ClientLease <= TrueLease /\ ClientLease <= Blacklist

VARIABLES
  mac, left, rsv,            \* table leases: mac, expiry, reserved
  rejected,                  \* rejectedCSAddrs
  lock,                      \* self.lock
  pc, whose, tip, fresh,     \* packet threads: where, for which host, at which
                             \* address; what a lease from now on has left at most
  rpcJob, rpcMac, picked, taken, \* XML-RPC: reserving for, chosen, written
  lease, remain,             \* hosts: address in use, and for how long
  has, over,                 \* jobs: addresses in use; those that are over
  listed, toClean,           \* cleaners: who had an address when it was listed;
                             \* addresses to be released
  swept                      \* history: addresses in use that a cleaner has
                             \* released for another job than it listed

rowVars    == <<mac, left, rsv>>
threadVars == <<pc, whose, tip, fresh>>
rpcVars    == <<rpcJob, rpcMac, picked, taken>>
hostVars   == <<lease, remain>>
jobVars    == <<has, over>>
cleanVars  == <<listed, toClean, swept>>
vars == <<rowVars, rejected, lock, threadVars, rpcVars, hostVars, jobVars,
          cleanVars>>

Labels == {"off", "decline", "lock", "renew?", "renew", "new", "take",
           "answer"}

RowsOK ==
  /\ mac \in [Addrs -> Hosts \cup {NoMac, Invalid}]
  /\ left \in [Addrs -> Int] /\ \A a \in Addrs : left[a] >= NoExpiry
  /\ rsv \in [Addrs -> Jobs \cup {NoJob}]
ServerOK ==
  /\ rejected \subseteq CloudHosts
  /\ lock \in Threads \cup {Rpc, NoOne}
  /\ rpcJob \in Jobs \cup {NoJob} /\ rpcMac \in Hosts \cup {NoMac}
  /\ picked \subseteq Addrs /\ taken \subseteq Addrs
ThreadsOK ==
  /\ pc \in [Threads -> Labels]
  /\ whose \in [Threads -> Hosts \cup {NoHost}]
  /\ tip \in [Threads -> Addrs \cup {NoAddr}]
  /\ fresh \in [Threads -> 0 .. ClientLease]
ClientsOK ==
  /\ lease \in [Hosts -> Addrs \cup {NoAddr}]
  /\ remain \in [Hosts -> 0 .. ClientLease]
  /\ has \in [Jobs -> SUBSET Addrs]
  /\ over \subseteq Jobs
CleanersOK ==
  /\ listed \in [Cleaners -> [Addrs -> Jobs \cup {NoJob}]]
  /\ toClean \in [Cleaners -> SUBSET Addrs]
  /\ swept \subseteq Addrs
TypeOK == RowsOK /\ ServerOK /\ ThreadsOK /\ ClientsOK /\ CleanersOK

\* _setupDB() has inserted a row for every address of the range.
Init ==
  /\ mac = [a \in Addrs |-> NoMac] /\ left = [a \in Addrs |-> NoExpiry]
  /\ rsv = [a \in Addrs |-> NoJob]
  /\ rejected = {} /\ lock = NoOne
  /\ pc = [t \in Threads |-> "off"] /\ whose = [t \in Threads |-> NoHost]
  /\ tip = [t \in Threads |-> NoAddr] /\ fresh = [t \in Threads |-> 0]
  /\ rpcJob = NoJob /\ rpcMac = NoMac /\ picked = {} /\ taken = {}
  /\ lease = [h \in Hosts |-> NoAddr] /\ remain = [h \in Hosts |-> 0]
  /\ has = [j \in Jobs |-> {}] /\ over = {}
  /\ listed = [c \in Cleaners |-> [a \in Addrs |-> NoJob]]
  /\ toClean = [c \in Cleaners |-> {}] /\ swept = {}

-----------------------------------------------------------------------------
\* reserved IS NULL AND (mac IS NULL OR expiry < now): false for a MAC without
\* an expiry.
AvailableReserved(a) == mac[a] = NoMac \/ left[a] = 0
Available(a) == rsv[a] = NoJob /\ (mac[a] = NoMac \/ left[a] = 0)

\* ORDER BY addr LIMIT 1
Lowest(S) == {a \in S : \A b \in S : a <= b}

\* _findActiveLease(): the rows of the MAC, ORDER BY expiry DESC, which puts
\* those without an expiry first.  Expired or not.
Ahead(a, b) == left[a] = NoExpiry \/ (left[b] # NoExpiry /\ left[a] >= left[b])
RowsOf(h) == {a \in Addrs : mac[a] = h}
Active(h) == {a \in RowsOf(h) : \A b \in RowsOf(h) : Ahead(a, b)}

Goto(t, l) == pc' = [pc EXCEPT ![t] = l]
At(t, a) == tip' = [tip EXCEPT ![t] = a]

\* The end of a thread.
Finish(t) ==
  /\ pc' = [pc EXCEPT ![t] = "off"]
  /\ whose' = [whose EXCEPT ![t] = NoHost]
  /\ tip' = [tip EXCEPT ![t] = NoAddr]
  /\ fresh' = [fresh EXCEPT ![t] = 0]

-----------------------------------------------------------------------------
(***************************************************************************)
(* Packets.  DISCOVER and all forms of REQUEST do the same up to the       *)
(* answer, and so do RELEASE and INFORM, whose answer gives no lease.      *)
(* Packets that are lost, that the filters drop or whose MAC isBlocked()   *)
(* never get this far.                                                     *)
(***************************************************************************)
\* Taking the lock and _findActiveLease().  (With the lock held only a DECLINE
\* changes rows, and one between the two might as well come before.)
Find(t, h) ==
  /\ lock = NoOne /\ lock' = t
  /\ \/ \E a \in Active(h) : At(t, a) /\ Goto(t, "renew?")
     \/ Active(h) = {} /\ Goto(t, "new") /\ UNCHANGED tip

Receive(t, h) ==
  /\ pc[t] = "off" /\ Find(t, h)
  /\ whose' = [whose EXCEPT ![t] = h]
  /\ fresh' = [fresh EXCEPT ![t] = ClientLease]
  /\ UNCHANGED <<rowVars, rejected, rpcVars, hostVars, jobVars, cleanVars>>

\* A host finds that the address it was given is in use by somebody else; its
\* packet names the address or not.
ReceiveDecline(t, h) ==
  /\ pc[t] = "off" /\ lease[h] # NoAddr
  /\ Goto(t, "decline")
  /\ whose' = [whose EXCEPT ![t] = h]
  /\ tip' \in {[tip EXCEPT ![t] = a] : a \in {lease[h], NoAddr}}
  /\ lease' = [lease EXCEPT ![h] = NoAddr]
  /\ remain' = [remain EXCEPT ![h] = 0]
  /\ UNCHANGED <<rowVars, rejected, lock, fresh, rpcVars, jobVars, cleanVars>>

\* getResponse() of a DECLINE looks for the address without the lock ...
DeclineFind(t) ==
  /\ pc[t] = "decline" /\ tip[t] = NoAddr
  /\ \/ \E a \in Active(whose[t]) : At(t, a) /\ UNCHANGED pc
     \/ Active(whose[t]) = {} /\ Goto(t, "lock") /\ UNCHANGED tip
  /\ UNCHANGED <<rowVars, rejected, lock, whose, fresh, rpcVars, hostVars, jobVars,
                 cleanVars>>

BlacklistForGood(t) ==
  /\ pc[t] = "decline" /\ tip[t] # NoAddr
  /\ mac' = [mac EXCEPT ![tip[t]] = Invalid]
  /\ left' = [left EXCEPT ![tip[t]] = NoExpiry]
  /\ Goto(t, "lock") /\ At(t, NoAddr)
  /\ UNCHANGED <<rsv, rejected, lock, whose, fresh, rpcVars, hostVars, jobVars, cleanVars>>

\* ... and blacklists it whoever has it now, then goes on as for any packet.
DeclineBlacklist(t) ==
  /\ pc[t] = "decline" /\ tip[t] # NoAddr
  /\ mac' = [mac EXCEPT ![tip[t]] = Invalid]
  /\ left' = [left EXCEPT ![tip[t]] = Blacklist]
  /\ Goto(t, "lock") /\ At(t, NoAddr)
  /\ UNCHANGED <<rsv, rejected, lock, whose, fresh, rpcVars, hostVars, jobVars,
                 cleanVars>>

AfterDecline(t) ==
  /\ pc[t] = "lock" /\ Find(t, whose[t])
  /\ UNCHANGED <<rowVars, rejected, whose, fresh, rpcVars, hostVars, jobVars, cleanVars>>

\* _renewLease(): the row may have been blacklisted meanwhile.
RenewLook(t) ==
  /\ pc[t] = "renew?"
  /\ Goto(t, IF mac[tip[t]] = whose[t] THEN "renew" ELSE "new")
  /\ UNCHANGED <<rowVars, rejected, lock, whose, tip, fresh, rpcVars, hostVars,
                 jobVars, cleanVars>>

RenewWrite(t) ==
  /\ pc[t] = "renew"
  /\ left' = [left EXCEPT ![tip[t]] = TrueLease]
  /\ lock' = NoOne
  /\ Goto(t, "answer")
  /\ UNCHANGED <<mac, rsv, rejected, whose, tip, fresh, rpcVars, hostVars, jobVars,
                 cleanVars>>

\* _getNewLease(): a CloudStack MAC is turned away the first time.
TurnAway(t) ==
  /\ pc[t] = "new" /\ whose[t] \in CloudHosts \ rejected
  /\ rejected' = rejected \cup {whose[t]}
  /\ lock' = NoOne
  /\ Finish(t)
  /\ UNCHANGED <<rowVars, rpcVars, hostVars, jobVars, cleanVars>>

PickUnlocked(t) ==
  /\ pc[t] = "new" /\ whose[t] \notin CloudHosts \ rejected
  /\ lock' = NoOne
  /\ \/ \E a \in Lowest({b \in Addrs : Available(b)}) :
          At(t, a) /\ Goto(t, "take") /\ UNCHANGED <<whose, fresh>>
     \/ {b \in Addrs : Available(b)} = {} /\ Finish(t)
  /\ UNCHANGED <<rowVars, rejected, rpcVars, hostVars, jobVars, cleanVars>>

NewPick(t) ==
  /\ pc[t] = "new" /\ whose[t] \notin CloudHosts \ rejected
  /\ \/ \E a \in Lowest({b \in Addrs : Available(b)}) :
          At(t, a) /\ Goto(t, "take") /\ UNCHANGED <<whose, fresh, lock>>
     \/ {b \in Addrs : Available(b)} = {} /\ Finish(t) /\ lock' = NoOne
  /\ UNCHANGED <<rowVars, rejected, rpcVars, hostVars, jobVars, cleanVars>>

NewTake(t) ==
  /\ pc[t] = "take"
  /\ mac' = [mac EXCEPT ![tip[t]] = whose[t]]
  /\ left' = [left EXCEPT ![tip[t]] = TrueLease]
  /\ lock' = NoOne
  /\ Goto(t, "answer")
  /\ UNCHANGED <<rsv, rejected, whose, tip, fresh, rpcVars, hostVars, jobVars,
                 cleanVars>>

\* The answer arrives and is an ACK, as long as the host is still interested; it
\* counts its lease from the sending of the packet, which may have been some
\* time before Receive ...
Ack(t) ==
  /\ pc[t] = "answer"
  /\ lease' = [lease EXCEPT ![whose[t]] = tip[t]]
  /\ \E n \in 1 .. fresh[t] : remain' = [remain EXCEPT ![whose[t]] = n]
  /\ Finish(t)
  /\ UNCHANGED <<rowVars, rejected, lock, rpcVars, jobVars, cleanVars>>

\* ... or it gives no lease (an OFFER, a NAK, an INFORM or RELEASE), or is lost.
\* A blocked host that declined gets none.
NoAck(t) ==
  /\ pc[t] \in {"lock", "answer"}
  /\ Finish(t)
  /\ UNCHANGED <<rowVars, rejected, lock, rpcVars, hostVars, jobVars, cleanVars>>

\* A host gives its address up: a NAK, a shutdown, a RELEASE.
Drop(h) ==
  /\ lease[h] # NoAddr
  /\ lease' = [lease EXCEPT ![h] = NoAddr]
  /\ remain' = [remain EXCEPT ![h] = 0]
  /\ UNCHANGED <<rowVars, rejected, lock, threadVars, rpcVars, jobVars, cleanVars>>

-----------------------------------------------------------------------------
(***************************************************************************)
(* XML-RPC: one call at a time.                                            *)
(***************************************************************************)
\* reserveSingleAddress() selects the lowest address, reserveAddressRange() the
\* first run of adjacent ones, and both update row by row.
RunOf(a, n) == a .. (a + n - 1)
FreeRuns(n) == {a \in Addrs : RunOf(a, n) \subseteq {b \in Addrs : Available(b)}}

Pick(j, m, S) ==
  /\ j \notin over /\ lock = NoOne
  /\ lock' = Rpc /\ rpcJob' = j /\ rpcMac' = m /\ picked' = S
  /\ UNCHANGED <<rowVars, rejected, threadVars, taken, hostVars, jobVars,
                 cleanVars>>

\* Only a single reservation may be for a MAC.
PickSingle(j) == \E a \in Lowest(FreeRuns(1)), m \in {NoMac, MacOf[j]} : Pick(j, m, {a})
PickRange(j)  == \E n \in 1 .. NumAddrs : \E a \in Lowest(FreeRuns(n)) : Pick(j, NoMac, RunOf(a, n))

Reserve(a) ==
  /\ lock = Rpc /\ a \in picked
  /\ rsv' = [rsv EXCEPT ![a] = rpcJob]
  /\ mac' = [mac EXCEPT ![a] = rpcMac]
  /\ picked' = picked \ {a} /\ taken' = taken \cup {a}
  /\ UNCHANGED <<left, rejected, lock, rpcJob, rpcMac, threadVars, hostVars, jobVars,
                 cleanVars>>

\* The reply; a job that was killed meanwhile does not get it.
Reply ==
  /\ lock = Rpc /\ picked = {}
  /\ has' = [has EXCEPT ![rpcJob] = IF rpcJob \notin over THEN @ \cup taken ELSE @]
  /\ lock' = NoOne /\ rpcJob' = NoJob /\ rpcMac' = NoMac /\ taken' = {}
  /\ UNCHANGED <<rowVars, rejected, threadVars, picked, hostVars, over, cleanVars>>

ClearReservation(a) == rsv' = [rsv EXCEPT ![a] = NoJob]

\* An address is swept as long as anybody goes on using it.
InUse(S) == {a \in S : \E j \in Jobs : a \in has'[j]}

\* release() of a StaticIP4AddrDHCP, in the middle of a run or at its end: by
\* address, whoever has it reserved now.
Release(j, a) ==
  /\ a \in has[j] /\ lock = NoOne
  /\ ClearReservation(a)
  /\ has' = [has EXCEPT ![j] = @ \ {a}]
  /\ swept' = InUse(swept)
  /\ UNCHANGED <<mac, left, rejected, lock, threadVars, rpcVars, hostVars, over,
                 listed, toClean>>

\* The job is over and nobody keeps its machines (canCleanJobResources() says so
\* from now on), with whatever it did not release: it was killed, a release
\* failed, or keepSetup() left the addresses to a person.
Over(j) ==
  /\ j \notin over
  /\ over' = over \cup {j}
  /\ has' = [has EXCEPT ![j] = {}]
  /\ swept' = InUse(swept)
  /\ UNCHANGED <<rowVars, rejected, lock, threadVars, rpcVars, hostVars, listed,
                 toClean>>

-----------------------------------------------------------------------------
(***************************************************************************)
(* --cleanup-locks, which cron starts whether or not the last one has      *)
(* ended: it lists the reservations of some age, asks for each job whether *)
(* its resources may be cleaned, and then releases one address after the   *)
(* other, until it is done or fails.                                       *)
(***************************************************************************)
Nobody == [a \in Addrs |-> NoJob]

CleanList(c) ==
  /\ listed[c] = Nobody /\ rsv # Nobody /\ lock = NoOne
  /\ listed' = [listed EXCEPT ![c] = rsv]
  /\ UNCHANGED <<rowVars, rejected, lock, threadVars, rpcVars, hostVars, jobVars,
                 toClean, swept>>

AskNobody(c) ==
  /\ listed[c] # Nobody /\ toClean[c] = {}
  /\ \E S \in SUBSET {a \in Addrs : listed[c][a] # NoJob} :
       /\ toClean' = [toClean EXCEPT ![c] = S]
       /\ listed' = [listed EXCEPT ![c] = [a \in Addrs |-> IF a \in S THEN @[a] ELSE NoJob]]
  /\ UNCHANGED <<rowVars, rejected, lock, threadVars, rpcVars, hostVars, jobVars,
                 swept>>

\* It asks about the jobs it has listed, not about those that have the addresses
\* now.  What is too young, or comes after a release that fails, is left out.
CleanAsk(c) ==
  /\ listed[c] # Nobody /\ toClean[c] = {}
  /\ \E S \in SUBSET {a \in Addrs : listed[c][a] \in over} :
       /\ toClean' = [toClean EXCEPT ![c] = S]
       /\ listed' = [listed EXCEPT ![c] = [a \in Addrs |-> IF a \in S THEN @[a] ELSE NoJob]]
  /\ UNCHANGED <<rowVars, rejected, lock, threadVars, rpcVars, hostVars, jobVars,
                 swept>>

\* releaseAddress() is given the address alone.
CleanRelease(c, a) ==
  /\ a \in toClean[c] /\ lock = NoOne
  /\ ClearReservation(a) /\ UNCHANGED jobVars
  /\ swept' = InUse(IF rsv[a] # listed[c][a] THEN swept \cup {a} ELSE swept)
  /\ toClean' = [toClean EXCEPT ![c] = @ \ {a}]
  /\ listed' = [listed EXCEPT ![c][a] = NoJob]
  /\ UNCHANGED <<mac, left, rejected, lock, threadVars, rpcVars, hostVars>>

\* The daemon dies and its watchdog starts it again: the tables stay.
Restart ==
  /\ lock' = NoOne /\ rejected' = {}
  /\ pc' = [t \in Threads |-> "off"] /\ whose' = [t \in Threads |-> NoHost]
  /\ tip' = [t \in Threads |-> NoAddr] /\ fresh' = [t \in Threads |-> 0]
  /\ rpcJob' = NoJob /\ rpcMac' = NoMac /\ picked' = {} /\ taken' = {}
  /\ UNCHANGED <<rowVars, hostVars, jobVars, cleanVars>>

-----------------------------------------------------------------------------
LessUnchecked(n) == n - 1
Less(n) == IF n > 0 THEN n - 1 ELSE n

Tick ==
  /\ left' = [a \in Addrs |-> Less(left[a])]
  /\ fresh' = [t \in Threads |-> Less(fresh[t])]
  /\ remain' = [h \in Hosts |-> Less(remain[h])]
  /\ lease' = [h \in Hosts |-> IF remain[h] > 1 THEN lease[h] ELSE NoAddr]
  /\ UNCHANGED <<mac, rsv, rejected, lock, pc, whose, tip, rpcVars, jobVars,
                 cleanVars>>

Packet(t) ==
  \/ \E h \in Hosts : Receive(t, h) \/ ReceiveDecline(t, h)
  \/ DeclineFind(t) \/ DeclineBlacklist(t) \/ AfterDecline(t)
  \/ RenewLook(t) \/ RenewWrite(t) \/ TurnAway(t) \/ NewPick(t) \/ NewTake(t)
  \/ Ack(t) \/ NoAck(t)
Job(j) ==
  \/ PickSingle(j) \/ PickRange(j) \/ Over(j)
  \/ \E a \in Addrs : Release(j, a)
Clean(c) == CleanList(c) \/ CleanAsk(c) \/ \E a \in Addrs : CleanRelease(c, a)

Next ==
  \/ \E t \in Threads : Packet(t)
  \/ \E h \in Hosts : Drop(h)
  \/ \E j \in Jobs : Job(j)
  \/ \E a \in Addrs : Reserve(a)
  \/ \E c \in Cleaners : Clean(c)
  \/ Reply \/ Restart \/ Tick

Spec == Init /\ [][Next]_vars
-----------------------------------------------------------------------------
(***************************************************************************)
(* Nobody shares an address: two hosts with leases, two jobs with          *)
(* reservations, or a host and a job that did not reserve the address for  *)
(* that host.  The lock does not cover all of it: a declined address is    *)
(* blacklisted without it, under a thread that has selected the row or is  *)
(* about to renew it; answers are late; tables outlive the daemon.  Only   *)
(* an address that is swept may have a second user beside its job.         *)
(***************************************************************************)
HostsApart ==
  \A a \in Addrs : \A g, h \in Hosts : lease[g] = a /\ lease[h] = a => g = h
JobsApart ==
  \A a \in Addrs \ swept : \A i, j \in Jobs : a \in has[i] /\ a \in has[j] => i = j
NoAddressShared ==
  /\ HostsApart /\ JobsApart
  /\ \A j \in Jobs, h \in Hosts : lease[h] \in has[j] \ swept => h = MacOf[j]

(***************************************************************************)
(* An address a job has, or a person who kept the job's set-up, stays      *)
(* reserved for that job, through crashes and beside the cleaners          *)
(* (main.py:1854), which release by address what they listed earlier.  The *)
(* exception is what a cleaner had listed for another job, one that is     *)
(* over by the time it asks: that job, or another cleaner, has released    *)
(* the address since, and this one takes it from the next job.             *)
(***************************************************************************)
HeldIsReserved == \A j \in Jobs : \A a \in has[j] \ swept : rsv[a] = j

(***************************************************************************)
(* No address is lost: one that is not available is reserved by a job,     *)
(* which will release it or leave it to the cleaner, or its time is        *)
(* running, or it was reserved for a MAC that never asked for it: only     *)
(* that MAC can bring it back, as the row has no expiry.                   *)
(***************************************************************************)
Stranded(a) == left[a] = NoExpiry /\ \E j \in Jobs : mac[a] = MacOf[j]
NoAddressLost ==
  \A a \in Addrs : Available(a) \/ rsv[a] # NoJob \/ left[a] > 0 \/ Stranded(a)
=============================================================================
