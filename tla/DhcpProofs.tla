----------------------------- MODULE DhcpProofs -----------------------------
(***************************************************************************)
(* Theorems of DhcpAllocator, for every value of the constants.            *)
(***************************************************************************)
EXTENDS DhcpInv, TLAPS

-----------------------------------------------------------------------------
(***************************************************************************)
(* Types, and whom the threads and the lock serve.                         *)
(***************************************************************************)
LEMMA RowTypes ==
  ASSUME Base, [Next]_vars
  PROVE  RowsOK'
<1> USE DhcpAssumption, LeaseAssumption
    DEF Base, TypeOK, RowsOK, ServerOK, ThreadsOK, NoExpiry, rowVars, Served, RpcServed
<1>1. ASSUME NEW t \in Threads, DeclineBlacklist(t)
      PROVE  RowsOK'
  BY <1>1 DEF DeclineBlacklist
<1>2. ASSUME NEW t \in Threads, RenewWrite(t)
      PROVE  RowsOK'
  BY <1>2 DEF RenewWrite
<1>3. ASSUME NEW t \in Threads, NewTake(t)
      PROVE  RowsOK'
  <2>1. whose[t] \in Hosts /\ tip[t] \in Addrs
    BY <1>3 DEF NewTake
  <2>2. QED
    BY <1>3, <2>1 DEF NewTake
<1>4. ASSUME NEW a \in Addrs, Reserve(a)
      PROVE  RowsOK'
  BY <1>4 DEF Reserve
<1>5. ASSUME NEW a \in Addrs, ClearReservation(a), UNCHANGED <<mac, left>>
      PROVE  RowsOK'
  BY <1>5 DEF ClearReservation
<1>6. CASE Tick
  BY <1>6 DEF Tick, Less
<1>7. CASE UNCHANGED rowVars
  BY <1>7
<1>8. QED
  BY <1>1, <1>2, <1>3, <1>4, <1>5, <1>6, <1>7
  DEF Next, vars, Packet, Job, Clean, Receive, ReceiveDecline, DeclineFind, AfterDecline,
      RenewLook, TurnAway, NewPick, Ack, NoAck, Drop, PickSingle, PickRange, Pick, Over,
      Release, CleanList, CleanAsk, CleanRelease, Reply, Restart

LEMMA ServerTypes ==
  ASSUME Base, [Next]_vars
  PROVE  ServerOK' /\ RpcServed'
<1> USE DhcpAssumption DEF Base, TypeOK, ServerOK, rpcVars, RpcServed, Locking
<1>1. ASSUME NEW t \in Threads, NEW h \in Hosts, Receive(t, h)
      PROVE  ServerOK' /\ RpcServed'
  BY <1>1 DEF Receive, Find
<1>2. ASSUME NEW t \in Threads, AfterDecline(t)
      PROVE  ServerOK' /\ RpcServed'
  BY <1>2 DEF AfterDecline, Find
<1>3. ASSUME NEW t \in Threads, RenewWrite(t) \/ NewTake(t)
      PROVE  ServerOK' /\ RpcServed'
  BY <1>3 DEF RenewWrite, NewTake, Served
<1>4. ASSUME NEW t \in Threads, TurnAway(t)
      PROVE  ServerOK' /\ RpcServed'
  BY <1>4 DEF TurnAway, Served
<1>5. ASSUME NEW t \in Threads, NewPick(t)
      PROVE  ServerOK' /\ RpcServed'
  BY <1>5 DEF NewPick, Served
<1>6. ASSUME NEW j \in Jobs, PickSingle(j)
      PROVE  ServerOK' /\ RpcServed'
  BY <1>6 DEF PickSingle, Pick, Lowest, FreeRuns
<1>7. ASSUME NEW j \in Jobs, PickRange(j)
      PROVE  ServerOK' /\ RpcServed'
  BY <1>7 DEF PickRange, Pick, Lowest, FreeRuns
<1>8. ASSUME NEW a \in Addrs, Reserve(a)
      PROVE  ServerOK' /\ RpcServed'
  BY <1>8 DEF Reserve
<1>9. CASE Reply
  BY <1>9 DEF Reply
<1>10. CASE Restart
  BY <1>10 DEF Restart
<1>11. CASE UNCHANGED <<rejected, lock, rpcVars>>
  BY <1>11
<1>12. QED
  BY <1>1, <1>2, <1>3, <1>4, <1>5, <1>6, <1>7, <1>8, <1>9, <1>10, <1>11
  DEF Next, vars, Packet, Job, Clean, ReceiveDecline, DeclineFind, DeclineBlacklist,
      RenewLook, Ack, NoAck, Drop, Over, Release, CleanList, CleanAsk, CleanRelease, Tick

LEMMA ThreadTypes ==
  ASSUME Base, [Next]_vars
  PROVE  ThreadsOK' /\ \A t \in Threads : Served(t)'
<1> DEFINE Good == ThreadsOK' /\ \A t \in Threads : Served(t)'
<1> USE DhcpAssumption, LeaseAssumption
    DEF Base, TypeOK, ThreadsOK, ClientsOK, threadVars, Served, Labels, Goto, At, Finish,
        Locking, Active, RowsOf, Find
<1>1. ASSUME NEW t \in Threads, NEW h \in Hosts, Receive(t, h)
      PROVE  Good
  BY <1>1 DEF Receive
<1>2. ASSUME NEW t \in Threads, NEW h \in Hosts, ReceiveDecline(t, h)
      PROVE  Good
  BY <1>2 DEF ReceiveDecline
<1>3. ASSUME NEW t \in Threads, DeclineFind(t)
      PROVE  Good
  BY <1>3 DEF DeclineFind
<1>4. ASSUME NEW t \in Threads, DeclineBlacklist(t)
      PROVE  Good
  BY <1>4 DEF DeclineBlacklist
<1>5. ASSUME NEW t \in Threads, AfterDecline(t)
      PROVE  Good
  BY <1>5 DEF AfterDecline
<1>6. ASSUME NEW t \in Threads, RenewLook(t)
      PROVE  Good
  BY <1>6 DEF RenewLook
<1>7. ASSUME NEW t \in Threads, RenewWrite(t) \/ NewTake(t)
      PROVE  Good
  BY <1>7 DEF RenewWrite, NewTake
<1>8. ASSUME NEW t \in Threads, TurnAway(t)
      PROVE  Good
  BY <1>8 DEF TurnAway
<1>9. ASSUME NEW t \in Threads, NewPick(t)
      PROVE  Good
  BY <1>9 DEF NewPick, Lowest
<1>10. ASSUME NEW t \in Threads, Ack(t) \/ NoAck(t)
      PROVE  Good
  BY <1>10 DEF Ack, NoAck
<1>11. ASSUME NEW j \in Jobs, PickSingle(j) \/ PickRange(j)
      PROVE  Good
  BY <1>11 DEF PickSingle, PickRange, Pick
<1>12. CASE Reply
  BY <1>12 DEF Reply
<1>13. CASE Restart
  BY <1>13 DEF Restart
<1>14. CASE Tick
  BY <1>14 DEF Tick, Less
<1>15. CASE UNCHANGED <<threadVars, lock>>
  BY <1>15
<1>16. QED
  BY <1>1, <1>2, <1>3, <1>4, <1>5, <1>6, <1>7, <1>8, <1>9, <1>10, <1>11, <1>12, <1>13,
     <1>14, <1>15
  DEF Next, vars, Packet, Job, Clean, Drop, Over, Release, Reserve, CleanList, CleanAsk, CleanRelease

LEMMA ClientTypes ==
  ASSUME Base, [Next]_vars
  PROVE  ClientsOK'
<1> USE DhcpAssumption, LeaseAssumption
    DEF Base, TypeOK, ClientsOK, ThreadsOK, ServerOK, hostVars, jobVars
<1>1. ASSUME NEW t \in Threads, NEW h \in Hosts, ReceiveDecline(t, h)
      PROVE  ClientsOK'
  BY <1>1 DEF ReceiveDecline
<1>2. ASSUME NEW t \in Threads, Ack(t)
      PROVE  ClientsOK'
  <2>1. tip[t] \in Addrs /\ whose[t] \in Hosts
    BY <1>2 DEF Ack, Served
  <2>2. QED
    BY <1>2, <2>1 DEF Ack
<1>3. ASSUME NEW h \in Hosts, Drop(h)
      PROVE  ClientsOK'
  BY <1>3 DEF Drop
<1>4. ASSUME NEW j \in Jobs, Over(j)
      PROVE  ClientsOK'
  BY <1>4 DEF Over
<1>5. ASSUME NEW j \in Jobs, NEW a \in Addrs, Release(j, a)
      PROVE  ClientsOK'
  BY <1>5 DEF Release
<1>6. CASE Reply
  BY <1>6 DEF Reply, RpcServed
<1>7. CASE Restart
  BY <1>7 DEF Restart
<1>8. CASE Tick
  BY <1>8 DEF Tick, Less
<1>9. CASE UNCHANGED <<hostVars, jobVars>>
  BY <1>9
<1>10. QED
  BY <1>1, <1>2, <1>3, <1>4, <1>5, <1>6, <1>7, <1>8, <1>9
  DEF Next, vars, Packet, Job, Clean, Receive, DeclineFind, DeclineBlacklist, AfterDecline,
      RenewLook, RenewWrite, TurnAway, NewPick, NewTake, NoAck, PickSingle, PickRange, Pick,
      Reserve, CleanList, CleanAsk, CleanRelease

LEMMA CleanerTypes ==
  ASSUME Base, [Next]_vars
  PROVE  CleanersOK'
<1> USE DEF Base, TypeOK, CleanersOK, RowsOK, cleanVars, InUse
<1>1. ASSUME NEW c \in Cleaners, CleanList(c)
      PROVE  CleanersOK'
  BY <1>1 DEF CleanList
<1>2. ASSUME NEW c \in Cleaners, CleanAsk(c)
      PROVE  CleanersOK'
  <2>1. PICK S \in SUBSET Addrs :
          /\ toClean' = [toClean EXCEPT ![c] = S]
          /\ listed' = [listed EXCEPT ![c] = [a \in Addrs |-> IF a \in S THEN listed[c][a] ELSE NoJob]]
    BY <1>2 DEF CleanAsk
  <2>2. swept' = swept
    BY <1>2 DEF CleanAsk
  <2>3. QED
    BY <2>1, <2>2
<1>3. ASSUME NEW c \in Cleaners, NEW a \in Addrs, CleanRelease(c, a)
      PROVE  CleanersOK'
  BY <1>3 DEF CleanRelease
<1>4. ASSUME NEW S \in SUBSET Addrs, swept' = InUse(S), UNCHANGED <<listed, toClean>>
      PROVE  CleanersOK'
  BY <1>4
<1>5. CASE UNCHANGED cleanVars
  BY <1>5
<1>6. QED
  BY <1>1, <1>2, <1>3, <1>4, <1>5
  DEF Next, vars, Packet, Job, Clean, Receive, ReceiveDecline, DeclineFind, DeclineBlacklist,
      AfterDecline, RenewLook, RenewWrite, TurnAway, NewPick, NewTake, Ack, NoAck, Drop,
      PickSingle, PickRange, Pick, Over, Release, Reserve, Reply, Restart, Tick

LEMMA BaseInit == Init => Base
BY DhcpAssumption, LeaseAssumption
   DEF Init, Base, TypeOK, RowsOK, ServerOK, ThreadsOK, ClientsOK, CleanersOK, RpcServed, Served, Labels,
       Locking, NoExpiry

LEMMA BaseStep == Base /\ [Next]_vars => Base'
<1> SUFFICES ASSUME Base, [Next]_vars PROVE Base'
  OBVIOUS
<1>1. RowsOK'
  BY RowTypes
<1>2. ServerOK' /\ RpcServed'
  BY ServerTypes
<1>3. ThreadsOK' /\ \A t \in Threads : Served(t)'
  BY ThreadTypes
<1>4. ClientsOK'
  BY ClientTypes
<1>5. CleanersOK'
  BY CleanerTypes
<1>6. QED
  BY <1>1, <1>2, <1>3, <1>4, <1>5 DEF Base, TypeOK

(***************************************************************************)
(* Every variable keeps its type.                                          *)
(***************************************************************************)
THEOREM TypeCorrectness == Spec => []TypeOK
<1>1. Base => TypeOK
  BY DEF Base
<1>2. QED
  BY <1>1, BaseInit, BaseStep, PTL DEF Spec

-----------------------------------------------------------------------------
(***************************************************************************)
(* Who holds an address.  Only the two writes under the lock make a holder.*)
(***************************************************************************)
Grants(t) == RenewWrite(t) \/ NewTake(t)

LEMMA HostSteps ==
  ASSUME [Next]_vars
  PROVE  \/ \E t \in Threads, h \in Hosts : ReceiveDecline(t, h)
         \/ \E t \in Threads : Ack(t)
         \/ \E h \in Hosts : Drop(h)
         \/ Tick
         \/ UNCHANGED hostVars /\ ~Tick
BY DEF Next, vars, Packet, Job, Clean, Receive, DeclineFind, DeclineBlacklist, AfterDecline,
       RenewLook, RenewWrite, TurnAway, NewPick, NewTake, NoAck, PickSingle, PickRange, Pick,
       Over, Release, Reserve, CleanList, CleanAsk, CleanRelease, Reply, Restart

LEMMA HolderFrom ==
  ASSUME Base, [Next]_vars, NEW h \in Hosts, NEW a \in Addrs, Holder(h, a)'
  PROVE  Holder(h, a) \/ \E t \in Threads : Grants(t) /\ whose[t] = h /\ tip[t] = a
<1> USE DhcpAssumption DEF Base, TypeOK, ThreadsOK, ClientsOK
<1>1. CASE lease'[h] = a
  <2>1. a # NoAddr
    BY DEF Addrs
  <2>2. lease[h] = a \/ \E t \in Threads : Answered(t, h, a)
    BY <1>1, <2>1, HostSteps DEF hostVars, ReceiveDecline, Ack, Drop, Tick, Answered, Served
  <2>3. QED
    BY <2>2 DEF Holder
<1>2. ASSUME NEW t \in Threads, Answered(t, h, a)'
      PROVE  Answered(t, h, a) \/ (Grants(t) /\ whose[t] = h /\ tip[t] = a)
  <2> USE <1>2 DEF Answered, Served, Goto, At, Finish
  <2>1. ASSUME NEW u \in Threads, NEW g \in Hosts, Receive(u, g) \/ ReceiveDecline(u, g)
        PROVE  Answered(t, h, a)
    BY <2>1 DEF Receive, Find, ReceiveDecline
  <2>2. ASSUME NEW u \in Threads, DeclineFind(u) \/ DeclineBlacklist(u)
        PROVE  Answered(t, h, a)
    BY <2>2 DEF DeclineFind, DeclineBlacklist
  <2>3. ASSUME NEW u \in Threads, AfterDecline(u) \/ RenewLook(u)
        PROVE  Answered(t, h, a)
    BY <2>3 DEF AfterDecline, Find, RenewLook
  <2>4. ASSUME NEW u \in Threads, Grants(u)
        PROVE  Answered(t, h, a) \/ (u = t /\ whose[t] = h /\ tip[t] = a)
    BY <2>4 DEF Grants, RenewWrite, NewTake
  <2>5. ASSUME NEW u \in Threads, TurnAway(u) \/ NewPick(u) \/ Ack(u) \/ NoAck(u)
        PROVE  Answered(t, h, a)
    BY <2>5 DEF TurnAway, NewPick, Ack, NoAck
  <2>6. CASE Restart
    BY <2>6 DEF Restart
  <2>7. CASE Tick
    <3>1. Less(fresh[t]) > 0 => fresh[t] > 0
      BY DEF Less
    <3>2. QED
      BY <2>7, <3>1 DEF Tick
  <2>8. CASE UNCHANGED threadVars
    BY <2>8 DEF threadVars
  <2>9. QED
    BY <2>1, <2>2, <2>3, <2>4, <2>5, <2>6, <2>7, <2>8
    DEF Next, vars, Packet, Job, Clean, Drop, PickSingle, PickRange, Pick, Over, Release,
        Reserve, CleanList, CleanAsk, CleanRelease, Reply, Grants
<1>3. QED
  BY <1>1, <1>2 DEF Holder

\* What is held is not available.
LEMMA HeldCovered ==
  ASSUME Base, LeaseInv, AnswerInv, NEW h \in Hosts, NEW a \in Addrs, Holder(h, a)
  PROVE  mac[a] \in {h, Invalid} /\ left[a] > 0
<1> USE DhcpAssumption, LeaseAssumption
    DEF Base, TypeOK, RowsOK, ThreadsOK, ClientsOK, LeaseInv, AnswerInv, Covers
<1>1. CASE lease[h] = a
  BY <1>1
<1>2. ASSUME NEW t \in Threads, Answered(t, h, a)
      PROVE  mac[a] \in {h, Invalid} /\ left[a] > 0
  BY <1>2 DEF Answered
<1>3. QED
  BY <1>1, <1>2 DEF Holder

LEMMA AvailableUnheld ==
  ASSUME Base, LeaseInv, AnswerInv, NEW a \in Addrs, Available(a)
  PROVE  Unheld(a)
BY HeldCovered, DhcpAssumption DEF Available, Unheld

\* Rows under a holder change by blacklisting, renewing and the passing of time
\* alone, and then still cover the lease.
LEMMA RowsCover ==
  ASSUME Base, RpcInv, TakeInv, [Next]_vars, ~Tick,
         NEW h \in Hosts, NEW a \in Addrs, Holder(h, a),
         NEW n \in 1 .. ClientLease, Covers(a, h, n)
  PROVE  Covers(a, h, n)'
<1> USE DhcpAssumption, LeaseAssumption DEF Base, TypeOK, RowsOK, ThreadsOK, Covers, rowVars, Served
<1>1. ASSUME NEW t \in Threads, DeclineBlacklist(t)
      PROVE  Covers(a, h, n)'
  BY <1>1 DEF DeclineBlacklist
<1>2. ASSUME NEW t \in Threads, RenewWrite(t)
      PROVE  Covers(a, h, n)'
  BY <1>2 DEF RenewWrite
<1>3. ASSUME NEW t \in Threads, NewTake(t)
      PROVE  Covers(a, h, n)'
  <2>1. tip[t] # a
    BY <1>3 DEF NewTake, TakeInv, Unheld
  <2>2. QED
    BY <1>3, <2>1 DEF NewTake
<1>4. ASSUME NEW b \in Addrs, Reserve(b)
      PROVE  Covers(a, h, n)'
  <2>1. a # b
    BY <1>4 DEF Reserve, RpcInv, Unheld
  <2>2. QED
    BY <1>4, <2>1 DEF Reserve
<1>5. CASE UNCHANGED <<mac, left>>
  BY <1>5
<1>6. QED
  BY <1>1, <1>2, <1>3, <1>4, <1>5
  DEF Next, vars, Packet, Job, Clean, Receive, ReceiveDecline, DeclineFind, AfterDecline,
      RenewLook, TurnAway, NewPick, Ack, NoAck, Drop, PickSingle, PickRange, Pick, Over,
      Release, CleanList, CleanAsk, CleanRelease, Reply, Restart

\* The addresses hosts use are covered by the table.
LEMMA LeaseStep ==
  ASSUME Base, LeaseInv, AnswerInv, RpcInv, TakeInv, [Next]_vars
  PROVE  LeaseInv'
<1> USE DhcpAssumption, LeaseAssumption
    DEF Base, TypeOK, RowsOK, ThreadsOK, ClientsOK
<1> SUFFICES ASSUME NEW h \in Hosts, lease'[h] # NoAddr
             PROVE  Covers(lease[h], h, remain[h])'
  BY DEF LeaseInv
<1>1. CASE Tick
  <2>1. /\ lease'[h] = lease[h] /\ lease[h] \in Addrs /\ lease[h] # NoAddr /\ remain[h] > 1
        /\ remain'[h] = remain[h] - 1
    BY <1>1 DEF Tick, Less
  <2>2. Covers(lease[h], h, remain[h])
    BY <2>1 DEF LeaseInv
  <2>3. mac'[lease[h]] = mac[lease[h]] /\ left'[lease[h]] = left[lease[h]] - 1
    BY <1>1, <2>1, <2>2 DEF Tick, Less, Covers
  <2>4. left[lease[h]] \in Int /\ remain[h] \in Int
    BY <2>1
  <2>5. QED
    BY <2>1, <2>2, <2>3, <2>4 DEF Covers
<1>2. ASSUME NEW t \in Threads, Ack(t), whose[t] = h
      PROVE  Covers(lease[h], h, remain[h])'
  <2>1. PICK n \in 1 .. fresh[t] : remain' = [remain EXCEPT ![h] = n]
    BY <1>2 DEF Ack
  <2>2. fresh[t] \in Int /\ fresh[t] > 0
    BY <2>1
  <2>3. tip[t] \in Addrs /\ Covers(tip[t], h, fresh[t])
    BY <1>2, <2>2 DEF Ack, AnswerInv, Served
  <2>4. lease'[h] = tip[t] /\ remain'[h] = n /\ mac' = mac /\ left' = left
    BY <1>2, <2>1 DEF Ack, rowVars
  <2>5. 0 < n /\ n <= fresh[t] /\ left[tip[t]] \in Int
    BY <2>2, <2>3
  <2>6. QED
    BY <2>2, <2>3, <2>4, <2>5 DEF Covers
<1>3. CASE ~Tick /\ lease'[h] = lease[h] /\ remain'[h] = remain[h]
  <2>1. lease[h] \in Addrs /\ Covers(lease[h], h, remain[h]) /\ Holder(h, lease[h])
    BY <1>3 DEF LeaseInv, Holder
  <2>2. remain[h] \in 1 .. ClientLease
    BY <2>1 DEF Covers
  <2>3. \A a \in Addrs, n \in 1 .. ClientLease : Holder(h, a) /\ Covers(a, h, n) => Covers(a, h, n)'
    BY <1>3, RowsCover
  <2>4. QED
    BY <1>3, <2>1, <2>2, <2>3 DEF Covers
<1>4. \/ \E t \in Threads : Ack(t) /\ whose[t] = h
      \/ lease'[h] = lease[h] /\ remain'[h] = remain[h]
      \/ Tick
  BY HostSteps DEF hostVars, ReceiveDecline, Ack, Drop, Served
<1>5. QED
  BY <1>1, <1>2, <1>3, <1>4

\* So are those in answers on their way.
LEMMA AnswerStep ==
  ASSUME Base, LeaseInv, AnswerInv, RenewInv, RpcInv, TakeInv, [Next]_vars
  PROVE  AnswerInv'
<1> USE DhcpAssumption, LeaseAssumption
    DEF Base, TypeOK, RowsOK, ThreadsOK, ClientsOK
<1> SUFFICES ASSUME NEW t \in Threads, pc'[t] = "answer", fresh'[t] > 0
             PROVE  Covers(tip[t], whose[t], fresh[t])'
  BY DEF AnswerInv
<1>1. CASE Tick
  <2>1. /\ pc[t] = "answer" /\ tip'[t] = tip[t] /\ whose'[t] = whose[t] /\ tip[t] \in Addrs
        /\ fresh[t] > 0 /\ fresh'[t] = fresh[t] - 1
    BY <1>1 DEF Tick, Less, Served
  <2>2. Covers(tip[t], whose[t], fresh[t])
    BY <2>1 DEF AnswerInv
  <2>3. mac'[tip[t]] = mac[tip[t]] /\ left'[tip[t]] = left[tip[t]] - 1
    BY <1>1, <2>1, <2>2 DEF Tick, Less, Covers
  <2>4. left[tip[t]] \in Int /\ fresh[t] \in Int
    BY <2>1
  <2>5. QED
    BY <2>1, <2>2, <2>3, <2>4 DEF Covers
<1>2. CASE RenewWrite(t)
  <2>1. /\ tip[t] \in Addrs /\ mac[tip[t]] \in {whose[t], Invalid}
        /\ tip' = tip /\ whose' = whose /\ fresh' = fresh /\ mac' = mac
        /\ left'[tip[t]] = TrueLease
    BY <1>2 DEF RenewWrite, RenewInv, Served
  <2>2. QED
    BY <2>1 DEF Covers
<1>3. CASE NewTake(t)
  <2>1. /\ tip[t] \in Addrs
        /\ tip' = tip /\ whose' = whose /\ fresh' = fresh /\ mac'[tip[t]] = whose[t]
        /\ left'[tip[t]] = TrueLease
    BY <1>3 DEF NewTake, Served
  <2>2. QED
    BY <2>1 DEF Covers
<1>4. CASE /\ ~Tick /\ pc[t] = "answer"
           /\ tip'[t] = tip[t] /\ whose'[t] = whose[t] /\ fresh'[t] = fresh[t]
  <2>1. tip[t] \in Addrs /\ whose[t] \in Hosts /\ Covers(tip[t], whose[t], fresh[t])
    BY <1>4 DEF Served, AnswerInv
  <2>2. Holder(whose[t], tip[t])
    BY <1>4 DEF Holder, Answered
  <2>3. fresh[t] \in 1 .. ClientLease
    BY <1>4
  <2>4. \A h \in Hosts, a \in Addrs, n \in 1 .. ClientLease :
          Holder(h, a) /\ Covers(a, h, n) => Covers(a, h, n)'
    BY <1>4, RowsCover
  <2>5. QED
    BY <1>4, <2>1, <2>2, <2>3, <2>4 DEF Covers
<1>5. \/ RenewWrite(t) \/ NewTake(t) \/ Tick
      \/ pc[t] = "answer" /\ tip'[t] = tip[t] /\ whose'[t] = whose[t] /\ fresh'[t] = fresh[t]
  <2> USE DEF Goto, At, Finish
  <2>1. ASSUME NEW u \in Threads, Packet(u), ~RenewWrite(t), ~NewTake(t)
        PROVE  pc[t] = "answer" /\ tip'[t] = tip[t] /\ whose'[t] = whose[t] /\ fresh'[t] = fresh[t]
    <3>1. ASSUME NEW h \in Hosts, Receive(u, h) \/ ReceiveDecline(u, h)
          PROVE  pc[t] = "answer" /\ tip'[t] = tip[t] /\ whose'[t] = whose[t] /\ fresh'[t] = fresh[t]
      BY <3>1 DEF Receive, Find, ReceiveDecline
    <3>2. CASE DeclineFind(u) \/ DeclineBlacklist(u)
      BY <3>2 DEF DeclineFind, DeclineBlacklist
    <3>3. CASE AfterDecline(u) \/ RenewLook(u) \/ RenewWrite(u) \/ NewTake(u)
      BY <3>3, <2>1 DEF AfterDecline, Find, RenewLook, RenewWrite, NewTake
    <3>4. CASE TurnAway(u) \/ NewPick(u) \/ Ack(u) \/ NoAck(u)
      BY <3>4 DEF TurnAway, NewPick, Ack, NoAck
    <3>5. QED
      BY <2>1, <3>1, <3>2, <3>3, <3>4 DEF Packet
  <2>2. CASE Restart
    BY <2>2 DEF Restart
  <2>3. CASE UNCHANGED threadVars
    BY <2>3 DEF threadVars
  <2>4. QED
    BY <2>1, <2>2, <2>3
    DEF Next, vars, Job, Clean, Drop, PickSingle, PickRange, Pick, Over, Release, Reserve,
        CleanList, CleanAsk, CleanRelease, Reply
<1>6. QED
  BY <1>1, <1>2, <1>3, <1>4, <1>5

\* No address gets a second holder.
LEMMA SoleStep ==
  ASSUME Base, Sole, RenewInv, TakeInv, [Next]_vars
  PROVE  Sole'
<1> USE DhcpAssumption DEF Base
<1> SUFFICES ASSUME NEW a \in Addrs, NEW g \in Hosts, NEW h \in Hosts, Holder(g, a)', Holder(h, a)'
             PROVE  g = h
  BY DEF Sole
<1>1. Holder(g, a) \/ \E t \in Threads : Grants(t) /\ whose[t] = g /\ tip[t] = a
  BY HolderFrom
<1>2. Holder(h, a) \/ \E t \in Threads : Grants(t) /\ whose[t] = h /\ tip[t] = a
  BY HolderFrom
<1>3. \A t \in Threads : Grants(t) => lock = t
  BY DEF Grants, RenewWrite, NewTake, Served, Locking
<1>4. \A t \in Threads, f \in Hosts : Grants(t) /\ Holder(f, tip[t]) => f = whose[t]
  BY DEF Grants, RenewWrite, NewTake, RenewInv, TakeInv, Unheld
<1>5. QED
  BY <1>1, <1>2, <1>3, <1>4 DEF Sole

-----------------------------------------------------------------------------
(***************************************************************************)
(* What is selected under the lock stays as it was selected, except that a *)
(* DECLINE may blacklist it.                                               *)
(***************************************************************************)
LEMMA LockedRows ==
  ASSUME Base, [Next]_vars, lock # NoOne, lock # Rpc
  PROVE  rsv' = rsv
BY DhcpAssumption
DEF Next, vars, rowVars, Packet, Job, Clean, Receive, Find, ReceiveDecline, DeclineFind,
    DeclineBlacklist, AfterDecline, RenewLook, RenewWrite, TurnAway, NewPick, NewTake, Ack,
    NoAck, Drop, PickSingle, PickRange, Pick, Over, Release, Reserve, CleanList, CleanAsk, CleanRelease,
    Reply, Restart, Tick

LEMMA LockedMac ==
  ASSUME Base, [Next]_vars, lock # NoOne, lock # Rpc, NEW a \in Addrs,
         ~\E t \in Threads : NewTake(t)
  PROVE  mac'[a] \in {mac[a], Invalid}
<1> USE DhcpAssumption DEF Base, TypeOK, RowsOK
<1>1. ASSUME NEW t \in Threads, DeclineBlacklist(t)
      PROVE  mac'[a] \in {mac[a], Invalid}
  BY <1>1 DEF DeclineBlacklist
<1>2. CASE mac' = mac
  BY <1>2
<1>3. QED
  BY <1>1, <1>2
  DEF Next, vars, rowVars, Packet, Job, Clean, Receive, ReceiveDecline, DeclineFind,
      AfterDecline, RenewLook, RenewWrite, TurnAway, NewPick, Ack, NoAck, Drop, PickSingle,
      PickRange, Pick, Over, Release, Reserve, CleanList, CleanAsk, CleanRelease, Reply, Restart, Tick

\* How a thread comes to be about to renew, or to take a new row.
LEMMA Selecting ==
  ASSUME Base, [Next]_vars, NEW t \in Threads
  PROVE  /\ pc'[t] = "renew" => RenewLook(t) \/ (pc[t] = "renew" /\ whose'[t] = whose[t])
         /\ pc'[t] = "take" => NewPick(t) \/ pc[t] = "take"
         /\ pc'[t] \in {"renew", "take"} /\ ~NewPick(t) => tip'[t] = tip[t]
<1> DEFINE Sel == /\ pc'[t] = "renew" => RenewLook(t) \/ (pc[t] = "renew" /\ whose'[t] = whose[t])
                  /\ pc'[t] = "take" => NewPick(t) \/ pc[t] = "take"
                  /\ pc'[t] \in {"renew", "take"} /\ ~NewPick(t) => tip'[t] = tip[t]
<1> USE DhcpAssumption DEF Base, TypeOK, ThreadsOK, Goto, At, Finish
<1>1. ASSUME NEW u \in Threads, NEW h \in Hosts, Receive(u, h) \/ ReceiveDecline(u, h)
      PROVE  Sel
  BY <1>1 DEF Receive, Find, ReceiveDecline
<1>2. ASSUME NEW u \in Threads, DeclineFind(u) \/ DeclineBlacklist(u) \/ AfterDecline(u)
      PROVE  Sel
  BY <1>2 DEF DeclineFind, DeclineBlacklist, AfterDecline, Find
<1>3. ASSUME NEW u \in Threads, RenewLook(u)
      PROVE  Sel
  BY <1>3 DEF RenewLook
<1>4. ASSUME NEW u \in Threads, RenewWrite(u) \/ TurnAway(u) \/ NewTake(u) \/ Ack(u) \/ NoAck(u)
      PROVE  Sel
  BY <1>4 DEF RenewWrite, TurnAway, NewTake, Ack, NoAck
<1>5. ASSUME NEW u \in Threads, NewPick(u)
      PROVE  Sel
  BY <1>5 DEF NewPick
<1>6. CASE Restart
  BY <1>6 DEF Restart
<1>7. CASE UNCHANGED <<pc, whose, tip>>
  BY <1>7
<1>8. QED
  BY <1>1, <1>2, <1>3, <1>4, <1>5, <1>6, <1>7
  DEF Next, vars, threadVars, Packet, Job, Clean, Drop, PickSingle, PickRange, Pick, Over,
      Release, Reserve, CleanList, CleanAsk, CleanRelease, Reply, Tick

LEMMA RenewStep ==
  ASSUME Base, LeaseInv, AnswerInv, RenewInv, ReservedInv, [Next]_vars
  PROVE  RenewInv'
<1> USE DhcpAssumption DEF Base
<1>0. Base'
  BY BaseStep
<1> SUFFICES ASSUME NEW t \in Threads, pc'[t] = "renew",
                    NEW a \in Addrs, a = tip'[t], NEW g \in Hosts, g = whose'[t]
             PROVE  /\ mac'[a] \in {g, Invalid}
                    /\ \A h \in Hosts : Holder(h, a)' => h = g
                    /\ rsv'[a] # NoJob => g = MacOf[rsv'[a]]
  BY <1>0 DEF RenewInv, Served
<1>1. CASE RenewLook(t)
  <2>1. a = tip[t] /\ g = whose[t] /\ mac[a] = g /\ mac' = mac /\ rsv' = rsv
    BY <1>1 DEF RenewLook, Goto, TypeOK, ThreadsOK, rowVars
  <2>2. \A u \in Threads : ~Grants(u)
    BY <1>1 DEF Grants, RenewWrite, NewTake, RenewLook, Served, Locking
  <2>3. \A h \in Hosts : Holder(h, a)' => Holder(h, a)
    BY <2>2, HolderFrom
  <2>4. \A h \in Hosts : Holder(h, a) => h = g
    BY <2>1, HeldCovered
  <2>5. rsv[a] # NoJob => g = MacOf[rsv[a]]
    BY <2>1 DEF ReservedInv, TypeOK, RowsOK
  <2>6. QED
    BY <2>1, <2>3, <2>4, <2>5
<1>2. CASE pc[t] = "renew" /\ whose'[t] = whose[t] /\ ~RenewLook(t)
  <2>1. tip'[t] = tip[t] /\ lock = t
    BY <1>2, Selecting DEF Served, Locking, NewPick
  <2>2. \A u \in Threads : Grants(u) => u = t /\ pc'[t] = "answer"
    BY <2>1 DEF Grants, RenewWrite, NewTake, Goto, Served, Locking, TypeOK, ThreadsOK
  <2>3. \A h \in Hosts : Holder(h, a)' => Holder(h, a)
    BY <2>2, HolderFrom
  <2>4. mac'[a] \in {mac[a], Invalid} /\ rsv' = rsv
    BY <2>1, <2>2, LockedMac, LockedRows DEF Grants
  <2>5. a = tip[t] /\ g = whose[t]
    BY <1>2, <2>1
  <2>6. mac[a] \in {g, Invalid} /\ (\A h \in Hosts : Holder(h, a) => h = g)
        /\ (rsv[a] # NoJob => g = MacOf[rsv[a]])
    BY <1>2, <2>5 DEF RenewInv
  <2>7. QED
    BY <2>3, <2>4, <2>6
<1>3. QED
  BY <1>1, <1>2, Selecting

LEMMA TakeStep ==
  ASSUME Base, LeaseInv, AnswerInv, TakeInv, [Next]_vars
  PROVE  TakeInv'
<1> USE DhcpAssumption DEF Base
<1>0. Base'
  BY BaseStep
<1> SUFFICES ASSUME NEW t \in Threads, pc'[t] = "take",
                    NEW a \in Addrs, a = tip'[t]
             PROVE  rsv'[a] = NoJob /\ Unheld(a)'
  BY <1>0 DEF TakeInv, Served
<1>1. CASE NewPick(t)
  <2>1. Available(a) /\ rsv' = rsv
    BY <1>1 DEF NewPick, Goto, At, Finish, Lowest, TypeOK, ThreadsOK, rowVars
  <2>2. \A u \in Threads : ~Grants(u)
    BY <1>1 DEF Grants, RenewWrite, NewTake, NewPick, Served, Locking
  <2>3. \A h \in Hosts : Holder(h, a)' => Holder(h, a)
    BY <2>2, HolderFrom
  <2>4. QED
    BY <2>1, <2>3, AvailableUnheld DEF Available, Unheld
<1>2. CASE pc[t] = "take" /\ ~NewPick(t)
  <2>1. tip'[t] = tip[t] /\ lock = t
    BY <1>2, Selecting DEF Served, Locking
  <2>2. \A u \in Threads : Grants(u) => u = t /\ pc'[t] = "answer"
    BY <2>1 DEF Grants, RenewWrite, NewTake, Goto, Served, Locking, TypeOK, ThreadsOK
  <2>3. \A h \in Hosts : Holder(h, a)' => Holder(h, a)
    BY <2>2, HolderFrom
  <2>4. rsv' = rsv
    BY <2>1, LockedRows
  <2>5. QED
    BY <1>2, <2>1, <2>3, <2>4 DEF TakeInv, Unheld
<1>3. QED
  BY <1>1, <1>2, Selecting

-----------------------------------------------------------------------------
(***************************************************************************)
(* Reservations.                                                           *)
(***************************************************************************)
LEMMA RpcStep ==
  ASSUME Base, LeaseInv, AnswerInv, RpcInv, [Next]_vars
  PROVE  RpcInv'
<1> USE DhcpAssumption DEF Base, RpcServed
<1>1. ASSUME NEW j \in Jobs, NEW m, NEW S, Pick(j, m, S),
             \A a \in S : a \in Addrs /\ Available(a)
      PROVE  RpcInv'
  <2>1. /\ lock = NoOne /\ picked' = S /\ rsv' = rsv /\ taken' = {}
        /\ UNCHANGED threadVars /\ UNCHANGED lease
    BY <1>1 DEF Pick, rowVars, hostVars
  <2>2. \A t \in Threads : ~Grants(t)
    BY <2>1 DEF Grants, RenewWrite, NewTake, Served, Locking
  <2>3. ASSUME NEW a \in S
        PROVE  rsv[a] = NoJob /\ Unheld(a)'
    <3>1. a \in Addrs /\ Unheld(a) /\ rsv[a] = NoJob
      BY <1>1, <2>3, AvailableUnheld DEF Available
    <3>2. \A h \in Hosts : Holder(h, a)' => Holder(h, a)
      BY <3>1, <2>2, HolderFrom
    <3>3. QED
      BY <3>1, <3>2 DEF Unheld
  <2>4. QED
    BY <2>1, <2>3 DEF RpcInv
<1>2. ASSUME NEW j \in Jobs, PickSingle(j)
      PROVE  RpcInv'
  <2>1. PICK a \in Lowest(FreeRuns(1)), m \in {NoMac, MacOf[j]} : Pick(j, m, {a})
    BY <1>2 DEF PickSingle
  <2>2. a \in Addrs /\ RunOf(a, 1) \subseteq {b \in Addrs : Available(b)}
    BY DEF Lowest, FreeRuns
  <2>3. a \in RunOf(a, 1)
    BY <2>2 DEF RunOf, Addrs
  <2>4. QED
    BY <1>1, <2>1, <2>2, <2>3
<1>3. ASSUME NEW j \in Jobs, PickRange(j)
      PROVE  RpcInv'
  <2>1. PICK n \in 1 .. NumAddrs : \E a \in Lowest(FreeRuns(n)) : Pick(j, NoMac, RunOf(a, n))
    BY <1>3 DEF PickRange
  <2>2. PICK a \in Lowest(FreeRuns(n)) : Pick(j, NoMac, RunOf(a, n))
    BY <2>1
  <2>3. RunOf(a, n) \subseteq {b \in Addrs : Available(b)}
    BY DEF Lowest, FreeRuns
  <2>4. QED
    BY <1>1, <2>2, <2>3
<1>4. ASSUME NEW b \in Addrs, Reserve(b)
      PROVE  RpcInv'
  <2>1. \A t \in Threads : ~Grants(t)
    BY <1>4 DEF Reserve, Grants, RenewWrite, NewTake, Served, Locking
  <2>2. ASSUME NEW a \in picked'
        PROVE  rsv'[a] = NoJob /\ Unheld(a)'
    <3>1. a \in Addrs /\ a # b /\ Unheld(a) /\ rsv[a] = NoJob
      BY <1>4, <2>2 DEF Reserve, RpcInv, TypeOK, ServerOK
    <3>2. \A h \in Hosts : Holder(h, a)' => Holder(h, a)
      BY <3>1, <2>1, HolderFrom
    <3>3. QED
      BY <1>4, <3>1, <3>2 DEF Unheld, Reserve, TypeOK, RowsOK
  <2>3. \A a \in taken' : rsv'[a] = rpcJob'
    BY <1>4 DEF Reserve, RpcInv, TypeOK, ServerOK, RowsOK
  <2>4. QED
    BY <2>2, <2>3 DEF RpcInv
<1>5. CASE picked' = {} /\ taken' = {}
  BY <1>5 DEF RpcInv
<1>6. CASE /\ lock = Rpc /\ picked' = picked /\ taken' = taken /\ rpcJob' = rpcJob
           /\ rsv' = rsv
  <2>1. \A t \in Threads : ~Grants(t)
    BY <1>6 DEF Grants, RenewWrite, NewTake, Served, Locking
  <2>2. ASSUME NEW a \in picked
        PROVE  rsv[a] = NoJob /\ Unheld(a)'
    <3>1. a \in Addrs /\ Unheld(a) /\ rsv[a] = NoJob
      BY <2>2 DEF RpcInv, TypeOK, ServerOK
    <3>2. \A h \in Hosts : Holder(h, a)' => Holder(h, a)
      BY <3>1, <2>1, HolderFrom
    <3>3. QED
      BY <3>1, <3>2 DEF Unheld
  <2>3. QED
    BY <1>6, <2>2 DEF RpcInv
<1>7. CASE UNCHANGED <<picked, taken, rpcJob>> /\ lock # Rpc
  BY <1>5, <1>7
<1>8. QED
  BY <1>2, <1>3, <1>4, <1>5, <1>6, <1>7
  DEF Next, vars, rowVars, rpcVars, Packet, Job, Clean, Receive, Find, ReceiveDecline, DeclineFind,
      DeclineBlacklist, AfterDecline, RenewLook, RenewWrite, TurnAway, NewPick, NewTake, Ack,
      NoAck, Drop, Over, Release, CleanList, CleanAsk, CleanRelease, Reply, Restart, Tick

\* What a call chooses and writes are adjacent addresses, from the first to the
\* last.
LEMMA RunStep ==
  ASSUME Base, RunInv, [Next]_vars
  PROVE  RunInv'
<1> USE DhcpAssumption DEF Base, RpcServed
<1>1. ASSUME NEW j \in Jobs, NEW m, NEW a \in Addrs, NEW n \in Nat, Pick(j, m, RunOf(a, n))
      PROVE  RunInv'
  <2>1. picked' \cup taken' = RunOf(a, n)
    BY <1>1 DEF Pick
  <2>2. \A b, c \in RunOf(a, n) : b .. c \subseteq RunOf(a, n)
    BY DEF RunOf, Addrs
  <2>3. QED
    BY <2>1, <2>2 DEF RunInv
<1>2. ASSUME NEW j \in Jobs, PickSingle(j)
      PROVE  RunInv'
  <2>1. PICK a \in Lowest(FreeRuns(1)), m \in {NoMac, MacOf[j]} : Pick(j, m, {a})
    BY <1>2 DEF PickSingle
  <2>2. a \in Addrs /\ {a} = RunOf(a, 1)
    BY DEF Lowest, FreeRuns, RunOf, Addrs
  <2>3. Pick(j, m, RunOf(a, 1))
    BY <2>1, <2>2
  <2>4. QED
    BY <1>1, <2>2, <2>3
<1>3. ASSUME NEW j \in Jobs, PickRange(j)
      PROVE  RunInv'
  <2>1. PICK n \in 1 .. NumAddrs : \E a \in Lowest(FreeRuns(n)) : Pick(j, NoMac, RunOf(a, n))
    BY <1>3 DEF PickRange
  <2>2. PICK a \in Lowest(FreeRuns(n)) : Pick(j, NoMac, RunOf(a, n))
    BY <2>1
  <2>3. a \in Addrs /\ n \in Nat
    BY DEF Lowest, FreeRuns
  <2>4. QED
    BY <1>1, <2>2, <2>3
<1>4. ASSUME NEW b \in Addrs, Reserve(b)
      PROVE  RunInv'
  <2>1. picked' \cup taken' = picked \cup taken
    BY <1>4 DEF Reserve
  <2>2. QED
    BY <2>1 DEF RunInv
<1>5. CASE picked' = {} /\ taken' = {}
  BY <1>5 DEF RunInv
<1>6. CASE UNCHANGED <<picked, taken>>
  BY <1>6 DEF RunInv
<1>7. QED
  BY <1>2, <1>3, <1>4, <1>5, <1>6
  DEF Next, vars, rpcVars, Packet, Job, Clean, Receive, ReceiveDecline, DeclineFind,
      DeclineBlacklist, AfterDecline, RenewLook, RenewWrite, TurnAway, NewPick, NewTake, Ack,
      NoAck, Drop, Over, Release, CleanList, CleanAsk, CleanRelease, Reply, Restart, Tick

LEMMA ReservedStep ==
  ASSUME Base, RenewInv, TakeInv, RpcInv, ReservedInv, [Next]_vars
  PROVE  ReservedInv'
<1> USE DhcpAssumption DEF Base, TypeOK, RowsOK
<1> SUFFICES ASSUME NEW a \in Addrs, rsv'[a] # NoJob
             PROVE  /\ mac'[a] \in {NoMac, Invalid, MacOf[rsv'[a]]}
                    /\ \A h \in Hosts : Holder(h, a)' => h = MacOf[rsv'[a]]
  BY DEF ReservedInv
<1>1. CASE Reserve(a)
  <2>1. rsv'[a] = rpcJob /\ mac'[a] = rpcMac /\ rpcMac \in {NoMac, MacOf[rpcJob]} /\ Unheld(a)
    BY <1>1 DEF Reserve, RpcServed, RpcInv
  <2>2. \A t \in Threads : ~Grants(t)
    BY <1>1 DEF Reserve, Grants, RenewWrite, NewTake, Served, Locking
  <2>3. \A h \in Hosts : ~Holder(h, a)'
    BY <2>1, <2>2, HolderFrom DEF Unheld
  <2>4. QED
    BY <2>1, <2>3
<1>2. CASE rsv'[a] = rsv[a] /\ mac'[a] \in {mac[a], Invalid}
  <2>1. \A t \in Threads : Grants(t) /\ tip[t] = a => whose[t] = MacOf[rsv[a]]
    BY <1>2 DEF Grants, RenewWrite, NewTake, RenewInv, TakeInv
  <2>2. \A h \in Hosts : Holder(h, a)' => Holder(h, a) \/ h = MacOf[rsv[a]]
    BY <2>1, HolderFrom
  <2>3. QED
    BY <1>2, <2>2 DEF ReservedInv
<1>3. ASSUME NEW t \in Threads, NewTake(t)
      PROVE  rsv'[a] = rsv[a] /\ mac'[a] = mac[a]
  BY <1>3 DEF NewTake, TakeInv
<1>4. ASSUME NEW b \in Addrs, ClearReservation(b), mac' = mac
      PROVE  rsv'[a] = rsv[a] /\ mac'[a] = mac[a]
  BY <1>4 DEF ClearReservation
<1>5. ASSUME NEW b \in Addrs, b # a, Reserve(b)
      PROVE  rsv'[a] = rsv[a] /\ mac'[a] = mac[a]
  BY <1>5 DEF Reserve
<1>6. ASSUME NEW t \in Threads, DeclineBlacklist(t)
      PROVE  rsv'[a] = rsv[a] /\ mac'[a] \in {mac[a], Invalid}
  BY <1>6 DEF DeclineBlacklist
<1>7. QED
  BY <1>1, <1>2, <1>3, <1>4, <1>5, <1>6
  DEF Next, vars, rowVars, Packet, Job, Clean, Receive, ReceiveDecline, DeclineFind,
      AfterDecline, RenewLook, RenewWrite, TurnAway, NewPick, Ack, NoAck, Drop,
      PickSingle, PickRange, Pick, Over, Release, CleanList, CleanAsk, CleanRelease, Reply, Restart, Tick

\* What a job has and no cleaner has swept stays reserved for it: what is released
\* for the job it was listed for belongs to one that is over, and has nothing.
LEMMA HasStep ==
  ASSUME Base, RpcInv, HasInv, CleanInv, [Next]_vars
  PROVE  HasInv'
<1> USE DhcpAssumption DEF Base, TypeOK, RowsOK, ServerOK, ClientsOK, CleanersOK
<1> SUFFICES ASSUME NEW j \in Jobs, NEW a \in has'[j]
             PROVE  j \notin over' /\ (a \notin swept' => rsv'[a] = j)
  BY DEF HasInv
<1> DEFINE Kept == j \notin over' /\ (a \notin swept' => rsv'[a] = j)
<1>1. CASE Reply
  <2>1. a \in has[j] \/ (j = rpcJob /\ a \in taken /\ j \notin over)
    BY <1>1 DEF Reply, RpcServed
  <2>2. rsv' = rsv /\ over' = over /\ swept' = swept
    BY <1>1 DEF Reply, rowVars, cleanVars
  <2>3. QED
    BY <2>1, <2>2 DEF HasInv, RpcInv
<1>2. ASSUME NEW b \in Addrs, Reserve(b)
      PROVE  Kept
  <2>1. a \in has[j] /\ over' = over /\ swept' = swept /\ rsv[b] = NoJob
    BY <1>2 DEF Reserve, jobVars, cleanVars, RpcInv
  <2>2. QED
    BY <1>2, <2>1 DEF Reserve, HasInv
<1>3. ASSUME NEW i \in Jobs, NEW b \in Addrs, Release(i, b)
      PROVE  Kept
  <2>1. a \in has[j] /\ over' = over /\ (i = j => a # b)
    BY <1>3 DEF Release
  <2>2. a \notin swept' => a \notin swept
    BY <1>3 DEF Release, InUse
  <2>3. j \notin over /\ (a \notin swept => rsv[a] = j) /\ (b \notin swept => rsv[b] = i)
    BY <1>3, <2>1 DEF Release, HasInv
  <2>4. QED
    BY <1>3, <2>1, <2>2, <2>3 DEF Release, ClearReservation
<1>4. ASSUME NEW c \in Cleaners, NEW b \in Addrs, CleanRelease(c, b)
      PROVE  Kept
  <2>1. has' = has /\ over' = over /\ listed[c][b] \in over
    BY <1>4 DEF CleanRelease, jobVars, CleanInv
  <2>2. a \notin swept' => a \notin swept /\ (a = b => rsv[b] = listed[c][b])
    BY <1>4 DEF CleanRelease, InUse
  <2>3. j \notin over /\ (a \notin swept => rsv[a] = j)
    BY <2>1 DEF HasInv
  <2>4. QED
    BY <1>4, <2>1, <2>2, <2>3 DEF CleanRelease, ClearReservation
<1>5. ASSUME NEW i \in Jobs, Over(i)
      PROVE  Kept
  <2>1. a \in has[j] /\ i # j /\ rsv' = rsv /\ over' = over \cup {i}
    BY <1>5 DEF Over, rowVars
  <2>2. a \notin swept' => a \notin swept
    BY <1>5 DEF Over, InUse
  <2>3. QED
    BY <2>1, <2>2 DEF HasInv
<1>6. CASE UNCHANGED <<rsv, jobVars, swept>>
  BY <1>6 DEF HasInv, jobVars
<1>7. QED
  BY <1>1, <1>2, <1>3, <1>4, <1>5, <1>6
  DEF Next, vars, rowVars, cleanVars, Packet, Job, Clean, Receive, ReceiveDecline, DeclineFind,
      DeclineBlacklist, AfterDecline, RenewLook, RenewWrite, TurnAway, NewPick, NewTake, Ack,
      NoAck, Drop, PickSingle, PickRange, Pick, CleanList, CleanAsk, Restart, Tick

\* What is swept has a user.
LEMMA SweptStep ==
  ASSUME Base, SweptInv, [Next]_vars
  PROVE  SweptInv'
<1> USE DEF Base, TypeOK, ClientsOK
<1>1. CASE Reply
  <2>1. swept' = swept /\ \A j \in Jobs : has[j] \subseteq has'[j]
    BY <1>1 DEF Reply, cleanVars
  <2>2. QED
    BY <2>1 DEF SweptInv
<1>2. ASSUME NEW S, swept' = InUse(S)
      PROVE  SweptInv'
  BY <1>2 DEF InUse, SweptInv
<1>3. CASE UNCHANGED <<has, swept>>
  BY <1>3 DEF SweptInv
<1>4. QED
  BY <1>1, <1>2, <1>3
  DEF Next, vars, jobVars, cleanVars, Packet, Job, Clean, Receive, ReceiveDecline, DeclineFind,
      DeclineBlacklist, AfterDecline, RenewLook, RenewWrite, TurnAway, NewPick, NewTake, Ack,
      NoAck, Drop, PickSingle, PickRange, Pick, Over, Release, Reserve, CleanList, CleanAsk,
      CleanRelease, Restart, Tick

\* What a cleaner will release was listed for a job that is over.
LEMMA CleanStep ==
  ASSUME Base, CleanInv, [Next]_vars
  PROVE  CleanInv'
<1> USE DhcpAssumption DEF Base, TypeOK, ClientsOK, CleanersOK
<1> SUFFICES ASSUME NEW c \in Cleaners, NEW a \in toClean'[c]
             PROVE  listed'[c][a] \in over'
  BY DEF CleanInv
<1>1. ASSUME NEW d \in Cleaners, CleanList(d)
      PROVE  listed'[c][a] \in over'
  <2>1. a \in toClean[c] /\ over' = over /\ listed[c][a] \in over
    BY <1>1 DEF CleanList, CleanInv, jobVars
  <2>2. a \in Addrs /\ listed[c][a] # NoJob
    BY <2>1
  <2>3. d # c
    BY <1>1, <2>2 DEF CleanList, Nobody
  <2>4. QED
    BY <1>1, <2>1, <2>3 DEF CleanList
<1>2. ASSUME NEW d \in Cleaners, CleanAsk(d)
      PROVE  listed'[c][a] \in over'
  <2>1. PICK S \in SUBSET {b \in Addrs : listed[d][b] \in over} :
          /\ toClean' = [toClean EXCEPT ![d] = S]
          /\ listed' = [listed EXCEPT ![d] = [b \in Addrs |-> IF b \in S THEN listed[d][b] ELSE NoJob]]
    BY <1>2 DEF CleanAsk
  <2>2. over' = over
    BY <1>2 DEF CleanAsk, jobVars
  <2>3. QED
    BY <2>1, <2>2 DEF CleanInv
<1>3. ASSUME NEW d \in Cleaners, NEW b \in Addrs, CleanRelease(d, b)
      PROVE  listed'[c][a] \in over'
  <2>1. a \in toClean[c] /\ (d = c => a # b) /\ over' = over
    BY <1>3 DEF CleanRelease, jobVars
  <2>2. listed'[c][a] = listed[c][a]
    BY <1>3, <2>1 DEF CleanRelease
  <2>3. QED
    BY <2>1, <2>2 DEF CleanInv
<1>4. ASSUME NEW j \in Jobs, Over(j)
      PROVE  listed'[c][a] \in over'
  BY <1>4 DEF Over, CleanInv
<1>5. CASE UNCHANGED <<over, listed, toClean>>
  BY <1>5 DEF CleanInv
<1>6. QED
  BY <1>1, <1>2, <1>3, <1>4, <1>5
  DEF Next, vars, jobVars, cleanVars, Packet, Job, Clean, Receive, ReceiveDecline, DeclineFind,
      DeclineBlacklist, AfterDecline, RenewLook, RenewWrite, TurnAway, NewPick, NewTake, Ack,
      NoAck, Drop, PickSingle, PickRange, Pick, Release, Reserve, Reply, Restart, Tick

\* Only reservations for a MAC leave a MAC without an expiry.
LEMMA LostStep ==
  ASSUME Base, LostInv, [Next]_vars
  PROVE  LostInv'
<1> USE DhcpAssumption, LeaseAssumption DEF Base, TypeOK, RowsOK, ThreadsOK, NoExpiry
<1> SUFFICES ASSUME NEW a \in Addrs, mac'[a] # NoMac, left'[a] = NoExpiry
             PROVE  \E j \in Jobs : mac'[a] = MacOf[j]
  BY DEF LostInv
<1>1. ASSUME NEW b \in Addrs, Reserve(b)
      PROVE  \E j \in Jobs : mac'[a] = MacOf[j]
  BY <1>1 DEF Reserve, RpcServed, LostInv
<1>2. CASE Tick
  <2>1. mac'[a] = mac[a] /\ left[a] = NoExpiry
    BY <1>2 DEF Tick, Less
  <2>2. QED
    BY <2>1 DEF LostInv
<1>3. ASSUME NEW t \in Threads, DeclineBlacklist(t) \/ RenewWrite(t) \/ NewTake(t)
      PROVE  mac'[a] = mac[a] /\ left'[a] = left[a]
  BY <1>3 DEF DeclineBlacklist, RenewWrite, NewTake, Served
<1>4. CASE mac'[a] = mac[a] /\ left'[a] = left[a]
  BY <1>4 DEF LostInv
<1>5. QED
  BY <1>1, <1>2, <1>3, <1>4
  DEF Next, vars, rowVars, Packet, Job, Clean, Receive, ReceiveDecline, DeclineFind,
      AfterDecline, RenewLook, TurnAway, NewPick, Ack, NoAck, Drop, PickSingle, PickRange,
      Pick, Over, Release, CleanList, CleanAsk, CleanRelease, Reply, Restart

-----------------------------------------------------------------------------
(***************************************************************************)
(* The invariant.                                                          *)
(***************************************************************************)
LEMMA SafeInit == Init => SafeInv
<1> SUFFICES ASSUME Init PROVE SafeInv
  OBVIOUS
<1> USE DhcpAssumption DEF Init
<1>1. \A h \in Hosts, a \in Addrs : ~Holder(h, a)
  BY DEF Holder, Answered
<1>2. HostInv
  BY <1>1 DEF HostInv, LeaseInv, AnswerInv, Sole
<1>3. Base
  BY BaseInit
<1>4. QED
  BY <1>2, <1>3
  DEF SafeInv, RenewInv, TakeInv, RpcInv, RunInv, ReservedInv, LostInv

LEMMA SafeStep ==
  ASSUME SafeInv, [Next]_vars
  PROVE  SafeInv'
BY BaseStep, LeaseStep, AnswerStep, SoleStep, RenewStep, TakeStep, RpcStep, RunStep,
   ReservedStep, LostStep
DEF SafeInv, HostInv

\* However many cleaners there are.
LEMMA Safety == Spec => []SafeInv
<1>1. SafeInv /\ [Next]_vars => SafeInv'
  BY SafeStep
<1>2. QED
  BY SafeInit, <1>1, PTL DEF Spec

LEMMA Invariance == Spec => []IInv
<1>1. Init => IInv
  <2>1. Init => HasInv /\ SweptInv /\ CleanInv
    BY DEF Init, HasInv, SweptInv, CleanInv
  <2>2. QED
    BY <2>1, SafeInit DEF IInv
<1>2. IInv /\ [Next]_vars => IInv'
  BY SafeStep, HasStep, SweptStep, CleanStep DEF IInv, SafeInv
<1>3. QED
  BY <1>1, <1>2, PTL DEF Spec

(***************************************************************************)
(* Hosts never share an address, and none leases what is reserved for      *)
(* another: this much holds whatever the cleaners do to each other, as the *)
(* release of a row leaves its MAC and its expiry.                         *)
(***************************************************************************)
THEOREM LeasesSafe == Spec => [](HostsApart /\ ReservationsKept)
<1>1. SafeInv => HostsApart /\ ReservationsKept
  <2>1. \A a \in Addrs, h \in Hosts : lease[h] = a => Holder(h, a)
    BY DEF Holder
  <2>2. QED
    BY <2>1 DEF SafeInv, HostInv, Sole, ReservedInv, HostsApart, ReservationsKept
<1>2. QED
  BY Safety, <1>1, PTL

(***************************************************************************)
(* No two users of an address, however long packets and answers take,      *)
(* wherever a DECLINE comes between the statements of another thread and   *)
(* however many cleaners there are, unless a cleaner has released it for   *)
(* another job than it had listed, which it had found to be over.          *)
(***************************************************************************)
THEOREM AddressesApart == Spec => []NoAddressShared
<1>1. IInv => NoAddressShared
  <2> SUFFICES ASSUME IInv
               PROVE  /\ HostsApart /\ JobsApart
                      /\ \A j \in Jobs, h \in Hosts : lease[h] \in has[j] \ swept => h = MacOf[j]
    BY DEF NoAddressShared
  <2> USE DhcpAssumption DEF IInv, SafeInv, HostInv
  <2>1. \A a \in Addrs, h \in Hosts : lease[h] = a => Holder(h, a)
    BY DEF Holder
  <2>2. \A j \in Jobs : \A a \in has[j] \ swept : rsv[a] = j /\ rsv[a] # NoJob
    BY DEF HasInv
  <2>3. \A j \in Jobs : has[j] \subseteq Addrs
    BY DEF Base, TypeOK, ClientsOK
  <2>4. HostsApart
    BY <2>1 DEF Sole, HostsApart
  <2>5. JobsApart
    BY <2>2 DEF JobsApart
  <2>6. \A j \in Jobs, h \in Hosts : lease[h] \in has[j] \ swept => h = MacOf[j]
    BY <2>1, <2>2, <2>3 DEF ReservedInv
  <2>7. QED
    BY <2>4, <2>5, <2>6
<1>2. QED
  BY Invariance, <1>1, PTL

(***************************************************************************)
(* What a job has stays reserved for it, beside any number of cleaners,    *)
(* with the same exception: a cleaner takes it only by a listing that      *)
(* names another job, one that is over when it asks.                       *)
(***************************************************************************)
THEOREM HeldReserved == Spec => []HeldIsReserved
<1>1. IInv => HeldIsReserved
  BY DEF IInv, HasInv, HeldIsReserved
<1>2. QED
  BY Invariance, <1>1, PTL

(***************************************************************************)
(* Every address that is nobody's comes back, but those reserved for a MAC *)
(* that never asked for them: with any number of cleaners.                 *)
(***************************************************************************)
THEOREM NothingLost == Spec => []NoAddressLost
<1>1. SafeInv => NoAddressLost
  BY DEF SafeInv, Base, TypeOK, RowsOK, LostInv, NoAddressLost, Available, Stranded, NoExpiry
<1>2. QED
  BY Safety, <1>1, PTL

-----------------------------------------------------------------------------
(***************************************************************************)
(* The allocator implements AddressPool: each step of it is a step of the  *)
(* pool, or changes nothing the users see.                                 *)
(***************************************************************************)
LEMMA PoolGive ==
  ASSUME IInv, NEW t \in Threads, Ack(t)
  PROVE  Pool!Next
<1> USE DhcpAssumption DEF IInv, SafeInv, HostInv, Base, TypeOK, ThreadsOK
<1>1. whose[t] \in Hosts /\ tip[t] \in Addrs /\ fresh[t] > 0
  BY DEF Ack, Served
<1>2. Holder(whose[t], tip[t])
  BY <1>1 DEF Ack, Holder, Answered
<1>3. \A g \in Hosts : lease[g] = tip[t] => g = whose[t]
  BY <1>1, <1>2 DEF Sole, Holder
<1>4. ASSUME tip[t] \notin swept, NEW j \in Jobs, tip[t] \in has[j]
      PROVE  whose[t] = MacOf[j]
  <2>1. rsv[tip[t]] = j
    BY <1>4 DEF HasInv
  <2>2. QED
    BY <1>1, <1>2, <2>1 DEF ReservedInv
<1>5. lease' = [lease EXCEPT ![whose[t]] = tip[t]] /\ UNCHANGED <<has, over, swept>>
  BY DEF Ack, jobVars, cleanVars
<1>6. Pool!Give(whose[t], tip[t])
  BY <1>3, <1>4, <1>5 DEF Pool!Give
<1>7. QED
  BY <1>1, <1>6 DEF Pool!Next

LEMMA PoolAllot ==
  ASSUME IInv, Reply
  PROVE  Pool!Next \/ UNCHANGED Pool!vars
<1> USE DhcpAssumption DEF IInv, SafeInv, HostInv, Base, TypeOK, ServerOK, ClientsOK
<1>1. rpcJob \in Jobs /\ taken \subseteq Addrs /\ UNCHANGED <<lease, over, swept>>
  BY DEF Reply, RpcServed, hostVars, cleanVars
<1>2. CASE rpcJob \in over
  <2>1. has' = [has EXCEPT ![rpcJob] = has[rpcJob]]
    BY <1>2 DEF Reply
  <2>2. QED
    BY <1>1, <2>1 DEF Pool!vars
<1>3. CASE rpcJob \notin over
  <2>1. has' = [has EXCEPT ![rpcJob] = has[rpcJob] \cup taken]
    BY <1>3 DEF Reply
  <2>2. \A a \in taken : rsv[a] = rpcJob
    BY DEF RpcInv
  <2>3. \A a \in taken \ swept, i \in Jobs : a \in has[i] => i = rpcJob
    BY <2>2 DEF HasInv
  <2>4. \A h \in Hosts : lease[h] \in taken => h = MacOf[rpcJob]
    <3> SUFFICES ASSUME NEW h \in Hosts, lease[h] \in taken
                 PROVE  h = MacOf[rpcJob]
      OBVIOUS
    <3>1. lease[h] \in Addrs /\ rsv[lease[h]] = rpcJob /\ Holder(h, lease[h])
      BY <1>1, <2>2 DEF Holder
    <3>2. QED
      BY <1>1, <3>1 DEF ReservedInv
  <2>5. Pool!Adjacent(taken)
    <3>1. picked \cup taken = taken
      BY DEF Reply
    <3>2. QED
      BY <3>1 DEF RunInv, Pool!Adjacent
  <2>6. Pool!Allot(rpcJob, taken)
    BY <1>1, <1>3, <2>1, <2>3, <2>4, <2>5 DEF Pool!Allot
  <2>7. QED
    BY <1>1, <2>6 DEF Pool!Next
<1>4. QED
  BY <1>2, <1>3

LEMMA PoolEnd ==
  ASSUME IInv, NEW S \in SUBSET Hosts, UNCHANGED <<jobVars, cleanVars>>,
         lease' = [h \in Hosts |-> IF h \in S THEN NoAddr ELSE lease[h]]
  PROVE  Pool!Next
BY DEF Pool!Next, Pool!End, jobVars, cleanVars

LEMMA PoolDrop ==
  ASSUME IInv, NEW h \in Hosts, UNCHANGED <<jobVars, cleanVars>>,
         lease' = [lease EXCEPT ![h] = NoAddr]
  PROVE  Pool!Next
<1>1. lease' = [g \in Hosts |-> IF g \in {h} THEN NoAddr ELSE lease[g]]
  BY DEF IInv, SafeInv, Base, TypeOK, ClientsOK
<1>2. QED
  BY <1>1, PoolEnd

\* Only a cleaner with an old listing sweeps.
LEMMA PoolSweep ==
  ASSUME IInv, NEW c \in Cleaners, NEW a \in Addrs, CleanRelease(c, a)
  PROVE  Pool!Next \/ UNCHANGED Pool!vars
<1> USE DEF IInv
<1>1. UNCHANGED <<lease, has, over>> /\ listed[c][a] \in over
  BY DEF CleanRelease, hostVars, jobVars, CleanInv
<1>2. swept = InUse(swept)
  BY <1>1 DEF SweptInv, InUse
<1>3. CASE rsv[a] = listed[c][a]
  BY <1>1, <1>2, <1>3 DEF CleanRelease, Pool!vars
<1>4. CASE rsv[a] # listed[c][a] /\ \E j \in Jobs : a \in has[j]
  <2>1. swept' = swept \cup {a}
    BY <1>1, <1>2, <1>4 DEF CleanRelease, InUse
  <2>2. \E j \in Jobs \ over : a \in has[j]
    BY <1>4 DEF HasInv
  <2>3. Pool!Sweep(a)
    BY <1>1, <2>1, <2>2 DEF Pool!Sweep
  <2>4. QED
    BY <2>3 DEF Pool!Next
<1>5. CASE rsv[a] # listed[c][a] /\ ~\E j \in Jobs : a \in has[j]
  <2>1. swept' = swept
    BY <1>1, <1>2, <1>5 DEF CleanRelease, InUse
  <2>2. QED
    BY <1>1, <2>1 DEF Pool!vars
<1>6. QED
  BY <1>3, <1>4, <1>5

LEMMA PoolStep ==
  ASSUME IInv, [Next]_vars
  PROVE  Pool!Next \/ UNCHANGED Pool!vars
<1>1. ASSUME NEW t \in Threads, Ack(t)
      PROVE  Pool!Next
  BY <1>1, PoolGive
<1>2. ASSUME NEW t \in Threads, NEW h \in Hosts, ReceiveDecline(t, h)
      PROVE  Pool!Next
  BY <1>2, PoolDrop DEF ReceiveDecline
<1>3. ASSUME NEW h \in Hosts, Drop(h)
      PROVE  Pool!Next
  BY <1>3, PoolDrop DEF Drop
<1>4. CASE Tick
  <2> DEFINE S == {h \in Hosts : ~(remain[h] > 1)}
  <2>1. lease' = [h \in Hosts |-> IF h \in S THEN NoAddr ELSE lease[h]]
    BY <1>4 DEF Tick
  <2>2. S \in SUBSET Hosts
    OBVIOUS
  <2>3. UNCHANGED <<jobVars, cleanVars>>
    BY <1>4 DEF Tick
  <2>4. QED
    BY <2>1, <2>2, <2>3, PoolEnd
<1>5. CASE Reply
  BY <1>5, PoolAllot
<1>6. ASSUME NEW j \in Jobs, NEW a \in Addrs, Release(j, a)
      PROVE  Pool!Next
  <2>1. Pool!Return(j, a)
    BY <1>6 DEF Release, hostVars, InUse, Pool!Return, Pool!InUse
  <2>2. QED
    BY <2>1 DEF Pool!Next
<1>7. ASSUME NEW j \in Jobs, Over(j)
      PROVE  Pool!Next
  <2>1. Pool!Finish(j)
    BY <1>7 DEF Over, hostVars, InUse, Pool!Finish, Pool!InUse
  <2>2. QED
    BY <2>1 DEF Pool!Next
<1>8. ASSUME NEW c \in Cleaners, NEW a \in Addrs, CleanRelease(c, a)
      PROVE  Pool!Next \/ UNCHANGED Pool!vars
  BY <1>8, PoolSweep
<1>9. CASE UNCHANGED <<hostVars, jobVars, swept>>
  BY <1>9 DEF hostVars, jobVars, Pool!vars
<1>10. QED
  BY <1>1, <1>2, <1>3, <1>4, <1>5, <1>6, <1>7, <1>8, <1>9
  DEF Next, vars, cleanVars, Packet, Job, Clean, Receive, DeclineFind, DeclineBlacklist,
      AfterDecline, RenewLook, RenewWrite, TurnAway, NewPick, NewTake, NoAck, PickSingle,
      PickRange, Pick, Reserve, CleanList, CleanAsk, Restart

(***************************************************************************)
(* The allocator keeps the promise of AddressPool with any number of       *)
(* cleaners: an address is swept from its user only after some other job   *)
(* is over.                                                                *)
(***************************************************************************)
THEOREM PoolImplemented == Spec => ImplementsPool
<1>1. Init => Pool!Init
  BY DEF Init, Pool!Init
<1>2. IInv /\ [Next]_vars => [Pool!Next]_Pool!vars
  BY PoolStep
<1>3. QED
  BY Invariance, <1>1, <1>2, PTL DEF Spec, ImplementsPool, Pool!Spec
=============================================================================
