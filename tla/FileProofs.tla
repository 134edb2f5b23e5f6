----------------------------- MODULE FileProofs -----------------------------
(***************************************************************************)
(* Theorems of FileManager, for any number of processes, calls and inodes. *)
(***************************************************************************)
EXTENDS FileInv, TLAPS

USE FileAssumption

LEMMA FreeInode ==
  ASSUME Free # {}
  PROVE  /\ (CHOOSE i \in Free : TRUE) \in Inodes
         /\ (CHOOSE i \in Free : TRUE) \notin {shared, part}
         /\ \A p \in Procs : (CHOOSE i \in Free : TRUE) \notin {mine[p], fd[p]}
BY DEF Free

\* What opening the part does, be it new or not.
LEMMA Opens ==
  ASSUME IInv, NEW p \in Procs, StartWget(p)
  PROVE  \E i \in Inodes :
           /\ Open(p, i)
           /\ i = part \/ (part = NoFile /\ \A q \in Procs : i # fd[q])
           /\ i # shared /\ \A q \in Procs : i # mine[q]
<1>1. CASE part # NoFile /\ Open(p, part)
  BY <1>1 DEF IInv, TypeOK, PartApart
<1>2. CASE part = NoFile /\ Free # {} /\ Open(p, CHOOSE i \in Free : TRUE)
  BY <1>2, FreeInode
<1>3. QED
  BY <1>1, <1>2 DEF StartWget

-----------------------------------------------------------------------------
LEMMA InvInit == Init => IInv
BY DEF Init, IInv, TypeOK, PartApart, PartWritten, MarkMeansFetching, Place, Labels, Before,
       Waits, Fetches

LEMMA DiskTypes ==
  ASSUME IInv, [Next]_vars
  PROVE  /\ shared' \in Inodes \cup {NoFile} /\ part' \in Inodes \cup {NoFile}
         /\ complete' \subseteq Inodes /\ mine' \in [Procs -> Inodes \cup {NoFile}]
         /\ fd' \in [Procs -> Inodes \cup {NoFile}] /\ torn' \subseteq Procs
<1> USE DEF IInv, TypeOK, Link, Close
<1>1. ASSUME NEW p \in Procs, StartWget(p)
      PROVE  /\ shared' \in Inodes \cup {NoFile} /\ part' \in Inodes \cup {NoFile}
             /\ complete' \subseteq Inodes /\ mine' \in [Procs -> Inodes \cup {NoFile}]
             /\ fd' \in [Procs -> Inodes \cup {NoFile}] /\ torn' \subseteq Procs
  BY <1>1, Opens DEF Open, StartWget, Writers
<1>2. ASSUME NEW p \in Procs, EndWget(p)
      PROVE  complete' \subseteq Inodes /\ fd' \in [Procs -> Inodes \cup {NoFile}] /\ torn' \subseteq Procs
  BY <1>2 DEF EndWget, Place
<1>3. QED
  BY <1>1, <1>2
  DEF Next, vars, diskVars, wgetVars, Proc, Wait, Fetch, Call, Look, Poll, Ask, AskFails,
      UnlinkMark, Except, Deadline, FindFile, UseFile, Replace, Mark, WriteMark, EndWget,
      FailWget, Rename, LinkFetched, Unmark, Gone, JobOver, Cleanup

LEMMA CallTypes ==
  ASSUME IInv, [Next]_vars
  PROVE  /\ mark' \in Procs \cup {NoMark, Empty} /\ opened' \subseteq Procs
         /\ pc' \in [Procs -> Labels] /\ lock' \subseteq Procs
         /\ read' \in [Procs -> Procs \cup {NoMark}]
         /\ ended' \subseteq Procs \ Manual /\ calls' \in [Procs -> 0 .. MaxCalls]
<1> USE DEF IInv, TypeOK
<1>1. mark' \in Procs \cup {NoMark, Empty} /\ opened' \subseteq Procs
  BY DEF Next, vars, markVars, Proc, Wait, Fetch, Call, Look, Poll, Ask, AskFails, RemoveMark,
      UnlinkMark, Except, Deadline, FindFile, UseFile, Replace, Mark, WriteMark, StartWget, EndWget,
      FailWget, Rename, LinkFetched, Unmark, Gone, JobOver, Cleanup
<1>2. pc' \in [Procs -> Labels] /\ lock' \subseteq Procs
  BY DEF Next, vars, Proc, Wait, Fetch, Call, Look, Poll, Ask, AskFails, Goto, Return,
      UnlinkMark, Except, Deadline, FindFile, UseFile, Replace, Mark, WriteMark, StartWget, EndWget,
      FailWget, Rename, LinkFetched, Unmark, Gone, JobOver, Cleanup, Labels, Waits, Fetches
<1>3. read' \in [Procs -> Procs \cup {NoMark}] /\ ended' \subseteq Procs \ Manual
  BY DEF Next, vars, Proc, Wait, Fetch, Call, Look, Poll, Ask, AskFails,
      UnlinkMark, Except, Deadline, FindFile, UseFile, Replace, Mark, WriteMark, StartWget, EndWget,
      FailWget, Rename, LinkFetched, Unmark, Gone, JobOver, Cleanup
<1>4. ASSUME NEW p \in Procs, Call(p)
      PROVE  calls' \in [Procs -> 0 .. MaxCalls]
  <2>1. calls[p] + 1 \in 0 .. MaxCalls
    BY <1>4 DEF Call
  <2>2. QED
    BY <1>4, <2>1 DEF Call
<1>5. calls' = calls \/ \E p \in Procs : Call(p)
  BY DEF Next, vars, Proc, Wait, Fetch, Look, Poll, Ask, AskFails,
      UnlinkMark, Except, Deadline, FindFile, UseFile, Replace, Mark, WriteMark, StartWget, EndWget,
      FailWget, Rename, LinkFetched, Unmark, Gone, JobOver, Cleanup
<1>6. QED
  BY <1>1, <1>2, <1>3, <1>4, <1>5

LEMMA PlaceStep ==
  ASSUME IInv, [Next]_vars, NEW p \in Procs
  PROVE  Place(p)'
<1> USE DEF IInv, TypeOK, Place, Before, Waits, Fetches, Goto, Return
<1>1. ASSUME NEW q \in Procs, StartWget(q)
      PROVE  Place(p)'
  <2>1. PICK i \in Inodes : fd' = [fd EXCEPT ![q] = i]
    BY <1>1, Opens DEF Open
  <2>2. /\ pc[q] = "fetch" /\ pc' = [pc EXCEPT ![q] = "wget"]
        /\ mine' = mine /\ opened' = opened
    BY <1>1 DEF StartWget, markVars
  <2>3. QED
    BY <2>1, <2>2
<1>2. ASSUME NEW q \in Procs, EndWget(q) \/ FailWget(q)
      PROVE  Place(p)'
  BY <1>2 DEF EndWget, FailWget, Close, markVars
<1>3. ASSUME NEW q \in Procs, Call(q) \/ Look(q) \/ Poll(q) \/ Ask(q) \/ AskFails(q)
      PROVE  Place(p)'
  BY <1>3 DEF Call, Look, Poll, Ask, AskFails, markVars, wgetVars
<1>4. ASSUME NEW q \in Procs, UnlinkMark(q) \/ Except(q) \/ Deadline(q) \/ FindFile(q)
      PROVE  Place(p)'
  BY <1>4 DEF UnlinkMark, RemoveMark, Except, Deadline, FindFile, markVars, wgetVars
<1>5. ASSUME NEW q \in Procs, UseFile(q) \/ LinkFetched(q)
      PROVE  Place(p)'
  BY <1>5 DEF UseFile, LinkFetched, Link, markVars, wgetVars
<1>6. ASSUME NEW q \in Procs, Replace(q) \/ Mark(q) \/ WriteMark(q) \/ Rename(q) \/ Unmark(q)
      PROVE  Place(p)'
  BY <1>6 DEF Replace, Mark, WriteMark, Rename, Unmark, RemoveMark, markVars, wgetVars
<1>7. ASSUME NEW q \in Procs, Gone(q) \/ JobOver(q)
      PROVE  Place(p)'
  BY <1>7 DEF Gone, JobOver, markVars, wgetVars
<1>8. CASE Cleanup
  BY <1>8 DEF Cleanup, RemoveMark, wgetVars
<1>9. CASE UNCHANGED vars
  BY <1>9 DEF vars, markVars, wgetVars
<1>10. QED
  BY <1>1, <1>2, <1>3, <1>4, <1>5, <1>6, <1>7, <1>8, <1>9 DEF Next, Proc, Wait, Fetch

\* Linking gives a process what is in the cache, never the part.
LEMMA ApartStep ==
  ASSUME IInv, [Next]_vars
  PROVE  PartApart'
<1> USE DEF IInv, TypeOK, PartApart
<1>1. ASSUME NEW p \in Procs, StartWget(p)
      PROVE  PartApart'
  BY <1>1, Opens DEF Open, StartWget
<1>2. ASSUME NEW p \in Procs, UseFile(p) \/ LinkFetched(p) \/ Gone(p)
      PROVE  PartApart'
  BY <1>2 DEF UseFile, LinkFetched, Gone, Link, diskVars
<1>3. QED
  BY <1>1, <1>2
  DEF Next, vars, diskVars, Proc, Wait, Fetch, Call, Look, Poll, Ask, AskFails, UnlinkMark,
      Except, Deadline, FindFile, Replace, Mark, WriteMark, EndWget, FailWget, Rename, Unmark,
      JobOver, Cleanup

LEMMA WrittenStep ==
  ASSUME IInv, [Next]_vars
  PROVE  PartWritten'
<1> USE DEF IInv, TypeOK, PartWritten
<1>1. ASSUME NEW p \in Procs, StartWget(p)
      PROVE  PartWritten'
  <2>1. PICK i \in Inodes : Open(p, i)
    BY <1>1, Opens
  <2>2. fd'[p] = i /\ part' = i /\ p \notin torn'
    BY <2>1 DEF Open
  <2>3. QED
    BY <2>2
<1>2. ASSUME NEW p \in Procs, EndWget(p)
      PROVE  PartWritten'
  <2> SUFFICES ASSUME part' # NoFile, part' \notin complete'
               PROVE  \E q \in Procs \ torn' : fd'[q] = part'
    BY DEF PartWritten
  <2>1. part' = part /\ part \notin complete
    BY <1>2 DEF EndWget
  <2>2. PICK q \in Procs \ torn : fd[q] = part
    BY <2>1
  <2>3. q # p
    BY <1>2, <2>1, <2>2 DEF EndWget
  <2>4. fd'[q] = part /\ q \notin torn'
    BY <1>2, <2>2, <2>3 DEF EndWget, Close
  <2>5. QED
    BY <2>1, <2>4
<1>3. CASE UNCHANGED <<part, complete, wgetVars>>
  BY <1>3 DEF wgetVars
<1>4. CASE part' = NoFile
  BY <1>4
<1>5. ASSUME NEW p \in Procs, Gone(p)
      PROVE  PartWritten'
  BY <1>5 DEF Gone, diskVars
<1>6. QED
  BY <1>1, <1>2, <1>3, <1>4, <1>5
  DEF Next, vars, diskVars, Proc, Wait, Fetch, Call, Look, Poll, Ask, AskFails, UnlinkMark,
      Except, Deadline, FindFile, UseFile, Replace, Mark, WriteMark, FailWget, Rename,
      LinkFetched, Unmark, JobOver, Cleanup

LEMMA MarkStep ==
  ASSUME IInv, [Next]_vars
  PROVE  MarkMeansFetching'
<1> USE DEF IInv, TypeOK, MarkMeansFetching, Fetches, Goto
<1> SUFFICES ASSUME mark' \in Procs
             PROVE  pc'[mark'] \in Fetches \cup {"gone"}
  BY DEF MarkMeansFetching
<1>1. ASSUME NEW p \in Procs, WriteMark(p)
      PROVE  pc'[mark'] \in Fetches \cup {"gone"}
  BY <1>1 DEF WriteMark
<1>2. CASE mark' = mark /\ pc'[mark] = pc[mark]
  BY <1>2
<1>3. CASE mark' = mark /\ pc'[mark] \in Fetches \cup {"gone"}
  BY <1>3
<1>4. mark' # NoMark /\ mark' # Empty
  OBVIOUS
<1>5. ASSUME NEW p \in Procs, Proc(p), ~WriteMark(p)
      PROVE  mark' = mark /\ (pc'[mark] = pc[mark] \/ pc'[mark] \in Fetches \cup {"gone"})
  <2> USE DEF RemoveMark, Return, markVars
  <2>1. CASE Call(p) \/ Look(p) \/ AskFails(p) \/ Deadline(p) \/ FindFile(p) \/ UseFile(p) \/ Replace(p)
    BY <1>4, <2>1 DEF Call, Look, AskFails, Deadline, FindFile, UseFile, Replace
  <2>2. CASE Poll(p) \/ Ask(p) \/ UnlinkMark(p) \/ Except(p)
    BY <1>4, <2>2 DEF Poll, Ask, UnlinkMark, Except
  <2>3. CASE Mark(p) \/ StartWget(p) \/ EndWget(p) \/ FailWget(p)
    BY <1>4, <2>3 DEF Mark, StartWget, EndWget, FailWget
  <2>4. CASE Rename(p) \/ LinkFetched(p) \/ Unmark(p)
    BY <1>4, <2>4 DEF Rename, LinkFetched, Unmark
  <2>5. CASE Gone(p) \/ JobOver(p)
    BY <1>4, <2>5 DEF Gone, JobOver
  <2>6. QED
    BY <1>5, <2>1, <2>2, <2>3, <2>4, <2>5 DEF Proc, Wait, Fetch
<1>6. CASE Cleanup
  BY <1>4, <1>6 DEF Cleanup, RemoveMark
<1>7. CASE UNCHANGED vars
  BY <1>2, <1>7 DEF vars, markVars
<1>8. QED
  BY <1>1, <1>2, <1>3, <1>5, <1>6, <1>7 DEF Next

LEMMA InvStep == IInv /\ [Next]_vars => IInv'
BY DiskTypes, CallTypes, PlaceStep, ApartStep, WrittenStep, MarkStep DEF IInv, TypeOK

LEMMA Invariance == Spec => []IInv
BY InvInit, InvStep, PTL DEF Spec

-----------------------------------------------------------------------------
(***************************************************************************)
(* The types, and what a marker means to those who wait for it.            *)
(***************************************************************************)
THEOREM TypeCorrectness == Spec => []TypeOK
<1>1. IInv => TypeOK
  BY DEF IInv
<1>2. QED
  BY Invariance, <1>1, PTL

THEOREM MarkersMeanFetching == Spec => []MarkMeansFetching
<1>1. IInv => MarkMeansFetching
  BY DEF IInv
<1>2. QED
  BY Invariance, <1>1, PTL

(***************************************************************************)
(* A process keeps what it was given, however many fetch, replace, clean   *)
(* up and die at the same time; and nobody spoils a whole file that is in  *)
(* the cache or was given to a process.                                    *)
(***************************************************************************)
THEOREM FilesStay == Spec => GivenStays
<1> DEFINE Stays ==
      /\ \A p \in Procs : mine[p] # NoFile => mine'[p] = mine[p] \/ Gone(p)
      /\ Given \cap complete \subseteq complete'
<1>1. IInv /\ [Next]_vars => [Stays]_vars
  <2> SUFFICES ASSUME IInv, Next PROVE Stays
    OBVIOUS
  <2> USE DEF IInv, TypeOK
  <2>1. ASSUME NEW p \in Procs, mine[p] # NoFile
        PROVE  mine'[p] = mine[p] \/ Gone(p)
    <3>1. ASSUME NEW q \in Procs, UseFile(q) \/ LinkFetched(q)
          PROVE  mine'[p] = mine[p]
      BY <2>1, <3>1 DEF UseFile, LinkFetched, Link, Place, Before, Fetches
    <3>2. ASSUME NEW q \in Procs, Gone(q)
          PROVE  mine'[p] = mine[p] \/ Gone(p)
      BY <3>2 DEF Gone
    <3>3. QED
      BY <3>1, <3>2
      DEF Next, Proc, Wait, Fetch, Call, Look, Poll, Ask, AskFails, UnlinkMark, Except,
          Deadline, FindFile, Replace, Mark, WriteMark, StartWget, EndWget, FailWget,
          Rename, Unmark, JobOver, Cleanup
  <2>2. ASSUME NEW i \in Given, i \in complete
        PROVE  i \in complete'
    <3>1. ASSUME NEW q \in Procs, StartWget(q)
          PROVE  i \in complete'
      BY <2>2, <3>1, Opens DEF Open, Given
    <3>2. ASSUME NEW q \in Procs, EndWget(q)
          PROVE  i \in complete'
      BY <2>2, <3>2 DEF EndWget
    <3>3. QED
      BY <2>2, <3>1, <3>2
      DEF Next, Proc, Wait, Fetch, Call, Look, Poll, Ask, AskFails, UnlinkMark, Except,
          Deadline, FindFile, UseFile, Replace, Mark, WriteMark, FailWget, Rename,
          LinkFetched, Unmark, Gone, JobOver, Cleanup, diskVars
  <2>3. QED
    BY <2>1, <2>2
<1>2. QED
  BY Invariance, <1>1, PTL DEF Spec, GivenStays

(***************************************************************************)
(* What gets its name in the cache is whole, unless another process is     *)
(* fetching into the same file or was killed while it did.                 *)
(***************************************************************************)
THEOREM PublishesWhole == Spec => PublishedWhole
<1> DEFINE Whole ==
      shared' \notin {shared, NoFile} /\ shared' \notin complete
        => \E q \in Procs : fd[q] = shared'
<1>1. IInv /\ [Next]_vars => [Whole]_vars
  <2> SUFFICES ASSUME IInv, Next, shared' \notin {shared, NoFile}, shared' \notin complete
               PROVE  \E q \in Procs : fd[q] = shared'
    OBVIOUS
  <2>1. part # NoFile /\ shared' = part
    BY DEF Next, Proc, Wait, Fetch, Call, Look, Poll, Ask, AskFails, UnlinkMark, Except,
           Deadline, FindFile, UseFile, Replace, Mark, WriteMark, StartWget, EndWget, FailWget,
           Rename, LinkFetched, Unmark, Gone, JobOver, Cleanup, diskVars
  <2>2. QED
    BY <2>1 DEF IInv, PartWritten
<1>2. QED
  BY Invariance, <1>1, PTL DEF Spec, PublishedWhole
=============================================================================
