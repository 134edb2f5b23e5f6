---------------------------- MODULE CentralProofs ----------------------------
(***************************************************************************)
(* CentralResource keeps its types for every instance, and one holder at a *)
(* time while no cleaner runs, for locks nobody has a reason to break:     *)
(* those without a timeout, and the others as long as nothing went wrong.  *)
(***************************************************************************)
EXTENDS CentralInv, TLAPS

\* Ages are bounded by a natural number.
LEMMA MaxAgeIsNat == MaxAge \in Nat
BY LockAssumption DEF MaxAge

\* Age zero is an age.
LEMMA ZeroIsAge == 0 \in 0..MaxAge
BY MaxAgeIsNat

\* What is done to the directory leaves a directory.
LEMMA DirTypes ==
  ASSUME TypeOK
  PROVE  /\ \A p \in Procs \cup {NoProc} : NewDir(p) => DirTypeOK'
         /\ \A f \in Files : Unlink(f) => DirTypeOK'
         /\ UNCHANGED dirVars => DirTypeOK'
<1>1. ASSUME NEW p \in Procs \cup {NoProc}, NewDir(p) PROVE DirTypeOK'
  BY <1>1, MaxAgeIsNat DEF DirTypeOK, NewDir
<1>2. ASSUME NEW f \in Files, Unlink(f) PROVE DirTypeOK'
  <2>1. CASE f = "timestamp"
    BY <1>2, <2>1, MaxAgeIsNat DEF TypeOK, DirTypeOK, Unlink
  <2>2. CASE f # "timestamp"
    BY <1>2, <2>2 DEF TypeOK, DirTypeOK, Unlink
  <2> QED
    BY <2>1, <2>2
<1>3. UNCHANGED dirVars => DirTypeOK'
  BY DEF TypeOK, DirTypeOK, dirVars
<1> QED
  BY <1>1, <1>2, <1>3

\* One more use of those that are left.
LEMMA OneMoreUse ==
  ASSUME uses \in [Procs -> 0..MaxUses], NEW p \in Procs, NextUse(p), uses[p] < MaxUses
  PROVE  uses' \in [Procs -> 0..MaxUses]
<1>1. uses[p] + 1 \in 0..MaxUses
  BY LockAssumption
<1> QED
  BY <1>1 DEF NextUse

\* Whoever looks no more has not waited.
LEMMA NoneWaited ==
  ASSUME waited \in [Procs -> 0..(Timeout + 1)], NEW p \in Procs, LookNoMore(p)
  PROVE  waited' \in [Procs -> 0..(Timeout + 1)]
<1>1. 0 \in 0..(Timeout + 1)
  BY LockAssumption
<1> QED
  BY <1>1 DEF LookNoMore

\* A step of the cleaner keeps the types.
LEMMA SweepTypes ==
  ASSUME TypeOK, NEW c \in Cleaners, Sweep(c)
  PROVE  TypeOK'
<1> USE DEF Releasing, Files, After
<1>1. UNCHANGED <<procVars, markVars, jobVars>>
  BY DEF Sweep, SweepList, SweepTimestamp, SweepJobid, SweepJudge, SweepUnlink, SweepRmdir
<1>2. DirTypeOK'
  BY DirTypes DEF Sweep, SweepList, SweepTimestamp, SweepJobid, SweepJudge,
                  SweepUnlink, SweepRmdir
<1>3. /\ cpc' \in [Cleaners -> {"off", "timestamp?", "jobid?", "judge"} \cup Releasing]
      /\ rested' \subseteq Procs \cup Cleaners
  BY DEF TypeOK, Sweep, SweepList, SweepTimestamp, SweepJobid, SweepJudge,
         SweepUnlink, SweepRmdir
<1>4. cold' \subseteq Cleaners
  BY DEF TypeOK, Sweep, SweepList, SweepTimestamp, SweepJobid, SweepJudge,
         SweepUnlink, SweepRmdir
<1>5. cjob' \in [Cleaners -> Procs \cup {NoProc}]
  BY DEF TypeOK, DirTypeOK, Sweep, SweepList, SweepTimestamp, SweepJobid, SweepJudge,
         SweepUnlink, SweepRmdir
<1> QED
  BY <1>1, <1>2, <1>3, <1>4, <1>5 DEF TypeOK, procVars, markVars, jobVars

\* A minute that passes keeps the types.
LEMMA TickTypes ==
  ASSUME TypeOK, Tick
  PROVE  TypeOK'
<1>1. Older(age) \in 0..MaxAge
  BY MaxAgeIsNat DEF TypeOK, DirTypeOK, Older
<1>2. waited' \in [Procs -> 0..(Timeout + 1)]
  <2>1. \A n \in 0..(Timeout + 1) : Longer(n) \in 0..(Timeout + 1)
    BY LockAssumption DEF Longer
  <2> QED
    BY <2>1 DEF TypeOK, Tick
<1>3. /\ UNCHANGED <<maker, files, job, stamp, open, pc, locked, resHeld, exiting, uses>>
      /\ UNCHANGED <<marker, done, lent, crashes, cpc, cold, cjob>>
      /\ age' = Older(age) /\ marked' = {} /\ rested' = {}
  BY DEF Tick, jobVars
<1> QED
  BY <1>1, <1>2, <1>3 DEF TypeOK, DirTypeOK

\* So do the file operations of a process in acquire() and release().
LEMMA GoTypes ==
  ASSUME TypeOK, UsesInv, NEW p \in Procs, Mkdir(p) \/ Go(p)
  PROVE  TypeOK'
<1> USE DEF Goto, Labels, Releasing, Files, After
<1>1. DirTypeOK'
  <2>1. CASE WriteId(p)
    BY <2>1 DEF TypeOK, DirTypeOK, WriteId, Put
  <2>3. CASE WriteTimestamp(p)
    BY <2>3, ZeroIsAge DEF TypeOK, DirTypeOK, WriteTimestamp, Put
  <2>4. CASE WriteJobid(p)
    BY <2>4 DEF TypeOK, DirTypeOK, WriteJobid, Put
  <2>2. CASE ~(WriteId(p) \/ WriteTimestamp(p) \/ WriteJobid(p))
    <3>1. \/ UNCHANGED dirVars
          \/ \E q \in Procs \cup {NoProc} : NewDir(q)
          \/ \E f \in Files : Unlink(f)
      BY <2>2 DEF Go, Mkdir, Made, Look, Rmtree, MkdirAgain, ReleaseUnlink,
                  ReleaseRmdir, Unregister
    <3> QED
      BY <3>1, DirTypes
  <2> QED
    BY <2>1, <2>2, <2>3, <2>4
<1>2. pc' \in [Procs -> Labels]
  <2>1. \E l \in Labels : pc' = [pc EXCEPT ![p] = l]
    <3>1. CASE ReleaseUnlink(p)
      BY <3>1 DEF ReleaseUnlink
    <3>2. CASE ~ReleaseUnlink(p)
      BY <3>2 DEF Go, Mkdir, Made, Look, Refused, Rmtree, MkdirAgain, ReleaseRmdir,
                  Unregister, WriteId, WriteTimestamp, WriteJobid, NextUse
    <3> QED
      BY <3>1, <3>2
  <2> QED
    BY <2>1 DEF TypeOK
<1>3. locked' \subseteq Procs /\ resHeld' \subseteq Procs
  BY DEF TypeOK, Go, Mkdir, Made, Look, Refused, Rmtree, MkdirAgain, ReleaseUnlink,
         ReleaseRmdir, Unregister, WriteId, WriteTimestamp, WriteJobid, NextUse
<1>6. rested' \subseteq Procs \cup Cleaners
  BY DEF TypeOK, Go, Mkdir, Look, Refused, Rmtree, MkdirAgain, ReleaseUnlink, ReleaseRmdir,
         Unregister, WriteId, WriteTimestamp, WriteJobid, sweepVars
<1>7. waited' \in [Procs -> 0..(Timeout + 1)]
  <2>1. UNCHANGED waited \/ LookNoMore(p)
    BY DEF Go, Mkdir, Made, Look, Refused, Rmtree, MkdirAgain, ReleaseUnlink, ReleaseRmdir,
       Unregister, WriteId, WriteTimestamp, WriteJobid, NextUse
  <2> QED
    BY <2>1, NoneWaited DEF TypeOK
<1>4. uses' \in [Procs -> 0..MaxUses]
  <2>1. CASE UNCHANGED uses
    BY <2>1 DEF TypeOK
  <2>2. CASE NextUse(p) /\ uses[p] < MaxUses
    BY <2>2, OneMoreUse DEF TypeOK
  <2> QED
    BY <2>1, <2>2 DEF UsesInv, Acquiring, Go, Mkdir, Look, Refused, Rmtree, MkdirAgain,
       ReleaseUnlink, ReleaseRmdir, Unregister, WriteId, WriteTimestamp, WriteJobid
<1>5. UNCHANGED <<exiting, markVars, jobVars, cpc, cold, cjob>>
  BY DEF Go, Mkdir, Look, Rmtree, MkdirAgain, ReleaseUnlink, ReleaseRmdir,
         Unregister, WriteId, WriteTimestamp, WriteJobid, sweepVars
<1> QED
  BY <1>1, <1>2, <1>3, <1>4, <1>5, <1>6, <1>7 DEF TypeOK, markVars, jobVars

\* So do the mark thread and everything else that may happen to a process.
LEMMA OtherTypes ==
  ASSUME TypeOK, NEW p \in Procs,
         \/ Mark(p) \/ Release(p) \/ Exit(p) \/ ExitKeeping(p)
         \/ Return(p) \/ Crash(p) \/ JobDone(p)
  PROVE  TypeOK'
<1> USE DEF Goto, Labels, Releasing, Files
<1>1. DirTypeOK'
  <2>1. CASE MarkOpen(p) /\ Exists
    BY <2>1, ZeroIsAge DEF MarkOpen, Exists, TypeOK, DirTypeOK
  <2>2. CASE MarkWrite(p) /\ p \in open
    BY <2>2, ZeroIsAge DEF MarkWrite, TypeOK, DirTypeOK
  <2>3. CASE MarkWrite(p) /\ p \notin open
    BY <2>3, DirTypes DEF MarkWrite, dirVars
  <2>4. CASE ~(MarkOpen(p) /\ Exists) /\ ~MarkWrite(p)
    BY <2>4, DirTypes DEF Mark, MarkBegin, MarkOpen, Release, Exit, ExitKeeping,
                          Return, Crash, JobDone
  <2> QED
    BY <2>1, <2>2, <2>3, <2>4
<1>2. crashes' \in 0..MaxCrashes
  <2>1. CASE Crash(p)
    <3>1. crashes \in 0..MaxCrashes /\ crashes < MaxCrashes /\ crashes' = crashes + 1
      BY <2>1 DEF Crash, TypeOK
    <3> QED
      BY <3>1, LockAssumption
  <2>2. CASE UNCHANGED crashes
    BY <2>2 DEF TypeOK
  <2> QED
    BY <2>1, <2>2 DEF Mark, MarkBegin, MarkOpen, MarkWrite, Release, Exit, ExitKeeping,
                      Return, JobDone, jobVars
<1>3. pc' \in [Procs -> Labels]
  BY DEF TypeOK, Mark, MarkBegin, MarkOpen, MarkWrite, Release, Exit, ExitKeeping,
         Return, Crash, JobDone, procVars
<1>4. /\ marker' \in [Procs -> {"sleep", "open", "write", "dead", "gone"}] /\ marked' \subseteq Procs
  BY DEF TypeOK, Mark, MarkBegin, MarkOpen, MarkWrite, Release, Exit, ExitKeeping,
         Return, Crash, JobDone, EndMarking, markVars
<1>5. done' \subseteq Procs /\ lent' \subseteq Procs /\ exiting' \subseteq Procs
  BY DEF TypeOK, Mark, MarkBegin, MarkOpen, MarkWrite, Release, Exit, ExitKeeping,
         Return, Crash, JobDone, jobVars, procVars
<1>6. UNCHANGED <<locked, resHeld, uses, sweepVars>>
  BY DEF Mark, MarkBegin, MarkOpen, MarkWrite, Release, Exit, ExitKeeping,
         Return, Crash, JobDone, procVars
<1>7. waited' \in [Procs -> 0..(Timeout + 1)]
  <2>1. UNCHANGED waited \/ LookNoMore(p)
    BY DEF Mark, MarkBegin, MarkOpen, MarkWrite, Release, Exit, ExitKeeping,
           Return, Crash, JobDone, procVars
  <2> QED
    BY <2>1, NoneWaited DEF TypeOK
<1> QED
  BY <1>1, <1>2, <1>3, <1>4, <1>5, <1>6, <1>7 DEF TypeOK, sweepVars

\* Whoever is in the course of a use has one left.
LEMMA UsesKept ==
  ASSUME TypeOK, UsesInv, [Next]_vars
  PROVE  UsesInv'
<1> USE DEF UsesInv, Acquiring, Releasing, Files
<1>1. CASE UNCHANGED procVars
  BY <1>1 DEF procVars
<1>2. ASSUME NEW p \in Procs, \/ Mkdir(p) \/ Go(p) \/ Release(p)
                              \/ Exit(p) \/ ExitKeeping(p) \/ Crash(p)
      PROVE  UsesInv'
  <2>1. \A q \in Procs \ {p} : /\ pc'[q] = pc[q] /\ uses'[q] = uses[q]
                               /\ q \in exiting' <=> q \in exiting
    BY <1>2 DEF TypeOK, Goto, NextUse, Made, Go, Mkdir, Look, Refused, Rmtree, MkdirAgain,
      ReleaseUnlink, ReleaseRmdir, Unregister, WriteId, WriteTimestamp, WriteJobid,
      Release, Exit, ExitKeeping, Crash
  <2>2. pc'[p] \in Acquiring \cup {"unregister"} \cup (IF p \in exiting' THEN {} ELSE Releasing \cup {"held"})
          => uses'[p] < MaxUses
    <3>1. CASE NextUse(p)
      BY <3>1 DEF TypeOK, Goto, NextUse
    <3>2. CASE ReleaseUnlink(p) \/ ReleaseRmdir(p) \/ Release(p)
      BY <3>2 DEF TypeOK, Goto, After, ReleaseUnlink, ReleaseRmdir, Release
    <3>3. CASE Exit(p) \/ ExitKeeping(p) \/ Crash(p)
      BY <3>3 DEF TypeOK, Goto, Exit, ExitKeeping, Crash
    <3>4. CASE /\ Mkdir(p) \/ MkdirAgain(p) \/ WriteId(p) \/ WriteTimestamp(p) \/ WriteJobid(p)
               /\ ~NextUse(p)
      BY <3>4 DEF TypeOK, Goto, Made, Mkdir, Refused, MkdirAgain, WriteId, WriteTimestamp,
                      WriteJobid
    <3>5. CASE (Look(p) \/ Rmtree(p) \/ Unregister(p)) /\ ~NextUse(p)
      BY <3>5 DEF TypeOK, Goto, Look, Refused, Rmtree, Unregister
    <3> QED
      BY <1>2, <3>1, <3>2, <3>3, <3>4, <3>5 DEF Go
  <2> QED
    BY <2>1, <2>2
<1>3. ASSUME NEW p \in Procs, Mark(p) \/ Return(p) \/ JobDone(p)
      PROVE  UNCHANGED procVars
  BY <1>3 DEF Mark, MarkBegin, MarkOpen, MarkWrite, Return, JobDone
<1>4. ASSUME NEW c \in Cleaners, Sweep(c)
      PROVE  UNCHANGED procVars
  BY <1>4 DEF Sweep, SweepList, SweepTimestamp, SweepJobid, SweepJudge, SweepUnlink, SweepRmdir
<1> QED
  BY <1>1, <1>2, <1>3, <1>4 DEF Next, vars, Tick

\* The types and the uses together, for any step.
LEMMA TypesKept ==
  ASSUME TypeOK, UsesInv, [Next]_vars
  PROVE  TypeOK' /\ UsesInv'
<1>1. CASE UNCHANGED vars
  <2>1. DirTypeOK'
    BY <1>1, DirTypes DEF vars
  <2>2. UsesInv'
    BY <1>1, UsesKept
  <2> QED
    BY <1>1, <2>1, <2>2 DEF TypeOK, vars, procVars, markVars, jobVars, sweepVars
<1> QED
  BY <1>1, SweepTypes, TickTypes, GoTypes, OtherTypes, UsesKept DEF Next

LEMMA InitTypes == Init => TypeOK /\ UsesInv
BY MaxAgeIsNat, LockAssumption
   DEF Init, TypeOK, DirTypeOK, UsesInv, Acquiring, Releasing, Labels, Files

(***************************************************************************)
(* Every variable of CentralResource keeps its type, with or without       *)
(* timeouts and cleaners; among others no process exceeds its uses.        *)
(***************************************************************************)
THEOREM LockTypes == Spec => []TypeOK
<1>1. TypeOK /\ UsesInv /\ [Next]_vars => (TypeOK /\ UsesInv)'
  BY TypesKept
<1> QED
  BY <1>1, InitTypes, PTL DEF Spec

-----------------------------------------------------------------------------
\* The steps of one process.
ProcStep(p) == \/ Mkdir(p) \/ Go(p) \/ Mark(p) \/ Release(p) \/ Exit(p)
               \/ ExitKeeping(p) \/ Return(p) \/ Crash(p) \/ JobDone(p)

\* What the steps may do to the directory: only time makes a timestamp older, and
\* files are put into a directory that is there.
InPlace == /\ age' \in {age, 0}
           /\ files' = {} \/ (maker' = maker /\ (files' \subseteq files \/ Exists))

LEMMA ProcInPlace ==
  ASSUME NEW p \in Procs, ProcStep(p)
  PROVE  InPlace
<1>1. CASE Mkdir(p) \/ Rmtree(p) \/ MkdirAgain(p) \/ ReleaseRmdir(p)
  BY <1>1 DEF InPlace, Mkdir, Rmtree, MkdirAgain, ReleaseRmdir, Made, NewDir, dirVars
<1>2. CASE WriteId(p) \/ WriteTimestamp(p) \/ WriteJobid(p)
  BY <1>2 DEF InPlace, WriteId, WriteTimestamp, WriteJobid, Put
<1>3. CASE ReleaseUnlink(p)
  BY <1>3 DEF InPlace, ReleaseUnlink, Unlink
<1>4. CASE Mark(p)
  BY <1>4 DEF InPlace, Mark, MarkBegin, MarkOpen, MarkWrite, dirVars
<1>5. CASE Look(p) \/ Unregister(p) \/ Release(p) \/ Exit(p) \/ ExitKeeping(p) \/ Return(p)
           \/ Crash(p) \/ JobDone(p)
  BY <1>5 DEF InPlace, Look, Unregister, Release, Exit, ExitKeeping, Return, Crash,
              JobDone, dirVars
<1> QED
  BY <1>1, <1>2, <1>3, <1>4, <1>5 DEF ProcStep, Go

LEMMA SweepInPlace ==
  ASSUME NEW c \in Cleaners, Sweep(c)
  PROVE  InPlace /\ UNCHANGED <<procVars, markVars, jobVars>>
<1>1. UNCHANGED <<procVars, markVars, jobVars>>
  BY DEF Sweep, SweepList, SweepTimestamp, SweepJobid, SweepJudge, SweepUnlink, SweepRmdir
<1>2. CASE SweepUnlink(c) \/ SweepRmdir(c)
  BY <1>2 DEF InPlace, SweepUnlink, SweepRmdir, Unlink, NewDir, dirVars
<1>3. CASE ~(SweepUnlink(c) \/ SweepRmdir(c))
  BY <1>3 DEF InPlace, Sweep, SweepList, SweepTimestamp, SweepJobid, SweepJudge, dirVars
<1> QED
  BY <1>1, <1>2, <1>3

\* A mark round that refreshed the timestamp left it at age 0.
LEMMA AgeKept ==
  ASSUME TypeOK, AgeInv, [Next]_vars
  PROVE  AgeInv'
<1>1. ASSUME NEW p \in Procs, ProcStep(p), ~Mark(p) PROVE AgeInv'
  <2>1. marked' = marked /\ \E l \in {"dead", "gone"} :
           UNCHANGED marker \/ marker' = [marker EXCEPT ![p] = l]
    BY <1>1 DEF ProcStep, Go, Mkdir, Look, Rmtree, MkdirAgain, ReleaseUnlink, ReleaseRmdir,
       Unregister, WriteId, WriteTimestamp, WriteJobid, Release, Exit, ExitKeeping,
       Return, Crash, JobDone, EndMarking, markVars
  <2>2. \A q \in Procs : marker'[q] = "write" => marker[q] = "write"
    BY <2>1 DEF TypeOK
  <2> QED
    BY <1>1, <2>1, <2>2, ProcInPlace DEF AgeInv, InPlace, Exists
<1>2. ASSUME NEW p \in Procs, Mark(p) PROVE AgeInv'
  <2>1. InPlace
    BY <1>2, ProcInPlace DEF ProcStep
  <2>2. CASE MarkBegin(p)
    BY <2>2 DEF AgeInv, MarkBegin, TypeOK, dirVars, Exists
  <2>3. CASE MarkOpen(p)
    BY <2>1, <2>3 DEF AgeInv, InPlace, MarkOpen, TypeOK, dirVars, Exists
  <2>4. CASE MarkWrite(p)
    BY <2>1, <2>4 DEF AgeInv, InPlace, MarkWrite, TypeOK, Exists
  <2> QED
    BY <1>2, <2>2, <2>3, <2>4 DEF Mark
<1>3. ASSUME NEW c \in Cleaners, Sweep(c) PROVE AgeInv'
  BY <1>3, SweepInPlace DEF AgeInv, InPlace, markVars, Exists
<1>4. CASE Tick
  BY <1>4 DEF AgeInv, Tick, Prompt, InRound, Exists
<1>5. CASE UNCHANGED vars
  BY <1>5 DEF AgeInv, vars, dirVars, markVars, Exists
<1> QED
  BY <1>1, <1>2, <1>3, <1>4, <1>5 DEF Next, ProcStep

\* The end of a process is final, and so is that of its mark thread.
LEMMA ProcEnds ==
  ASSUME TypeOK, EndInv, NEW p \in Procs, ProcStep(p)
  PROVE  EndInv' /\ (Faultless' => Faultless)
<1> USE DEF Goto
<1>1. CASE Crash(p)
  <2>1. \A q \in Procs \ {p} : pc'[q] = pc[q] /\ marker'[q] = marker[q]
    BY <1>1 DEF Crash, EndMarking, TypeOK
  <2>2. pc'[p] = "killed" /\ done' = done /\ crashes' > 0 /\ crashes' >= crashes
    BY <1>1, LockAssumption DEF Crash, TypeOK
  <2>3. crashes' # 0
    BY <2>2
  <2> QED
    BY <2>1, <2>2, <2>3 DEF EndInv, Faultless
<1>2. CASE JobDone(p)
  <2>1. \A q \in Procs : /\ marker'[q] = marker[q] \/ q = p
                         /\ marker[q] = "dead" => marker'[q] = "dead"
    BY <1>2 DEF JobDone, EndMarking, TypeOK
  <2>2. /\ pc' = pc /\ done' = done \cup {p} /\ pc[p] \in {"over", "kept", "killed"}
        /\ crashes' = crashes
    BY <1>2 DEF JobDone, procVars
  <2> QED
    BY <2>1, <2>2 DEF EndInv, Faultless
<1>3. CASE Mark(p)
  <2>1. UNCHANGED <<pc, done, crashes>>
    BY <1>3 DEF Mark, MarkBegin, MarkOpen, MarkWrite, procVars, jobVars
  <2>2. \A q \in Procs : /\ marker[q] = "dead" => marker'[q] = "dead"
                         /\ marker'[q] = "gone" => marker[q] = "gone"
    BY <1>3 DEF Mark, MarkBegin, MarkOpen, MarkWrite, Due, TypeOK
  <2> QED
    BY <2>1, <2>2 DEF EndInv, Faultless
<1>4. CASE ~(Crash(p) \/ JobDone(p) \/ Mark(p))
  <2>1. UNCHANGED <<marker, done, crashes>>
    BY <1>4 DEF ProcStep, Go, Mkdir, Look, Rmtree, MkdirAgain, ReleaseUnlink, ReleaseRmdir,
       Unregister, WriteId, WriteTimestamp, WriteJobid, Release, Exit, ExitKeeping,
       Return, markVars, jobVars
  <2>2. \A q \in Procs : /\ pc[q] \in {"over", "kept", "killed"} => pc'[q] = pc[q]
                         /\ pc'[q] = "killed" => pc[q] = "killed"
    <3>1. CASE ReleaseUnlink(p)
      BY <3>1 DEF ReleaseUnlink, After, TypeOK, Files
    <3>2. CASE ~ReleaseUnlink(p)
      BY <1>4, <3>2 DEF ProcStep, Go, Mkdir, Made, Look, Refused, Rmtree, MkdirAgain, ReleaseRmdir,
         Unregister, NextUse, WriteId, WriteTimestamp, WriteJobid, Release, Exit,
         ExitKeeping, Return, TypeOK, procVars
    <3> QED
      BY <3>1, <3>2
  <2> QED
    BY <2>1, <2>2 DEF EndInv, Faultless
<1> QED
  BY <1>1, <1>2, <1>3, <1>4

LEMMA EndsStay ==
  ASSUME TypeOK, EndInv, [Next]_vars
  PROVE  EndInv' /\ (Faultless' => Faultless)
<1>1. ASSUME UNCHANGED <<pc, marker, done, crashes>>
      PROVE  EndInv' /\ (Faultless' => Faultless)
  BY <1>1 DEF EndInv, Faultless
<1>2. ASSUME NEW c \in Cleaners, Sweep(c)
      PROVE  UNCHANGED <<pc, marker, done, crashes>>
  BY <1>2, SweepInPlace DEF procVars, markVars, jobVars
<1>3. Tick \/ UNCHANGED vars => UNCHANGED <<pc, marker, done, crashes>>
  BY DEF Tick, vars, procVars, markVars, jobVars
<1> QED
  BY <1>1, <1>2, <1>3, ProcEnds DEF Next, ProcStep

-----------------------------------------------------------------------------
\* A lock that nobody has a reason to break has one owner.
LEMMA OneOwner ==
  ASSUME LockInv, NEW p \in Procs, NEW q \in Procs, Owning(p), Owning(q)
  PROVE  p = q
BY DEF LockInv, LockGood

\* While a process runs its callbacks nobody begins a mark round.
LEMMA NoMarkAtExit ==
  ASSUME TypeOK, LockInv, NEW p \in Procs, p \in exiting, pc[p] \in Releasing,
         NEW q \in Procs
  PROVE  ~MarkBegin(q) /\ ~MarkOpen(q) /\ ~MarkWrite(q)
<1>1. ~InRound(q)
  BY DEF LockInv, LockGood, Leaving
<1>2. ASSUME MarkBegin(q) PROVE FALSE
  <2>1. q \in locked /\ pc[q] # "killed" /\ pc[q] \in Labels
    BY <1>2 DEF MarkBegin, Due, Alive, TypeOK
  <2>2. Owning(q) /\ Owning(p)
    BY <2>1 DEF LockInv, LockGood, Object, Owning, Without, Labels
  <2>3. q = p
    BY <2>2, OneOwner
  <2> QED
    BY <1>2, <2>3 DEF MarkBegin, Callbacks, Releasing, Files
<1> QED
  BY <1>1, <1>2 DEF InRound, MarkOpen, MarkWrite

\* What a step leaves alone of another process.
Bystander(q) == /\ pc'[q] = pc[q]
                /\ q \in locked' <=> q \in locked
                /\ q \in resHeld' <=> q \in resHeld
                /\ q \in exiting' <=> q \in exiting
                /\ q \in lent' <=> q \in lent

\* A process is left in order by a step of another one that leaves the
\* directory alone, owns it, makes it, or puts a timestamp into it.
LEMMA Others ==
  ASSUME TypeOK, LockInv, NEW p \in Procs, NEW q \in Procs, q # p, Bystander(q),
         \/ UNCHANGED <<maker, files, job>>
         \/ Owning(p) /\ maker' \in {maker, NoProc}
         \/ maker = NoProc /\ maker' = p
         \/ /\ UNCHANGED <<maker, job>> /\ files' = files \cup {"timestamp"}
            /\ ~(q \in exiting /\ pc[q] \in Releasing),
         q \in exiting /\ pc[q] \in Releasing => \A r \in Procs : ~InRound(r)'
  PROVE  LockGood(q)'
<1>1. LockGood(q)
  BY DEF LockInv
<1>2. Object(q)'
  BY <1>1 DEF LockGood, Object, Owning, Bystander
<1>3. q # NoProc
  BY LockAssumption
<1>4. CASE ~Owning(q)
  <2>1. ~Owning(q)' /\ Written(q)' /\ Leaving(q)'
    BY <1>4 DEF Owning, Written, Leaving, Bystander
  <2>2. maker' \in {maker, NoProc, p}
    OBVIOUS
  <2> QED
    BY <1>1, <1>2, <1>3, <2>1, <2>2 DEF LockGood, Bystander
<1>5. CASE Owning(q)
  <2>1. maker = q /\ ~Owning(p)
    BY <1>1, <1>5, OneOwner DEF LockGood
  <2>2. maker' = q /\ job' = job /\ files \subseteq files'
    BY <1>3, <2>1
  <2>3. Written(q)'
    BY <1>1, <2>2 DEF LockGood, Written, Bystander
  <2>4. Leaving(q)'
    <3>1. CASE ~(q \in exiting /\ pc[q] \in Releasing)
      BY <3>1 DEF Leaving, Bystander
    <3>2. CASE q \in exiting /\ pc[q] \in Releasing
      <4>1. files' = files
        BY <1>3, <2>1, <3>2
      <4> QED
        BY <1>1, <3>2, <4>1 DEF LockGood, Leaving, Bystander
    <3> QED
      BY <3>1, <3>2
  <2>5. pc'[q] \notin Without
    BY <1>5 DEF Owning, Without, Bystander, Releasing, Files
  <2> QED
    BY <1>2, <2>2, <2>3, <2>4, <2>5 DEF LockGood
<1> QED
  BY <1>4, <1>5

\* Nobody is about to break the lock.
LEMMA NeverBroken ==
  ASSUME LockInv, NEW p \in Procs
  PROVE  ~Rmtree(p) /\ ~MkdirAgain(p)
BY DEF LockInv, LockGood, Object, Rmtree, MkdirAgain

\* A waiter that looks at the age of the lock finds it young, or unreadable.
LEMMA LookAndWait ==
  ASSUME TypeOK, LockInv, Young, NEW p \in Procs, Look(p)
  PROVE  /\ pc[p] = "look" /\ pc' = [pc EXCEPT ![p] = "idle"] /\ Timed
         /\ resHeld' \in {resHeld, resHeld \cup {p}}
         /\ UNCHANGED <<dirVars, locked, exiting, markVars, jobVars>>
<1>1. pc[p] = "look" /\ Timed
  BY DEF LockInv, LockGood, Object, Look
<1>2. ~MayBeStale
  BY <1>1, LockAssumption, MaxAgeIsNat DEF Young, Timed, MayBeStale, TypeOK, DirTypeOK
<1> QED
  BY <1>1, <1>2 DEF Look, Refused, NextUse, Goto

\* A step of one process leaves the others as they are.
LEMMA StepsApart ==
  ASSUME TypeOK, LockInv, Young, NEW p \in Procs, ProcStep(p), NEW q \in Procs, q # p
  PROVE  Bystander(q)
<1> USE DEF Goto
<1>1. pc'[q] = pc[q]
  BY NeverBroken, LookAndWait DEF TypeOK, ProcStep, Go, Mark, Mkdir, Made, ReleaseUnlink, ReleaseRmdir,
     Unregister, NextUse, WriteId, WriteTimestamp, WriteJobid, MarkBegin, MarkOpen, MarkWrite,
     Release, Exit, ExitKeeping, Return, Crash, JobDone, procVars
<1>2. (q \in locked' <=> q \in locked) /\ (q \in resHeld' <=> q \in resHeld)
  <2>1. CASE Look(p)
    BY <2>1, LookAndWait
  <2>2. CASE ~Look(p)
    BY <2>2, NeverBroken DEF ProcStep, Go, Mark, Mkdir, Made, ReleaseUnlink, ReleaseRmdir,
       Unregister, NextUse, WriteId, WriteTimestamp, WriteJobid, MarkBegin, MarkOpen, MarkWrite,
       Release, Exit, ExitKeeping, Return, Crash, JobDone, procVars
  <2> QED
    BY <2>1, <2>2
<1>3. (q \in exiting' <=> q \in exiting) /\ (q \in lent' <=> q \in lent)
  BY NeverBroken, LookAndWait DEF ProcStep, Go, Mark, Mkdir, ReleaseUnlink, ReleaseRmdir,
     Unregister, WriteId, WriteTimestamp, WriteJobid, MarkBegin, MarkOpen, MarkWrite,
     Release, Exit, ExitKeeping, Return, Crash, JobDone, procVars, jobVars
<1> QED
  BY <1>1, <1>2, <1>3 DEF Bystander

\* What a process that runs its callbacks has unlinked stays away: no mark round
\* begins, its own or another's.
LEMMA StillNoRound ==
  ASSUME TypeOK, LockInv, NEW p \in Procs, ProcStep(p),
         NEW q \in Procs, q \in exiting, pc[q] \in Releasing,
         NEW r \in Procs
  PROVE  ~InRound(r)'
<1>1. ~InRound(r)
  BY DEF LockInv, LockGood, Leaving
<1>2. ~Mark(p)
  BY NoMarkAtExit DEF Mark
<1>3. UNCHANGED marker \/ \E m \in {"dead", "gone"} : marker' = [marker EXCEPT ![p] = m]
  BY <1>2 DEF ProcStep, Go, Mkdir, Look, Rmtree, MkdirAgain, ReleaseUnlink, ReleaseRmdir,
     Unregister, WriteId, WriteTimestamp, WriteJobid, Release, Exit, ExitKeeping,
     Return, Crash, JobDone, EndMarking, markVars
<1> QED
  BY <1>1, <1>3 DEF InRound, TypeOK

\* What a step of one process may do to the directory.
LEMMA DirSteps ==
  ASSUME TypeOK, LockInv, Young, NEW p \in Procs, ProcStep(p), NEW q \in Procs, q # p
  PROVE  \/ UNCHANGED <<maker, files, job>>
         \/ Owning(p) /\ maker' \in {maker, NoProc}
         \/ maker = NoProc /\ maker' = p
         \/ /\ UNCHANGED <<maker, job>> /\ files' = files \cup {"timestamp"}
            /\ ~(q \in exiting /\ pc[q] \in Releasing)
<1>1. CASE Mkdir(p)
  BY <1>1 DEF Mkdir, Vacant, Exists, Made, NewDir, dirVars
<1>2. CASE WriteId(p) \/ WriteTimestamp(p) \/ WriteJobid(p)
  BY <1>2 DEF WriteId, WriteTimestamp, WriteJobid, Owning
<1>3. CASE ReleaseUnlink(p)
  BY <1>3 DEF ReleaseUnlink, Unlink, Owning, Releasing
<1>4. CASE ReleaseRmdir(p)
  BY <1>4 DEF ReleaseRmdir, NewDir, Owning, Releasing, dirVars
<1>5. CASE MarkOpen(p)
  BY <1>5, NoMarkAtExit DEF MarkOpen, dirVars
<1>6. CASE MarkBegin(p) \/ MarkWrite(p)
  BY <1>6 DEF MarkBegin, MarkWrite, dirVars
<1>8. CASE Look(p)
  BY <1>8, LookAndWait DEF dirVars
<1>7. CASE Unregister(p) \/ Release(p) \/ Exit(p) \/ ExitKeeping(p) \/ Return(p)
           \/ Crash(p) \/ JobDone(p)
  BY <1>7 DEF Unregister, Release, Exit, ExitKeeping, Return, Crash, JobDone, dirVars
<1> QED
  BY <1>1, <1>2, <1>3, <1>4, <1>5, <1>6, <1>7, <1>8, NeverBroken DEF ProcStep, Go, Mark

\* Together: a step of one process leaves every other one in order.
LEMMA OthersKept ==
  ASSUME TypeOK, LockInv, Young, NEW p \in Procs, ProcStep(p), NEW q \in Procs, q # p
  PROVE  LockGood(q)'
BY StepsApart, StillNoRound, DirSteps, Others

\* acquire() leaves the process that runs it in order.
LEMMA AcquireKept ==
  ASSUME TypeOK, LockInv, Young, NEW p \in Procs,
         Mkdir(p) \/ Look(p) \/ WriteId(p) \/ WriteTimestamp(p) \/ WriteJobid(p)
  PROVE  LockGood(p)'
<1> USE DEF Goto, Releasing, Files, Without
<1>1. LockGood(p) /\ pc \in [Procs -> Labels] /\ p # NoProc
  BY LockAssumption DEF LockInv, TypeOK
<1>5. CASE Look(p)
  <2>1. /\ pc[p] = "look" /\ pc'[p] = "idle"
        /\ UNCHANGED <<maker, locked, exiting, lent>>
    BY <1>1, <1>5, LookAndWait DEF dirVars, jobVars
  <2> QED
    BY <1>1, <2>1 DEF LockGood, Object, Written, Leaving, Owning
<1>6. CASE Mkdir(p) /\ ~Vacant
  <2>1. /\ pc[p] = "idle" /\ pc'[p] = "look" /\ Timed
        /\ UNCHANGED <<maker, locked, exiting, lent>>
    BY <1>1, <1>6 DEF Mkdir, dirVars, jobVars
  <2> QED
    BY <1>1, <2>1 DEF LockGood, Object, Written, Leaving, Owning
<1>2. CASE Mkdir(p) /\ Vacant
  <2>1. /\ pc'[p] = "write id" /\ p \in locked' /\ maker' = p
        /\ pc[p] = "idle" /\ UNCHANGED <<exiting, lent>>
    BY <1>1, <1>2 DEF Mkdir, Made, NewDir, jobVars
  <2> QED
    BY <1>1, <2>1 DEF LockGood, Object, Written, Leaving, Owning
<1>3. CASE WriteId(p) \/ WriteTimestamp(p)
  <2>1. maker = p /\ Exists /\ p \notin lent
    BY <1>1, <1>3 DEF LockGood, Object, Owning, WriteId, WriteTimestamp, Exists
  <2>2. UNCHANGED <<maker, job, locked, resHeld, exiting, lent>>
    BY <1>3 DEF WriteId, WriteTimestamp, jobVars
  <2>3. \/ pc[p] = "write id" /\ pc'[p] = "write timestamp" /\ files' = files \cup {"id"}
        \/ /\ pc[p] = "write timestamp" /\ pc'[p] = "write jobid"
           /\ files' = files \cup {"timestamp"}
    BY <1>1, <1>3, <2>1 DEF WriteId, WriteTimestamp, Put
  <2> QED
    BY <1>1, <2>1, <2>2, <2>3 DEF LockGood, Object, Written, Leaving, Owning
<1>4. CASE WriteJobid(p)
  <2>1. maker = p /\ Exists /\ p \notin lent
    BY <1>1, <1>4 DEF LockGood, Object, Owning, WriteJobid, Exists
  <2>2. /\ UNCHANGED <<maker, locked, exiting, lent>> /\ p \in resHeld'
        /\ pc[p] = "write jobid" /\ pc'[p] = "held" /\ files' = files \cup {"jobid"}
        /\ job' = p
    BY <1>1, <1>4, <2>1 DEF WriteJobid, Put, jobVars
  <2>3. p \in locked
    BY <2>2, <1>1 DEF LockGood, Object, Owning
  <2> QED
    BY <1>1, <2>1, <2>2, <2>3 DEF LockGood, Object, Written, Leaving, Owning
<1> QED
  BY <1>2, <1>3, <1>4, <1>5, <1>6

\* So does release(), with the callbacks at the end of the process or without:
\* with them, rmdir finds the directory empty.
LEMMA ReleaseKept ==
  ASSUME TypeOK, LockInv, NEW p \in Procs,
         Release(p) \/ ReleaseUnlink(p) \/ ReleaseRmdir(p) \/ Unregister(p)
  PROVE  LockGood(p)'
<1> USE DEF Goto, Releasing, Files, Without
<1>1. LockGood(p) /\ pc \in [Procs -> Labels] /\ p # NoProc /\ files \subseteq Files
  BY LockAssumption DEF LockInv, TypeOK, DirTypeOK
<1>2. CASE Release(p)
  <2>1. /\ UNCHANGED <<maker, files, job, locked, resHeld, exiting, lent>>
        /\ pc[p] = "held" /\ pc'[p] = "jobid" /\ UNCHANGED marker
    BY <1>1, <1>2 DEF Release, dirVars, jobVars, markVars
  <2>2. p \notin exiting
    BY <1>1, <2>1 DEF LockGood, Object
  <2> QED
    BY <1>1, <2>1, <2>2 DEF LockGood, Object, Written, Leaving, Owning
<1>3. CASE ReleaseUnlink(p)
  <2>1. /\ UNCHANGED <<maker, locked, resHeld, exiting, lent, marker>>
        /\ files' = files \ {pc[p]} /\ pc[p] \in Files /\ pc'[p] = After(pc[p])
    BY <1>1, <1>3 DEF ReleaseUnlink, Unlink, jobVars, markVars
  <2>2. Leaving(p)'
    BY <1>1, <2>1 DEF LockGood, Leaving, InRound, After
  <2>3. Object(p)' /\ Written(p)' /\ maker' = p /\ pc'[p] \in Releasing
    BY <1>1, <2>1 DEF LockGood, Object, Written, Owning, After
  <2> QED
    BY <2>2, <2>3 DEF LockGood
<1>4. CASE ReleaseRmdir(p)
  <2>1. pc[p] = "rmdir" /\ maker = p /\ UNCHANGED <<exiting, lent>> /\ p \notin lent
    BY <1>1, <1>4 DEF ReleaseRmdir, LockGood, Owning, Object, jobVars
  <2>2. CASE Removable
    <3>1. maker' = NoProc /\ p \notin locked'
          /\ pc'[p] = IF p \in exiting THEN "over" ELSE "unregister"
      BY <1>1, <1>4, <2>2 DEF ReleaseRmdir, NewDir
    <3> QED
      BY <1>1, <2>1, <3>1 DEF LockGood, Object, Written, Leaving, Owning
  <2>3. CASE ~Removable
    <3>1. p \notin exiting
      BY <1>1, <2>1, <2>3 DEF LockGood, Leaving, Removable, Exists
    <3>2. pc'[p] = "stuck" /\ UNCHANGED <<maker, locked, resHeld>>
      BY <1>1, <1>4, <2>3, <3>1 DEF ReleaseRmdir, dirVars
    <3> QED
      BY <1>1, <2>1, <3>1, <3>2 DEF LockGood, Object, Written, Leaving, Owning
  <2> QED
    BY <2>2, <2>3
<1>5. CASE Unregister(p)
  <2>1. /\ pc[p] = "unregister" /\ pc'[p] = "idle"
        /\ UNCHANGED <<maker, locked, exiting, lent>>
    BY <1>1, <1>5 DEF Unregister, NextUse, dirVars, jobVars
  <2> QED
    BY <1>1, <2>1 DEF LockGood, Object, Written, Leaving, Owning
<1> QED
  BY <1>2, <1>3, <1>4, <1>5

\* So do the ends of a process, and a set-up that is given back.
LEMMA EndKept ==
  ASSUME TypeOK, LockInv, NEW p \in Procs,
         Exit(p) \/ ExitKeeping(p) \/ Return(p) \/ Crash(p) \/ JobDone(p)
  PROVE  LockGood(p)'
<1> USE DEF Goto, Releasing, Files, Without
<1>1. LockGood(p) /\ pc \in [Procs -> Labels] /\ UNCHANGED <<maker, files, job, locked, resHeld>>
  BY DEF LockInv, TypeOK, Exit, ExitKeeping, Return, Crash, JobDone, dirVars, procVars
<1>2. CASE Exit(p)
  <2>1. /\ pc[p] \in {"idle", "held", "stuck"} /\ p \in exiting' /\ lent' = lent
        /\ pc'[p] = IF p \in locked \cap resHeld THEN "jobid" ELSE "over"
    BY <1>1, <1>2 DEF Exit, jobVars
  <2>2. \A q \in Procs : ~InRound(q)'
    BY <1>2 DEF Exit, Settled, InRound, markVars
  <2>3. (p \in locked \cap resHeld) <=> pc[p] # "idle"
    BY <1>1, <2>1 DEF LockGood, Object, Owning
  <2> QED
    BY <1>1, <2>1, <2>2, <2>3 DEF LockGood, Object, Written, Leaving, Owning
<1>3. CASE ExitKeeping(p)
  <2>1. pc[p] = "held" /\ pc'[p] = "kept" /\ ~Timed
    BY <1>1, <1>3 DEF ExitKeeping
  <2> QED
    BY <1>1, <2>1 DEF Timed, LockGood, Object, Written, Leaving, Owning
<1>4. CASE Return(p)
  <2>1. pc'[p] = pc[p] /\ lent' \subseteq lent /\ UNCHANGED <<exiting, marker>>
    BY <1>4 DEF Return, procVars, markVars
  <2>2. Leaving(p)'
    BY <1>1, <2>1 DEF LockGood, Leaving, InRound
  <2> QED
    BY <1>1, <2>1, <2>2 DEF LockGood, Object, Written, Owning
<1>5. CASE Crash(p)
  <2>1. pc[p] # "kept" /\ pc'[p] = "killed" /\ lent' = lent
    BY <1>1, <1>5 DEF Crash
  <2> QED
    BY <1>1, <2>1 DEF LockGood, Object, Written, Leaving, Owning
<1>6. CASE JobDone(p)
  <2>1. /\ pc[p] \in {"over", "kept", "killed"} /\ pc'[p] = pc[p]
        /\ UNCHANGED <<exiting, lent>>
    BY <1>6 DEF JobDone, procVars
  <2> QED
    BY <1>1, <2>1 DEF LockGood, Object, Written, Leaving, Owning
<1> QED
  BY <1>2, <1>3, <1>4, <1>5, <1>6

\* So does a round of its mark thread.
LEMMA MarkKept ==
  ASSUME TypeOK, LockInv, NEW p \in Procs, Mark(p)
  PROVE  LockGood(p)'
<1>1. LockGood(p) /\ ~(p \in exiting /\ pc[p] \in Releasing)
  BY NoMarkAtExit DEF LockInv, Mark
<1>2. UNCHANGED <<maker, job, procVars, jobVars>> /\ files \subseteq files'
  BY DEF Mark, MarkBegin, MarkOpen, MarkWrite, dirVars
<1> QED
  BY <1>1, <1>2 DEF LockGood, Object, Written, Leaving, Owning, procVars, jobVars

\* Every step keeps the lock in order.
LEMMA LockKept ==
  ASSUME Cleaners = {}, TypeOK, LockInv, Young, [Next]_vars
  PROVE  LockInv'
<1>1. ASSUME NEW p \in Procs, ProcStep(p) PROVE LockInv'
  <2>1. LockGood(p)'
    BY <1>1, NeverBroken, AcquireKept, ReleaseKept, EndKept, MarkKept DEF ProcStep, Go
  <2>2. \A q \in Procs \ {p} : LockGood(q)'
    BY <1>1, OthersKept
  <2> QED
    BY <2>1, <2>2 DEF LockInv
<1>2. CASE UNCHANGED <<maker, files, job, pc, locked, resHeld, exiting, lent, marker>>
  BY <1>2 DEF LockInv, LockGood, Object, Written, Leaving, Owning, InRound
<1>3. Tick \/ UNCHANGED vars =>
        UNCHANGED <<maker, files, job, pc, locked, resHeld, exiting, lent, marker>>
  BY DEF Tick, vars, dirVars, procVars, markVars, jobVars
<1> QED
  BY <1>1, <1>2, <1>3 DEF Next, ProcStep

(***************************************************************************)
(* Why no waiter finds the lock old: whoever has it refreshed it since the *)
(* last minute passed, or the next minute does not pass before it does.    *)
(***************************************************************************)
LEMMA YoungKept ==
  ASSUME TypeOK, AgeInv, EndInv, LockInv, Young, Timed => Faultless, [Next]_vars
  PROVE  Young'
<1>1. CASE age' \in {age, 0}
  BY <1>1 DEF Young, Timed
<1>2. CASE Tick
  <2>1. CASE ~Timed \/ ~Readable
    BY <1>2, <2>1 DEF Young, Timed, Tick, Older
  <2>2. CASE Timed /\ Readable
    <3>1. PICK p \in Procs : maker = p
      BY <2>2 DEF Readable, AgeInv, Exists, TypeOK, DirTypeOK
    <3>2. Prompt(p) /\ ~Due(p)
      BY <1>2 DEF Tick
    <3>3. pc[p] \in {"held", "stuck"}
      BY <2>2, <3>1, <3>2 DEF LockInv, LockGood, Object, Without, EndInv, Faultless, Prompt
    <3>4. p \in locked \cap resHeld /\ Alive(p)
      BY <3>3 DEF LockInv, LockGood, Object, Owning, EndInv, Alive
    <3>5. marker[p] = "sleep"
      BY <2>2, <3>2, <3>3 DEF TypeOK, EndInv, Faultless, Prompt, InRound
    <3>6. age = 0
      BY <3>2, <3>4, <3>5 DEF Due, AgeInv
    <3> QED
      BY <1>2, <3>6 DEF Young, Tick, Older
  <2> QED
    BY <2>1, <2>2
<1>3. age' \in {age, 0} \/ Tick
  BY ProcInPlace, SweepInPlace DEF Next, ProcStep, InPlace, vars, dirVars
<1> QED
  BY <1>1, <1>2, <1>3

\* In the beginning there is no lock.
LEMMA InitLock == Init => LockInv /\ AgeInv /\ EndInv /\ Young
<1>1. \A p \in Procs : p # NoProc
  BY LockAssumption
<1> QED
  BY <1>1 DEF Init, LockInv, LockGood, Object, Written, Leaving, Owning, Without, Releasing, Files,
              AgeInv, EndInv, Young, Exists

\* The invariant holds while no cleaner runs.
LEMMA LockInvariant ==
  ASSUME Cleaners = {}
  PROVE  Spec => []IInv
<1>1. Init => IInv
  BY InitTypes, InitLock DEF IInv
<1>2. IInv /\ [Next]_vars => IInv'
  <2> SUFFICES ASSUME IInv, [Next]_vars PROVE IInv'
    OBVIOUS
  <2>1. /\ TypeOK' /\ UsesInv' /\ AgeInv' /\ EndInv'
        /\ Faultless' => Faultless
    BY TypesKept, AgeKept, EndsStay DEF IInv
  <2>2. Unbroken' => Unbroken
    BY <2>1 DEF Unbroken, Timed
  <2>3. Unbroken => LockInv' /\ Young'
    BY LockKept, YoungKept DEF IInv, Unbroken
  <2> QED
    BY <2>1, <2>2, <2>3 DEF IInv
<1> QED
  BY <1>1, <1>2, PTL DEF Spec

\* What the invariant says of those who rely on the lock.
LEMMA HolderAndExit ==
  ASSUME IInv, Unbroken
  PROVE  HolderOnDisk /\ ExitLeavesNothing
<1>1. HolderOnDisk
  <2> SUFFICES ASSUME NEW p \in Procs, Keeps(p)
               PROVE  /\ maker = p /\ files = Files /\ job = p
                      /\ \A q \in Procs : Keeps(q) => q = p
    BY DEF HolderOnDisk
  <2>1. ASSUME NEW q \in Procs, Keeps(q)
        PROVE  pc[q] \in {"held", "kept"} /\ maker = q /\ LockGood(q)
    BY <2>1 DEF IInv, LockInv, LockGood, Object, Owning, Keeps
  <2>2. files = Files /\ job = p
    BY <2>1 DEF LockGood, Written, Files, IInv, TypeOK, DirTypeOK
  <2> QED
    BY <2>1, <2>2
<1>2. ExitLeavesNothing
  BY DEF IInv, LockInv, LockGood, Without, ExitLeavesNothing
<1> QED
  BY <1>1, <1>2

(***************************************************************************)
(* A lock of a resource pool has one holder at a time, a running test or   *)
(* a person left with a set-up, and its directory names that holder and    *)
(* its job, for any number of harnesses, crashes and uses, as long as no   *)
(* cleaner runs.                                                           *)
(***************************************************************************)
THEOREM HolderSafe ==
  ASSUME Timeout = 0, Cleaners = {}
  PROVE  Spec => []HolderOnDisk
<1>1. IInv => HolderOnDisk
  BY HolderAndExit DEF Unbroken, Timed
<1> QED
  BY <1>1, LockInvariant, PTL

(***************************************************************************)
(* A process that ended by itself leaves no pool lock behind, whatever its *)
(* mark thread did to the directory while a release() was unlinking it.    *)
(***************************************************************************)
THEOREM ExitClean ==
  ASSUME Timeout = 0, Cleaners = {}
  PROVE  Spec => []ExitLeavesNothing
<1>1. IInv => ExitLeavesNothing
  BY HolderAndExit DEF Unbroken, Timed
<1> QED
  BY <1>1, LockInvariant, PTL

(***************************************************************************)
(* A lock with a timeout is never broken under its holder, nor left behind *)
(* by a process that ends, as long as no process was killed and no mark    *)
(* thread was ended by an exception: for any timeout of at least a minute, *)
(* and any number of harnesses and uses, while no cleaner runs.            *)
(***************************************************************************)
THEOREM LockOutlasts ==
  ASSUME Cleaners = {}
  PROVE  Spec => []UnbrokenWhileMarked
<1>1. IInv => UnbrokenWhileMarked
  BY HolderAndExit DEF Unbroken, UnbrokenWhileMarked
<1> QED
  BY <1>1, LockInvariant, PTL

-----------------------------------------------------------------------------
(***************************************************************************)
(* The lock implements PoolLock.                                           *)
(***************************************************************************)
LockVars == <<maker, Users, Ended, Killed>>

\* Only the owner relies on the lock.
LEMMA UsersOwn ==
  ASSUME LockInv
  PROVE  /\ \A p \in Procs : Keeps(p) => maker = p /\ pc[p] \in {"held", "kept"}
         /\ Users \subseteq {maker}
BY DEF LockInv, LockGood, Object, Owning, Keeps, Users

\* A step of one process moves no other in or out of these sets.
LEMMA OwnPlace ==
  ASSUME TypeOK, LockInv, Young, NEW p \in Procs, ProcStep(p)
  PROVE  /\ Users' = IF Keeps(p)' THEN Users \cup {p} ELSE Users \ {p}
         /\ Ended' = IF pc'[p] \in {"over", "kept"} THEN Ended \cup {p} ELSE Ended \ {p}
         /\ Killed' = IF pc'[p] = "killed" THEN Killed \cup {p} ELSE Killed \ {p}
<1>1. \A q \in Procs : q # p => pc'[q] = pc[q] /\ (Keeps(q)' <=> Keeps(q))
  BY StepsApart DEF Bystander, Keeps
<1>2. Users' = IF Keeps(p)' THEN Users \cup {p} ELSE Users \ {p}
  BY <1>1 DEF Users
<1>3. Ended' = IF pc'[p] \in {"over", "kept"} THEN Ended \cup {p} ELSE Ended \ {p}
  BY <1>1 DEF Ended
<1>4. Killed' = IF pc'[p] = "killed" THEN Killed \cup {p} ELSE Killed \ {p}
  BY <1>1 DEF Killed
<1> QED
  BY <1>2, <1>3, <1>4

\* A step that moves its process nowhere is none for those who use the lock.
LEMMA NothingSeen ==
  ASSUME TypeOK, LockInv, Young, NEW p \in Procs, ProcStep(p), maker' = maker,
         Keeps(p)' <=> Keeps(p),
         pc'[p] \in {"over", "kept"} <=> pc[p] \in {"over", "kept"},
         pc'[p] = "killed" <=> pc[p] = "killed"
  PROVE  UNCHANGED LockVars
<1>1. /\ p \in Users <=> Keeps(p)
      /\ p \in Ended <=> pc[p] \in {"over", "kept"}
      /\ p \in Killed <=> pc[p] = "killed"
  BY DEF Users, Ended, Killed
<1> QED
  BY <1>1, OwnPlace DEF LockVars

\* acquire(): mkdir takes the lock, and the last file makes it usable.
LEMMA AcquireImplements ==
  ASSUME TypeOK, LockInv, Young, NEW p \in Procs,
         Mkdir(p) \/ Look(p) \/ WriteId(p) \/ WriteTimestamp(p) \/ WriteJobid(p)
  PROVE  [Lock!Next]_LockVars
<1> USE DEF Goto
<1>1. /\ LockGood(p) /\ pc \in [Procs -> Labels] /\ p # NoProc
      /\ ProcStep(p)
  BY LockAssumption DEF LockInv, TypeOK, ProcStep, Go
<1>5. CASE Look(p)
  <2>1. maker' = maker /\ lent' = lent /\ pc[p] = "look" /\ pc'[p] = "idle"
    BY <1>1, <1>5, LookAndWait DEF dirVars, jobVars
  <2> QED
    BY <1>1, <2>1, NothingSeen DEF Keeps
<1>6. CASE Mkdir(p) /\ ~Vacant
  <2>1. maker' = maker /\ lent' = lent /\ pc[p] = "idle" /\ pc'[p] = "look"
    BY <1>1, <1>6 DEF Mkdir, dirVars, jobVars
  <2> QED
    BY <1>1, <2>1, NothingSeen DEF Keeps
<1>2. CASE Mkdir(p) /\ Vacant
  <2>1. /\ maker = NoProc /\ maker' = p /\ lent' = lent
        /\ pc[p] = "idle" /\ pc'[p] = "write id"
    BY <1>1, <1>2 DEF Mkdir, Vacant, Exists, Made, NewDir, jobVars
  <2>2. ~Keeps(p) /\ ~Keeps(p)'
    BY <1>1, <2>1 DEF Keeps, LockGood, Object
  <2>3. UNCHANGED <<Users, Ended, Killed>> /\ p \notin Ended \cup Killed
    BY <1>1, <2>1, <2>2, OwnPlace DEF Users, Ended, Killed
  <2>4. Lock!Take(p)
    BY <2>1, <2>3 DEF Lock!Take, Lock!Working
  <2> QED
    BY <2>4 DEF Lock!Next
<1>3. CASE WriteId(p) \/ WriteTimestamp(p)
  <2>1. /\ maker' = maker /\ lent' = lent
        /\ pc[p] \in {"write id", "write timestamp"}
        /\ pc'[p] \in {"write timestamp", "write jobid"}
    BY <1>1, <1>3 DEF WriteId, WriteTimestamp, jobVars
  <2> QED
    BY <1>1, <2>1, NothingSeen DEF Keeps
<1>4. CASE WriteJobid(p)
  <2>1. maker' = maker /\ pc[p] = "write jobid" /\ pc'[p] = "held"
    BY <1>1, <1>4 DEF WriteJobid
  <2>2. maker = p /\ ~Keeps(p) /\ Keeps(p)'
    BY <1>1, <2>1 DEF LockGood, Object, Owning, Keeps
  <2>3. Users = {}
    BY <2>2, UsersOwn DEF Users
  <2>4. Users' = {p} /\ UNCHANGED <<Ended, Killed>> /\ p \notin Ended \cup Killed
    BY <1>1, <2>1, <2>2, <2>3, OwnPlace DEF Ended, Killed
  <2>5. Lock!Use(p)
    BY <2>1, <2>2, <2>3, <2>4 DEF Lock!Use, Lock!Working
  <2> QED
    BY <2>5 DEF Lock!Next
<1> QED
  BY <1>2, <1>3, <1>4, <1>5, <1>6

\* release(): the test is done with the lock first, and rmdir gives it back, if
\* it does not fail.
LEMMA ReleaseImplements ==
  ASSUME TypeOK, LockInv, Young, NEW p \in Procs,
         Release(p) \/ ReleaseUnlink(p) \/ ReleaseRmdir(p) \/ Unregister(p)
  PROVE  [Lock!Next]_LockVars
<1> USE DEF Goto, Releasing, Files
<1>1. /\ LockGood(p) /\ pc \in [Procs -> Labels] /\ files \subseteq Files /\ ProcStep(p)
      /\ p # NoProc
  BY LockAssumption DEF LockInv, TypeOK, DirTypeOK, ProcStep, Go
<1>2. CASE Release(p)
  <2>1. maker' = maker /\ lent' = lent /\ pc[p] = "held" /\ pc'[p] = "jobid"
    BY <1>1, <1>2 DEF Release, dirVars, jobVars
  <2>2. ~Keeps(p)'
    BY <1>1, <2>1 DEF LockGood, Object, Keeps
  <2>3. Users' = Users \ {p} /\ UNCHANGED <<Ended, Killed>>
    BY <1>1, <2>1, <2>2, OwnPlace DEF Ended, Killed
  <2>4. Lock!Stop(p)
    BY <2>1, <2>3 DEF Lock!Stop
  <2> QED
    BY <2>4 DEF Lock!Next
<1>3. CASE ReleaseUnlink(p)
  <2>1. /\ maker' = maker /\ lent' = lent
        /\ pc[p] \in Files /\ pc'[p] \in Releasing
    BY <1>1, <1>3 DEF ReleaseUnlink, Unlink, After, jobVars
  <2> QED
    BY <1>1, <2>1, NothingSeen DEF Keeps
<1>4. CASE ReleaseRmdir(p)
  <2>1. pc[p] = "rmdir" /\ maker = p /\ p \notin lent /\ lent' = lent /\ ~Keeps(p)
    BY <1>1, <1>4 DEF ReleaseRmdir, LockGood, Object, Owning, Keeps, jobVars
  <2>2. CASE Removable
    <3>1. maker' = NoProc /\ pc'[p] \in {"over", "unregister"}
      BY <1>1, <1>4, <2>2 DEF ReleaseRmdir, NewDir
    <3>2. Users = {}
      BY <2>1, UsersOwn DEF Users
    <3>3. p \notin Ended \cup Killed
      BY <2>1 DEF Ended, Killed
    <3>4. Users' = Users /\ Ended' \in {Ended, Ended \cup {p}} /\ Killed' = Killed
      BY <1>1, <2>1, <3>1, <3>2, <3>3, OwnPlace DEF Keeps
    <3>5. Lock!Give(p)
      BY <2>1, <3>1, <3>2, <3>3, <3>4 DEF Lock!Give, Lock!Working
    <3> QED
      BY <3>5 DEF Lock!Next
  <2>3. CASE ~Removable
    <3>1. p \notin exiting
      BY <1>1, <2>1, <2>3 DEF LockGood, Leaving, Removable, Exists
    <3>2. pc'[p] = "stuck" /\ maker' = maker
      BY <1>1, <1>4, <2>3, <3>1 DEF ReleaseRmdir, dirVars
    <3> QED
      BY <1>1, <2>1, <3>2, NothingSeen DEF Keeps
  <2> QED
    BY <2>2, <2>3
<1>5. CASE Unregister(p)
  <2>1. maker' = maker /\ lent' = lent /\ pc[p] = "unregister" /\ pc'[p] = "idle"
    BY <1>1, <1>5 DEF Unregister, NextUse, dirVars, jobVars
  <2> QED
    BY <1>1, <2>1, NothingSeen DEF Keeps
<1> QED
  BY <1>2, <1>3, <1>4, <1>5

\* The ends of a process, with the lock, without it, or leaving it behind.
LEMMA EndImplements ==
  ASSUME TypeOK, LockInv, Young, NEW p \in Procs,
         Exit(p) \/ ExitKeeping(p) \/ Return(p) \/ Crash(p) \/ JobDone(p)
  PROVE  [Lock!Next]_LockVars
<1> USE DEF Goto
<1>1. /\ LockGood(p) /\ pc \in [Procs -> Labels] /\ maker' = maker /\ ProcStep(p)
  BY DEF LockInv, TypeOK, ProcStep, Exit, ExitKeeping, Return, Crash, JobDone, dirVars
<1>2. CASE Exit(p)
  <2>1. /\ pc[p] \in {"idle", "held", "stuck"} /\ lent' = lent /\ p \notin lent
        /\ pc'[p] = IF p \in locked \cap resHeld THEN "jobid" ELSE "over"
    BY <1>1, <1>2 DEF Exit, LockGood, Object, jobVars
  <2>2. p \notin Ended \cup Killed
    BY <2>1 DEF Ended, Killed
  <2>3. CASE p \in locked \cap resHeld
    <3>1. Users' = Users \ {p} /\ UNCHANGED <<Ended, Killed>>
      BY <1>1, <2>1, <2>2, <2>3, OwnPlace DEF Keeps
    <3>2. Lock!Stop(p)
      BY <1>1, <3>1 DEF Lock!Stop
    <3> QED
      BY <3>2 DEF Lock!Next
  <2>4. CASE p \notin locked \cap resHeld
    <3>1. pc[p] = "idle" /\ maker # p /\ ~Keeps(p)
      BY <1>1, <2>1, <2>4 DEF LockGood, Object, Owning, Without, Keeps
    <3>2. Users' = Users /\ Ended' = Ended \cup {p} /\ Killed' = Killed
      BY <1>1, <2>1, <2>2, <2>4, <3>1, OwnPlace DEF Keeps, Users
    <3>3. Lock!End(p)
      BY <1>1, <2>2, <3>1, <3>2 DEF Lock!End, Lock!Working
    <3> QED
      BY <3>3 DEF Lock!Next
  <2> QED
    BY <2>3, <2>4
<1>3. CASE ExitKeeping(p)
  <2>1. pc[p] = "held" /\ pc'[p] = "kept" /\ lent' = lent \cup {p}
    BY <1>1, <1>3 DEF ExitKeeping
  <2>2. Keeps(p) /\ Keeps(p)' /\ p \notin Ended \cup Killed
    BY <2>1 DEF Keeps, Ended, Killed
  <2>3. Users = {p}
    BY <2>2, UsersOwn DEF Users
  <2>4. Users' = Users /\ Ended' = Ended \cup {p} /\ Killed' = Killed
    BY <1>1, <2>1, <2>2, <2>3, OwnPlace
  <2>5. Lock!End(p)
    BY <1>1, <2>2, <2>3, <2>4 DEF Lock!End, Lock!Working
  <2> QED
    BY <2>5 DEF Lock!Next
<1>4. CASE Return(p)
  <2>1. p \in lent /\ lent' = lent \ {p} /\ pc' = pc /\ pc[p] = "kept"
    BY <1>1, <1>4 DEF Return, LockGood, Object, procVars
  <2>2. ~Keeps(p)'
    BY <2>1 DEF Keeps
  <2>3. Users' = Users \ {p} /\ UNCHANGED <<Ended, Killed>>
    BY <1>1, <2>1, <2>2, OwnPlace DEF Ended, Killed
  <2>4. Lock!Stop(p)
    BY <1>1, <2>3 DEF Lock!Stop
  <2> QED
    BY <2>4 DEF Lock!Next
<1>5. CASE Crash(p)
  <2>1. pc[p] \notin {"over", "kept", "killed"} /\ pc'[p] = "killed" /\ lent' = lent
    BY <1>1, <1>5 DEF Crash
  <2>2. ~Keeps(p)' /\ p \notin Ended \cup Killed
    BY <1>1, <2>1 DEF LockGood, Object, Keeps, Ended, Killed
  <2>3. Users' = Users \ {p} /\ Ended' = Ended /\ Killed' = Killed \cup {p}
    BY <1>1, <2>1, <2>2, OwnPlace
  <2>4. Lock!Kill(p)
    BY <1>1, <2>2, <2>3 DEF Lock!Kill, Lock!Working
  <2> QED
    BY <2>4 DEF Lock!Next
<1>6. CASE JobDone(p)
  <2>1. pc' = pc /\ lent' = lent
    BY <1>6 DEF JobDone, procVars
  <2> QED
    BY <1>1, <2>1, NothingSeen DEF Keeps
<1> QED
  BY <1>2, <1>3, <1>4, <1>5, <1>6

\* Mark rounds change neither the owner nor where a process is.
LEMMA MarkImplements ==
  ASSUME TypeOK, LockInv, NEW p \in Procs, Mark(p)
  PROVE  UNCHANGED LockVars
<1>1. maker' = maker /\ pc' = pc /\ lent' = lent
  BY DEF Mark, MarkBegin, MarkOpen, MarkWrite, dirVars, procVars, jobVars
<1> QED
  BY <1>1 DEF LockVars, Users, Ended, Killed, Keeps

LEMMA LockStepImplements ==
  ASSUME Cleaners = {}, TypeOK, LockInv, Young, [Next]_vars
  PROVE  [Lock!Next]_LockVars
<1>1. ASSUME NEW p \in Procs, ProcStep(p) PROVE [Lock!Next]_LockVars
  BY <1>1, NeverBroken, AcquireImplements, ReleaseImplements, EndImplements, MarkImplements
  DEF ProcStep, Go
<1>2. CASE UNCHANGED <<maker, pc, lent>>
  BY <1>2 DEF LockVars, Users, Ended, Killed, Keeps
<1>3. Tick \/ UNCHANGED vars => UNCHANGED <<maker, pc, lent>>
  BY DEF Tick, vars, dirVars, procVars, jobVars
<1> QED
  BY <1>1, <1>2, <1>3 DEF Next, ProcStep

(***************************************************************************)
(* A lock keeps the promise of PoolLock, for any number of harnesses,      *)
(* crashes and uses, as long as no cleaner runs and nobody has a reason to *)
(* break it: its directory is removed by its maker alone, and never while  *)
(* somebody relies on it or after its maker was killed.                    *)
(***************************************************************************)
THEOREM UnbrokenImplements ==
  ASSUME Cleaners = {}
  PROVE  Spec /\ []Unbroken => ImplementsLock
<1>1. Init => Lock!Init
  BY DEF Init, Lock!Init, Users, Ended, Killed, Keeps
<1>2. IInv /\ Unbroken /\ [Next]_vars => [Lock!Next]_LockVars
  BY LockStepImplements DEF IInv
<1> QED
  BY <1>1, <1>2, LockInvariant, PTL DEF Spec, ImplementsLock, Lock!Spec, LockVars

(***************************************************************************)
(* A lock of a resource pool, which has no timeout, keeps it whatever      *)
(* happens to the harnesses.                                               *)
(***************************************************************************)
THEOREM LockImplemented ==
  ASSUME Timeout = 0, Cleaners = {}
  PROVE  Spec => ImplementsLock
<1>1. Unbroken
  BY DEF Unbroken, Timed
<1>2. []Unbroken
  BY <1>1, PTL
<1> QED
  BY <1>2, UnbrokenImplements
=============================================================================
