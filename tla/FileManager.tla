---------------------------- MODULE FileManager ----------------------------
(***************************************************************************)
(* The cache of downloaded files that the harnesses of a site share        *)
(* (exec/xenrt/filemanager.py): one file that a single wget or sftp        *)
(* fetches, in one global cache.  A harness takes it from the cache by a   *)
(* hard link of its own, waits while another one fetches it, or fetches it *)
(* and leaves it there.  A marker file with the job's number says that     *)
(* somebody is fetching; looking for it and making it are two steps.       *)
(*                                                                         *)
(* Files are inodes that have names.  Timeouts may come at any moment.     *)
(***************************************************************************)
EXTENDS Naturals

CONSTANTS Procs,     \* harness processes, each with a job of its own
          Manual,    \* those without one, whose marker says "None"
          Inodes,
          MaxCalls,  \* bound on the calls of one process
          NoFile, NoMark, Empty

ASSUME FileAssumption ==
  /\ Manual \subseteq Procs /\ MaxCalls \in Nat
  /\ NoFile \notin Inodes /\ {NoMark, Empty} \cap Procs = {} /\ NoMark # Empty

VARIABLES
  shared,    \* the name in the cache
  part,      \* the name with .part, which is being fetched
  mark,      \* the marker .fetching: whose number is in it
  opened,    \* who has the marker of now open for writing
  mine,      \* the name in each process's own cache
  pc,
  lock,      \* processes whose self.lock is taken
  read,      \* the job a waiting process found in the marker
  fd,        \* what the wget of each process writes to; after a crash, wrote to
  torn,      \* processes whose wget was overtaken: the part was emptied under it
  complete,  \* inodes with the whole content
  ended,     \* processes whose job is done or flagged DEAD_JOB
  calls

diskVars == <<shared, part, complete>>
markVars == <<mark, opened>>
wgetVars == <<fd, torn>>
vars == <<diskVars, markVars, wgetVars, mine, pc, lock, read, ended, calls>>

Waits   == {"poll", "ask", "unlink", "except"}
Fetches == {"write", "fetch", "wget", "rename", "link", "unmark"}
Labels  == {"idle", "look", "file", "use", "replace", "mark", "gone"} \cup Waits \cup Fetches

TypeOK ==
  /\ shared \in Inodes \cup {NoFile} /\ part \in Inodes \cup {NoFile}
  /\ mark \in Procs \cup {NoMark, Empty} /\ opened \subseteq Procs
  /\ mine \in [Procs -> Inodes \cup {NoFile}]
  /\ pc \in [Procs -> Labels] /\ lock \subseteq Procs
  /\ read \in [Procs -> Procs \cup {NoMark}]
  /\ fd \in [Procs -> Inodes \cup {NoFile}] /\ torn \subseteq Procs
  /\ complete \subseteq Inodes /\ ended \subseteq Procs \ Manual
  /\ calls \in [Procs -> 0 .. MaxCalls]

Init ==
  /\ shared = NoFile /\ part = NoFile /\ mark = NoMark /\ opened = {}
  /\ mine = [p \in Procs |-> NoFile] /\ pc = [p \in Procs |-> "idle"] /\ lock = {}
  /\ read = [p \in Procs |-> NoMark] /\ fd = [p \in Procs |-> NoFile] /\ torn = {}
  /\ complete = {} /\ ended = {} /\ calls = [p \in Procs |-> 0]

Goto(p, l) == pc' = [pc EXCEPT ![p] = l]

\* The end of a call that has not marked the file.
Return(p) == Goto(p, "idle") /\ lock' = lock \ {p}

-----------------------------------------------------------------------------
\* getFile() or fileExists(), in one thread of a process at a time.  What is in
\* the process's own cache is returned without further ado.
Call(p) ==
  /\ pc[p] = "idle" /\ p \notin lock /\ mine[p] = NoFile /\ calls[p] < MaxCalls
  /\ Goto(p, "look") /\ lock' = lock \cup {p}
  /\ calls' = [calls EXCEPT ![p] = @ + 1]
  /\ UNCHANGED <<diskVars, markVars, wgetVars, mine, read, ended>>

\* __availableInCache(): is somebody fetching?
Look(p) ==
  /\ pc[p] = "look"
  /\ Goto(p, IF mark = NoMark THEN "file" ELSE "poll")
  /\ UNCHANGED <<diskVars, markVars, wgetVars, mine, lock, read, ended, calls>>

\* Mutants: an empty marker passes for a job; the end of the job is not noticed.
PollAny(p) ==
  /\ pc[p] = "poll"
  /\ read' = [read EXCEPT ![p] = mark] /\ Goto(p, "ask")
  /\ UNCHANGED <<diskVars, markVars, wgetVars, mine, lock, ended, calls>>
AskInVain(p) ==
  /\ pc[p] = "ask"
  /\ Goto(p, "poll")
  /\ read' = [read EXCEPT ![p] = NoMark]
  /\ UNCHANGED <<diskVars, markVars, wgetVars, mine, lock, ended, calls>>

\* Every 15 seconds a waiter reads the marker, which must have a number in it.
Poll(p) ==
  /\ pc[p] = "poll"
  /\ \/ /\ mark \in Procs \ Manual
        /\ read' = [read EXCEPT ![p] = mark] /\ Goto(p, "ask")
     \/ mark \notin Procs \ Manual /\ Goto(p, "except") /\ UNCHANGED read
  /\ UNCHANGED <<diskVars, markVars, wgetVars, mine, lock, ended, calls>>

\* It waits on unless the job is over ...
Ask(p) ==
  /\ pc[p] = "ask"
  /\ Goto(p, IF read[p] \in ended THEN "unlink" ELSE "poll")
  /\ read' = [read EXCEPT ![p] = NoMark]
  /\ UNCHANGED <<diskVars, markVars, wgetVars, mine, lock, ended, calls>>

\* ... (or the server does not answer) ...
AskFails(p) ==
  /\ pc[p] = "ask"
  /\ Goto(p, "except")
  /\ read' = [read EXCEPT ![p] = NoMark]
  /\ UNCHANGED <<diskVars, markVars, wgetVars, mine, lock, ended, calls>>

\* ... when it removes the marker, whose-ever it is by now.
RemoveMark == mark' = NoMark /\ opened' = {}

UnlinkMark(p) ==
  /\ pc[p] = "unlink"
  /\ \/ mark # NoMark /\ RemoveMark /\ Goto(p, "file")
     \/ mark = NoMark /\ Goto(p, "except") /\ UNCHANGED markVars
  /\ UNCHANGED <<diskVars, wgetVars, mine, lock, read, ended, calls>>

\* After an exception the waiter goes on only if the marker has gone.
Except(p) ==
  /\ pc[p] = "except"
  /\ \/ mark = NoMark /\ Goto(p, "file") /\ UNCHANGED lock
     \/ mark # NoMark /\ Return(p)
  /\ UNCHANGED <<diskVars, markVars, wgetVars, mine, read, ended, calls>>

\* At the deadline it gives up; in the very second of the deadline it does not.
Deadline(p) ==
  /\ pc[p] = "poll"
  /\ Return(p) \/ (Goto(p, "file") /\ UNCHANGED lock)
  /\ UNCHANGED <<diskVars, markVars, wgetVars, mine, read, ended, calls>>

-----------------------------------------------------------------------------
\* Is the file there?  If not, fileExists() asks the web server.
FindFile(p) ==
  /\ pc[p] = "file"
  /\ \/ shared # NoFile /\ Goto(p, "use") /\ UNCHANGED lock
     \/ shared = NoFile /\ Goto(p, "mark") /\ UNCHANGED lock
     \/ shared = NoFile /\ Return(p)
  /\ UNCHANGED <<diskVars, markVars, wgetVars, mine, read, ended, calls>>

\* It is linked, if it is still there; or it is not the length the web server
\* says, and the call fails or replaces it.
Link(p) == mine' = [mine EXCEPT ![p] = shared]

UseFile(p) ==
  /\ pc[p] = "use"
  /\ \/ Link(p) /\ Return(p)
     \/ UNCHANGED mine /\ Return(p)
     \/ UNCHANGED <<mine, lock>> /\ Goto(p, "replace")
  /\ UNCHANGED <<diskVars, markVars, wgetVars, read, ended, calls>>

\* removeFromCache(), and on to fetching it.
Replace(p) ==
  /\ pc[p] = "replace"
  /\ shared' = NoFile
  /\ Goto(p, "mark")
  /\ UNCHANGED <<part, complete, markVars, wgetVars, mine, lock, read, ended, calls>>

-----------------------------------------------------------------------------
\* The marker is opened, which makes or empties it, and written a moment later,
\* to the file that was opened.
Mark(p) ==
  /\ pc[p] = "mark"
  /\ mark' = Empty /\ opened' = opened \cup {p}
  /\ Goto(p, "write")
  /\ UNCHANGED <<diskVars, wgetVars, mine, lock, read, ended, calls>>

WriteMark(p) ==
  /\ pc[p] = "write"
  /\ mark' = IF p \in opened THEN p ELSE mark
  /\ opened' = opened \ {p}
  /\ Goto(p, "fetch")
  /\ UNCHANGED <<diskVars, wgetVars, mine, lock, read, ended, calls>>

\* wget makes the part or empties the one that is there.
Writers(i) == {q \in Procs : fd[q] = i /\ pc[q] = "wget"}
Free == {i \in Inodes : i \notin {shared, part} /\ \A p \in Procs : i \notin {mine[p], fd[p]}}

Open(p, i) ==
  /\ part' = i
  /\ fd' = [fd EXCEPT ![p] = i]
  /\ complete' = complete \ {i}
  /\ torn' = (torn \ {p}) \cup (Writers(i) \ {p})

\* Mutant: straight to the name in the cache, as tar does with directories.
StartInPlace(p) ==
  /\ pc[p] = "fetch"
  /\ \/ shared # NoFile /\ Open(p, shared)
     \/ shared = NoFile /\ Free # {} /\ Open(p, CHOOSE i \in Free : TRUE)
  /\ Goto(p, "wget")
  /\ UNCHANGED <<shared, markVars, mine, lock, read, ended, calls>>
StartWget(p) ==
  /\ pc[p] = "fetch"
  /\ \/ part # NoFile /\ Open(p, part)
     \/ part = NoFile /\ Free # {} /\ Open(p, CHOOSE i \in Free : TRUE)
  /\ Goto(p, "wget")
  /\ UNCHANGED <<shared, markVars, mine, lock, read, ended, calls>>

Close(p) == fd' = [fd EXCEPT ![p] = NoFile] /\ torn' = torn \ {p}

\* One that was overtaken leaves a hole at the beginning, which the other fills.
EndWget(p) ==
  /\ pc[p] = "wget"
  /\ complete' = IF p \in torn THEN complete ELSE complete \cup {fd[p]}
  /\ Close(p)
  /\ Goto(p, "rename")
  /\ UNCHANGED <<shared, part, markVars, mine, lock, read, ended, calls>>

\* Mutants: the failure is ignored; the marker stays.
FailIgnored(p) ==
  /\ pc[p] = "wget"
  /\ Close(p)
  /\ Goto(p, "rename")
  /\ UNCHANGED <<diskVars, markVars, mine, lock, read, ended, calls>>
FailAndLeave(p) ==
  /\ pc[p] = "wget"
  /\ part' = NoFile
  /\ Close(p) /\ Return(p)
  /\ UNCHANGED <<shared, complete, markVars, mine, read, ended, calls>>

\* wget fails or takes too long: whatever part is there is removed.
FailWget(p) ==
  /\ pc[p] = "wget"
  /\ part' = NoFile
  /\ Close(p)
  /\ Goto(p, "unmark")
  /\ UNCHANGED <<shared, complete, markVars, mine, lock, read, ended, calls>>

Rename(p) ==
  /\ pc[p] = "rename"
  /\ \/ part # NoFile /\ shared' = part /\ part' = NoFile /\ Goto(p, "link")
     \/ part = NoFile /\ Goto(p, "unmark") /\ UNCHANGED <<shared, part>>
  /\ UNCHANGED <<complete, markVars, wgetVars, mine, lock, read, ended, calls>>

LinkFetched(p) ==
  /\ pc[p] = "link"
  /\ Link(p)
  /\ Goto(p, "unmark")
  /\ UNCHANGED <<diskVars, markVars, wgetVars, lock, read, ended, calls>>

\* The finally clause.  Without a marker the unlink fails, and the lock of the
\* process is not released.
Unmark(p) ==
  /\ pc[p] = "unmark"
  /\ \/ mark # NoMark /\ RemoveMark /\ Return(p)
     \/ mark = NoMark /\ Goto(p, "idle") /\ UNCHANGED <<markVars, lock>>
  /\ UNCHANGED <<diskVars, wgetVars, mine, read, ended, calls>>

-----------------------------------------------------------------------------
\* A process ends or is killed; its own cache goes with it.
Gone(p) ==
  /\ pc[p] # "gone"
  /\ Goto(p, "gone")
  /\ mine' = [mine EXCEPT ![p] = NoFile]
  /\ lock' = lock \ {p}
  /\ opened' = opened \ {p}
  /\ read' = [read EXCEPT ![p] = NoMark]
  /\ torn' = torn \ {p}
  /\ UNCHANGED <<diskVars, mark, fd, ended, calls>>

\* The server says so: also of a job that is flagged dead while its harness runs.
JobOver(p) ==
  /\ p \notin ended \cup Manual
  /\ ended' = ended \cup {p}
  /\ UNCHANGED <<diskVars, markVars, wgetVars, mine, pc, lock, read, calls>>

\* cleanup() removes the directories nothing was put into for a week.
Cleanup ==
  /\ \A p \in Procs : pc[p] \notin Fetches
  /\ shared' = NoFile /\ part' = NoFile /\ RemoveMark
  /\ UNCHANGED <<complete, wgetVars, mine, pc, lock, read, ended, calls>>

Wait(p)  == Poll(p) \/ Ask(p) \/ UnlinkMark(p) \/ Except(p)
Fetch(p) == Mark(p) \/ WriteMark(p) \/ StartWget(p) \/ EndWget(p) \/ FailWget(p)
            \/ Rename(p) \/ LinkFetched(p) \/ Unmark(p)
Proc(p)  == \/ Call(p) \/ Look(p) \/ Wait(p) \/ AskFails(p) \/ Deadline(p)
            \/ FindFile(p) \/ UseFile(p) \/ Replace(p) \/ Fetch(p) \/ Gone(p) \/ JobOver(p)

Next == (\E p \in Procs : Proc(p)) \/ Cleanup

Spec == Init /\ [][Next]_vars

(***************************************************************************)
(* Fairness.  Waiters poll, what was begun is carried on (wget has a       *)
(* timeout), and the job of a process that is gone is done in the end.     *)
(* Deadlines are not needed, nor the cleanup.                              *)
(***************************************************************************)
Fairness ==
  \A p \in Procs : /\ WF_vars(Wait(p)) /\ WF_vars(Fetch(p))
                   /\ WF_vars(pc[p] = "gone" /\ JobOver(p))

FairSpec == Spec /\ Fairness
-----------------------------------------------------------------------------
(***************************************************************************)
(* What a process was given stays its own, whatever other processes do to  *)
(* the cache meanwhile: fetch the file too, replace it, clean up, die.     *)
(* Whatever is whole and in the cache or given to somebody stays whole.    *)
(***************************************************************************)
Given == {shared} \cup {mine[p] : p \in Procs}
GivenStays ==
  [][/\ \A p \in Procs : mine[p] # NoFile => mine'[p] = mine[p] \/ Gone(p)
     /\ Given \cap complete \subseteq complete']_vars

(***************************************************************************)
(* A file gets its name in the cache when it is whole, after failures and  *)
(* crashes too, except while another process is still fetching it or was   *)
(* killed doing so.  (Two do fetch at the same time: the marker does not   *)
(* prevent it.)                                                            *)
(***************************************************************************)
PublishedWhole ==
  [][shared' \notin {shared, NoFile} /\ shared' \notin complete
       => \E q \in Procs : fd[q] = shared']_vars

(***************************************************************************)
(* A marker means what the waiters take it for: its job is fetching, or    *)
(* was killed, which the server will tell.  No failing fetch leaves one    *)
(* that others would wait for.                                             *)
(***************************************************************************)
MarkMeansFetching ==
  mark \in Procs => pc[mark] \in Fetches \cup {"gone"}

(***************************************************************************)
(* Nobody waits for a process that is gone, or for ever: the end of its    *)
(* job lets waiters go on long before their deadline.                      *)
(***************************************************************************)
WaitEnds == \A p \in Procs : pc[p] \in Waits ~> pc[p] \notin Waits
=============================================================================
