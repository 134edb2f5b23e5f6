------------------------------ MODULE FileInv ------------------------------
(***************************************************************************)
(* The inductive invariant of FileManager.                                 *)
(***************************************************************************)
EXTENDS FileManager

\* Nobody writes to what a process was given, or what is in the cache: the part
\* is another inode.
PartApart ==
  part # NoFile => part # shared /\ \A p \in Procs : mine[p] # part

\* The last process that opened a part has not finished it, as long as the part
\* is not complete: the others were overtaken, and one that fails removes it.
PartWritten ==
  part # NoFile /\ part \notin complete => \E q \in Procs \ torn : fd[q] = part

\* Where a process is says what it has.
Before == {"look", "file", "use", "replace", "mark"} \cup Waits \cup (Fetches \ {"unmark"})
Place(p) ==
  /\ pc[p] \in Before => mine[p] = NoFile
  /\ pc[p] = "wget" => fd[p] \in Inodes
  /\ fd[p] # NoFile => pc[p] \in {"wget", "gone"}
  /\ p \in opened => pc[p] = "write"

IInv == /\ TypeOK /\ PartApart /\ PartWritten /\ MarkMeansFetching
        /\ \A p \in Procs : Place(p)
=============================================================================
