------------------------------- MODULE MCFile -------------------------------
(***************************************************************************)
(* Instances of FileManager for TLC.                                       *)
(***************************************************************************)
EXTENDS FileInv
=============================================================================
