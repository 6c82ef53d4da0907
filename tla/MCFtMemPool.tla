----------------------------- MODULE MCFtMemPool -----------------------------
(***************************************************************************)
(* Small instances of FtMemPool for TLC.                                   *)
(***************************************************************************)
EXTENDS FtMemPool
==============================================================================
