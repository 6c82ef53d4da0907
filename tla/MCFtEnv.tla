------------------------------- MODULE MCFtEnv -------------------------------
(* FtEnv with four bindings of three names.                                 *)
EXTENDS FtEnv

CONSTANTS a1, a2, b, c

MCNameOf == [v \in {a1, a2, b, c} |-> IF v \in {a1, a2} THEN "a" ELSE IF v = b THEN "b" ELSE "c"]
==============================================================================
