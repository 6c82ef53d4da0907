---------------------------- MODULE MCFtDispatch ----------------------------
(***************************************************************************)
(* Small instances of FtDispatch for TLC.  The addresses keep the          *)
(* alignment malloc and the layout of Ft_MsgName give name pointers: they  *)
(* are multiples of 16.                                                    *)
(***************************************************************************)
EXTENDS FtDispatch, Bitwise

CONSTANTS n1, n2, n3, f1, f2

BitAnd(a, m) == a & m

\* Three messages: with the mask of the code, 37, n1 and n3 start at bucket 0
\* and n2 at bucket 32.
ThreeNames == {n1, n2, n3}
AlignedAddr == [n \in ThreeNames |-> CASE n = n1 -> 16 [] n = n2 -> 32 [] n = n3 -> 64]

\* One message.
OneAddr == [n \in {n1} |-> 0]
=============================================================================
