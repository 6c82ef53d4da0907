------------------------------- MODULE MCFtMsg -------------------------------
(* Three texts at four places: two places spell the same. *)
EXTENDS FtMsg

MCStrs == 1 .. 4
MCVal == [s \in MCStrs |-> s]
MCText == [s \in MCStrs |-> <<"plus", "print", "plus", "minus">>[s]]
==============================================================================
