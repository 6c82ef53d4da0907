-------------------------------- MODULE FtList --------------------------------
(***************************************************************************)
(* What a growable array promises its users: a list of values.  A caller   *)
(* that pops an empty list breaks the contract, and nothing is promised    *)
(* from then on.                                                           *)
(***************************************************************************)
EXTENDS Naturals, Sequences

CONSTANT Values   \* what an element can hold

VARIABLES list, broken

vars == <<list, broken>>

Init == list = <<>> /\ broken = FALSE

\* FtArr_Append appends the value; FtArr_AppendZeroed appends an element the
\* caller has yet to fill in.
Append_(v) == ~broken /\ list' = Append(list, v) /\ UNCHANGED broken

Set(i, v) == ~broken /\ i \in DOMAIN list /\ list' = [list EXCEPT ![i] = v] /\ UNCHANGED broken

Pop ==
  /\ ~broken /\ list # <<>>
  /\ list' = SubSeq(list, 1, Len(list) - 1)
  /\ UNCHANGED broken

Break == list = <<>> /\ broken' = TRUE /\ UNCHANGED list

Next ==
  \/ \E v \in Values : Append_(v)
  \/ \E v \in Values : \E i \in DOMAIN list : Set(i, v)
  \/ Pop
  \/ Break

Spec == Init /\ [][Next]_vars
==============================================================================
