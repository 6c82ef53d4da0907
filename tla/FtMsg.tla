-------------------------------- MODULE FtMsg --------------------------------
(***************************************************************************)
(* How a message of VM/Ft_msg.c is built from its name and its arguments.  *)
(*                                                                         *)
(* A dynamic message is a block that is doubled when an argument does not  *)
(* fit; a static one has a fixed number of places, and the program exits   *)
(* if there are more arguments.  The name is a string, looked up in the    *)
(* table of FtMsgName, or an entry of that table.  A step takes one        *)
(* argument; the caller ends them with NULL.                               *)
(***************************************************************************)
EXTENDS FtMsgName

CONSTANTS
  Args,          \* objects that are arguments
  InitialArgs,   \* room of a new dynamic message, 10
  StaticArgs,    \* room of a static message, 10
  MaxArgs        \* bound of the model on the arguments

ASSUME MsgAssumption ==
  /\ InitialArgs \in Nat \ {0}
  /\ StaticArgs \in Nat
  /\ MaxArgs \in Nat

VARIABLE msg   \* the message being built or used

vars == <<msgNames, table, handed, msg>>

\* The functions that build a message.
Dynamic == {"FtMsg_InitStr", "FtMsg_Init"}
Static == {"FtStaticMsg_InitStr", "FtStaticMsg_Init"}

Lists == UNION { [1 .. n -> Args] : n \in 0 .. MaxArgs }

NoName == [idx |-> 0, block |-> 0]   \* not looked up yet
NoMsg == [pc |-> "none"]

Init == TableInit /\ msg = NoMsg

\* The message, which will be given the arguments `given`.
New(fn, s, e, given) ==
  [pc |-> "args", fn |-> fn, str |-> s, name |-> e, given |-> given, args |-> <<>>,
   cap |-> IF fn \in Dynamic THEN InitialArgs ELSE StaticArgs]

\* A dynamic message looks its name up first.
StartByString(s, given) ==
  /\ msg.pc = "none"
  /\ \E e \in Entries :
       /\ Find(s, e)
       /\ handed' = handed \cup { [str |-> s, entry |-> e] }
       /\ msg' = New("FtMsg_InitStr", s, e, given)

StartByName(fn, given) ==
  /\ msg.pc = "none"
  /\ \E h \in handed : msg' = New(fn, h.str, h.entry, given)
  /\ UNCHANGED tableVars

\* A static message looks its name up last.
StartStatic(s, given) ==
  /\ msg.pc = "none"
  /\ msg' = New("FtStaticMsg_InitStr", s, NoName, given)
  /\ UNCHANGED tableVars

AnotherArg == msg.pc = "args" /\ Len(msg.args) < Len(msg.given)

Placed == Append(msg.args, msg.given[Len(msg.args) + 1])

\* The places of a dynamic message before the next argument is placed.
Room == IF Len(msg.args) = msg.cap THEN 2 * msg.cap ELSE msg.cap

TakeDynamic ==
  /\ AnotherArg /\ msg.fn \in Dynamic
  /\ msg' = [msg EXCEPT !.args = Placed, !.cap = Room]
  /\ UNCHANGED tableVars

\* Mutant of TakeStatic: the room is not checked.
TakeStaticUnchecked ==
  /\ AnotherArg /\ msg.fn \in Static
  /\ msg' = [msg EXCEPT !.args = Placed]
  /\ UNCHANGED tableVars

\* Mutant of TakeStatic: the last place is not used.
TakeStaticEarly ==
  /\ AnotherArg /\ msg.fn \in Static
  /\ msg' = IF Len(msg.args) + 1 = StaticArgs
            THEN [msg EXCEPT !.pc = "exited"]
            ELSE [msg EXCEPT !.args = Placed]
  /\ UNCHANGED tableVars

TakeStatic ==
  /\ AnotherArg /\ msg.fn \in Static
  /\ msg' = IF Len(msg.args) = StaticArgs
            THEN [msg EXCEPT !.pc = "exited"]
            ELSE [msg EXCEPT !.args = Placed]
  /\ UNCHANGED tableVars

NoMoreArgs == msg.pc = "args" /\ Len(msg.args) = Len(msg.given)

Finish ==
  /\ NoMoreArgs
  /\ msg.fn # "FtStaticMsg_InitStr"
  /\ msg' = [msg EXCEPT !.pc = "built"]
  /\ UNCHANGED tableVars

FinishStatic ==
  /\ NoMoreArgs
  /\ msg.fn = "FtStaticMsg_InitStr"
  /\ \E e \in Entries :
       /\ Find(msg.str, e)
       /\ handed' = handed \cup { [str |-> msg.str, entry |-> e] }
       /\ msg' = [msg EXCEPT !.pc = "built", !.name = e]

\* FtMsg_Del, or the end of a static message's scope.
FtMsg_Del == msg.pc = "built" /\ msg' = NoMsg /\ UNCHANGED tableVars

Next ==
  \/ \E s \in Strs, given \in Lists : StartByString(s, given) \/ StartStatic(s, given)
  \/ \E fn \in {"FtMsg_Init", "FtStaticMsg_Init"}, given \in Lists : StartByName(fn, given)
  \/ TakeDynamic \/ TakeStatic \/ Finish \/ FinishStatic \/ FtMsg_Del

Spec == Init /\ [][Next]_vars

\* The function that builds a message runs on.
FairSpec == Spec /\ WF_vars(TakeDynamic \/ TakeStatic \/ Finish \/ FinishStatic)

------------------------------------------------------------------------------
(* Properties                                                               *)

Built == msg.pc = "built"

\* Type correctness.  A message has a name as soon as it may be used.
TypeOK ==
  /\ TableTypeOK
  /\ msg.pc \in {"none", "args", "built", "exited"}
  /\ msg.pc # "none" =>
       /\ msg.fn \in Dynamic \cup Static /\ msg.str \in Strs
       /\ msg.given \in Lists /\ msg.args \in Lists /\ msg.cap \in Nat
       /\ msg.name.idx \in DOMAIN msgNames \/ (msg.fn = "FtStaticMsg_InitStr" /\ ~Built)

\* An argument is placed in the block of the message: args[len] is never past
\* its places.  Type correctness is part of it.
PlacedInBlock == TypeOK /\ (msg.pc # "none" => Len(msg.args) <= msg.cap)

\* A call that builds a message ends with a message that has the arguments it
\* was given, in their order, unless it is a static one and they are more than
\* it has places for; then the program exits.
BuiltOrTooLong ==
  (msg.pc = "args") ~>
    \/ Built /\ msg.args = msg.given
    \/ msg.pc = "exited" /\ msg.fn \in Static /\ Len(msg.given) > StaticArgs
==============================================================================
