--------------------------------- MODULE Once ---------------------------------
(***************************************************************************)
(* What call_once promises to the threads that call it with one flag, on   *)
(* every platform (tinycthread.h:464): one of them invokes the callback,   *)
(* once, and no call returns before the callback has.                      *)
(***************************************************************************)
CONSTANT Threads

VARIABLES
  phase,    \* of the callback: "new", "begun", "done"
  caller    \* each thread is "out" of call_once, "in" it, or "running" the
            \* callback

vars == <<phase, caller>>

Init ==
  /\ phase = "new"
  /\ caller = [t \in Threads |-> "out"]

Call(t) ==
  /\ caller[t] = "out"
  /\ caller' = [caller EXCEPT ![t] = "in"]
  /\ UNCHANGED phase

Begin(t) ==
  /\ caller[t] = "in"
  /\ phase = "new"
  /\ phase' = "begun"
  /\ caller' = [caller EXCEPT ![t] = "running"]

End(t) ==
  /\ caller[t] = "running"
  /\ phase' = "done"
  /\ caller' = [caller EXCEPT ![t] = "in"]

Return(t) ==
  /\ caller[t] = "in"
  /\ phase = "done"
  /\ caller' = [caller EXCEPT ![t] = "out"]
  /\ UNCHANGED phase

Next == \E t \in Threads : Call(t) \/ Begin(t) \/ End(t) \/ Return(t)

Spec == Init /\ [][Next]_vars
==============================================================================
