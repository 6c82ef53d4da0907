------------------------------ MODULE TtCallOnce ------------------------------
(***************************************************************************)
(* call_once of tinycthread.c on Windows: the threads that call it with    *)
(* one flag.                                                               *)
(*                                                                         *)
(* The flag's status is 0 at first, 1 while its lock is being made, 2      *)
(* while the callback runs, and 3 for good.  A step is one access to the   *)
(* status or to the lock.  The loop reads the status twice, in its         *)
(* condition and in its switch.  The callback does not itself call         *)
(* call_once with the same flag.                                           *)
(***************************************************************************)
EXTENDS Naturals

CONSTANTS
  Threads,
  NoLock,      \* the critical section is not initialised
  Unlocked     \* nobody is in it

ASSUME OnceAssumption == NoLock \notin Threads /\ Unlocked \notin Threads \cup {NoLock}

VARIABLES
  status,   \* flag->status
  lock,     \* flag->lock: NoLock, Unlocked, or the thread that is in it
  pc,       \* where each thread is
  phase     \* of the callback, "new" before it starts, "done" when it returned

vars == <<status, lock, pc, phase>>

\* ONCE_FLAG_INIT.
Init ==
  /\ status = 0
  /\ lock = NoLock
  /\ pc = [t \in Threads |-> "out"]
  /\ phase = "new"

Goto(t, from, to) == pc[t] = from /\ pc' = [pc EXCEPT ![t] = to]

Call(t) == Goto(t, "out", "test") /\ UNCHANGED <<status, lock, phase>>

\* while (flag->status < 3)
TestLoop(t) ==
  /\ status < 3
  /\ Goto(t, "test", "switch")
  /\ UNCHANGED <<status, lock, phase>>

TestReturn(t) ==
  /\ status = 3
  /\ Goto(t, "test", "out")
  /\ UNCHANGED <<status, lock, phase>>

\* switch (flag->status); a status of 3 matches no case.
Switch(t) ==
  /\ Goto(t, "switch", CASE status = 0 -> "cas" [] status = 2 -> "enter"
                         [] OTHER -> "test")
  /\ UNCHANGED <<status, lock, phase>>

\* Mutant of CasWin: the status is stored without comparing it.
CasAlways(t) ==
  /\ Goto(t, "cas", "make")
  /\ status' = 1
  /\ UNCHANGED <<lock, phase>>

\* InterlockedCompareExchange.
CasWin(t) ==
  /\ status = 0
  /\ Goto(t, "cas", "make")
  /\ status' = 1
  /\ UNCHANGED <<lock, phase>>

CasLose(t) ==
  /\ status # 0
  /\ Goto(t, "cas", "test")
  /\ UNCHANGED <<status, lock, phase>>

\* Mutant of MakeLock: others may look at the lock before it is entered.
MakeLockLate(t) ==
  /\ Goto(t, "make", "own")
  /\ lock' = Unlocked
  /\ status' = 2
  /\ UNCHANGED phase

\* InitializeCriticalSection.
MakeLock(t) ==
  /\ Goto(t, "make", "own")
  /\ lock' = Unlocked
  /\ UNCHANGED <<status, phase>>

OwnLock(t) ==
  /\ lock = Unlocked
  /\ Goto(t, "own", "publish")
  /\ lock' = t
  /\ UNCHANGED <<status, phase>>

Publish(t) ==
  /\ Goto(t, "publish", "func")
  /\ status' = 2
  /\ UNCHANGED <<lock, phase>>

\* The callback starts, and returns.
Begin(t) ==
  /\ Goto(t, "func", "running")
  /\ phase' = "begun"
  /\ UNCHANGED <<status, lock>>

End(t) ==
  /\ Goto(t, "running", "finish")
  /\ phase' = "done"
  /\ UNCHANGED <<status, lock>>

\* Mutant of Finish: the status is left as it is.
FinishForgets(t) ==
  /\ Goto(t, "finish", "disown")
  /\ UNCHANGED <<status, lock, phase>>

Finish(t) ==
  /\ Goto(t, "finish", "disown")
  /\ status' = 3
  /\ UNCHANGED <<lock, phase>>

\* LeaveCriticalSection, and call_once returns.
Disown(t) ==
  /\ Goto(t, "disown", "out")
  /\ lock' = Unlocked
  /\ UNCHANGED <<status, phase>>

\* A thread that lost waits in the lock until the callback has returned.
Enter(t) ==
  /\ lock = Unlocked
  /\ Goto(t, "enter", "leave")
  /\ lock' = t
  /\ UNCHANGED <<status, phase>>

Leave(t) ==
  /\ Goto(t, "leave", "test")
  /\ lock' = Unlocked
  /\ UNCHANGED <<status, phase>>

Step(t) ==
  \/ TestLoop(t) \/ TestReturn(t) \/ Switch(t) \/ CasWin(t) \/ CasLose(t)
  \/ MakeLock(t) \/ OwnLock(t) \/ Publish(t) \/ Begin(t) \/ End(t)
  \/ Finish(t) \/ Disown(t) \/ Enter(t) \/ Leave(t)

Next == \E t \in Threads : Call(t) \/ Step(t)

Spec == Init /\ [][Next]_vars

\* Every thread inside call_once is scheduled, and the callback returns.
FairSpec == Spec /\ \A t \in Threads : WF_vars(Step(t))

------------------------------------------------------------------------------
(* Properties                                                               *)

\* The thread that won runs from InterlockedCompareExchange to the end.
Winning == {"make", "own", "publish", "func", "running", "finish", "disown"}

\* Type correctness.
TypeOK ==
  /\ status \in 0 .. 3
  /\ lock \in Threads \cup {NoLock, Unlocked}
  /\ pc \in [Threads -> Winning \cup {"out", "test", "switch", "cas", "enter", "leave"}]
  /\ phase \in {"new", "begun", "done"}

\* A critical section is initialised once, before any thread enters it, and
\* the winner does not wait for it: a loser that gets in first would find
\* the callback not yet run.
LockReady ==
  \A t \in Threads :
    /\ pc[t] = "make" => lock = NoLock
    /\ pc[t] \in {"enter", "leave"} => lock # NoLock
    /\ pc[t] = "own" => lock = Unlocked

\* tinycthread.h:464: call_once implements Once, so the callback is invoked
\* exactly once and every call returns after it.
Abstract ==
  INSTANCE Once WITH
    caller <- [t \in Threads |-> IF pc[t] \in {"out", "running"} THEN pc[t] ELSE "in"]
AbstractSpec == Abstract!Spec

\* Every call returns.
CallsReturn == \A t \in Threads : (pc[t] # "out") ~> (pc[t] = "out")
==============================================================================
