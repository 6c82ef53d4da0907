------------------------------ MODULE TtMtxTime ------------------------------
(***************************************************************************)
(* The mutexes of TtMtx with a clock: the time limit of mtx_timedlock, and *)
(* thrd_sleep, on Windows.                                                 *)
(*                                                                         *)
(* The limit is turned into a number of milliseconds when the function is  *)
(* called, and the wait is over when so many have passed.                  *)
(***************************************************************************)
EXTENDS TtMtx, TtClock

CONSTANT Delays   \* from now to the time limits that callers give

ASSUME DelayAssumption == Delays \subseteq Nat

VARIABLE wait   \* wait[t]: the limit of t, since when t waits and until when

timeVars == <<vars, now, wait>>

NoWait == [ts |-> 0, from |-> 0, until |-> 0]

TimeInit ==
  /\ Init
  /\ now = 0
  /\ wait = [t \in Threads |-> NoWait]

Waits(t, d, ms) ==
  /\ now <= MaxNow
  /\ wait' = [wait EXCEPT ![t] = [ts |-> now + d, from |-> now, until |-> After(ms)]]
  /\ UNCHANGED now

TimedLockUntil(t, d) ==
  /\ TimedLock(t)
  /\ Waits(t, d, TimeoutMs(timespec_get(now), now + d))

\* Nobody queues a call to the thread, which would end its sleep.
Sleep(t, d) ==
  /\ Goto(t, "out", "sleep")
  /\ Waits(t, d, SleepMs(d))
  /\ UNCHANGED <<kind, owner, depth, abandoned, already, held, undefined>>

Timely(t) == Passed(wait[t].until) /\ UNCHANGED now

\* A wait that is over is forgotten.
Forget(t) == wait' = [wait EXCEPT ![t] = NoWait]

TimeOutAt(t) == TimeOut(t) /\ Timely(t) /\ Forget(t)

Wake(t) ==
  /\ Goto(t, "sleep", "out")
  /\ Timely(t) /\ Forget(t)
  /\ UNCHANGED <<kind, owner, depth, abandoned, already, held, undefined>>

\* The lock comes to a thread that has a time limit.
EnterInTime(t) ==
  /\ Enter(t, "timedlock", "timedmark") \/ EnterAbandoned(t, "timedlock")
  /\ Forget(t)
  /\ UNCHANGED now

\* Everything else in TtMtx has no time limit.
Call(t) ==
  /\ Lock(t) \/ TryLock(t) \/ TryAbandoned(t) \/ Unlock(t) \/ Exit(t)
  /\ UNCHANGED <<now, wait>>

InnerStep(t) ==
  /\ \/ Enter(t, "lock", "mark") \/ EnterAbandoned(t, "lock") \/ Mark(t, "mark")
     \/ Mark(t, "timedmark") \/ TryBusy(t) \/ Mark(t, "try") \/ Leave(t)
  /\ UNCHANGED <<now, wait>>

\* Time passes up to the bound, and until the last wait is over.
Tick ==
  /\ now < MaxNow \/ \E t \in Threads : wait[t].until > now
  /\ now' = now + 1
  /\ UNCHANGED <<vars, wait>>

TimedStep(t) == TimeOutAt(t) \/ Wake(t) \/ EnterInTime(t)

TimeNext ==
  \/ Tick
  \/ \E t \in Threads :
       \/ Call(t) \/ TimedStep(t) \/ InnerStep(t)
       \/ \E d \in Delays : TimedLockUntil(t, d) \/ Sleep(t, d)

TimeSpec == TimeInit /\ [][TimeNext]_timeVars
==============================================================================
