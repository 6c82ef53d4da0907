------------------------------ MODULE TtCndTime ------------------------------
(***************************************************************************)
(* The condition variables of TtCnd with a clock: the time limit of        *)
(* cnd_timedwait, on Windows.                                              *)
(*                                                                         *)
(* The limit is turned into a number of milliseconds when the function is  *)
(* called.  They are counted from the call of WaitForMultipleObjects,      *)
(* which comes after the mutex has been unlocked.                          *)
(***************************************************************************)
EXTENDS TtCnd, TtClock

CONSTANT Limits   \* the points in time that callers give as limits

ASSUME LimitAssumption == Limits \subseteq Nat

VARIABLE
  cndWait   \* cndWait[w]: limit, milliseconds, time of call, time of blocking, end

cndTimeVars == <<cndVars, now, cndWait>>

NoCndWait == [ts |-> Never, ms |-> INFINITE, from |-> 0, since |-> 0, until |-> Never]

CndTimeInit ==
  /\ CndInit
  /\ now = 0
  /\ cndWait = [w \in Waiters |-> NoCndWait]

cnd_wait(w) == WaitCount(w) /\ UNCHANGED <<now, cndWait>>

\* A limit may have passed already.
cnd_timedwait(w, ts) ==
  /\ now <= MaxNow
  /\ WaitCount(w)
  /\ cndWait' = [cndWait EXCEPT ![w] =
       [NoCndWait EXCEPT !.ts = ts, !.from = now, !.ms = CndTimeoutMs(timespec_get(now), ts)]]
  /\ UNCHANGED now

Block(w) ==
  /\ WaitBlock(w)
  /\ cndWait' = [cndWait EXCEPT ![w].since = now, ![w].until = After(cndWait[w].ms)]
  /\ UNCHANGED now

\* A wait that is over is forgotten.
ForgetLimit(w) == cndWait' = [cndWait EXCEPT ![w] = NoCndWait] /\ UNCHANGED now

TimedOutAt(w) == WaitTimeOut(w) /\ Passed(cndWait[w].until) /\ ForgetLimit(w)

\* A waiter that was woken.
WokenUp(w) == WakeCount(w) /\ ForgetLimit(w)

\* Everything else has no time limit.
Untimed ==
  /\ \/ \E t \in Waiters \cup Callers : LockMutex(t) \/ UnlockMutex(t)
     \/ \E w \in Waiters : WaitUnlock(w) \/ WaitOne(w) \/ WaitAll(w) \/ Reset(w) \/ Relock(w)
     \/ \E t \in Callers :
          \/ Signal(t) \/ Broadcast(t) \/ SetOneKeep(t) \/ SetAll(t)
          \/ \E w \in Waiters : SetOneRelease(t, w)
  /\ UNCHANGED <<now, cndWait>>

\* Time passes up to the bound, and until the last wait is over.
CndTick ==
  /\ now < MaxNow \/ \E w \in Waiters : cndPc[w] = "blocked" /\ cndWait[w].until > now
  /\ now' = now + 1
  /\ UNCHANGED <<cndVars, cndWait>>

CndTimeNext ==
  \/ Untimed
  \/ \E w \in Waiters :
       \/ cnd_wait(w) \/ Block(w) \/ TimedOutAt(w) \/ WokenUp(w)
       \/ \E ts \in Limits : cnd_timedwait(w, ts)
  \/ CndTick

CndTimeSpec == CndTimeInit /\ [][CndTimeNext]_cndTimeVars

------------------------------------------------------------------------------
(* Properties                                                               *)

\* tinycthread.h:312: cnd_timedwait waits "until after the specified time".
\* It may give up before, since times are cut to milliseconds, but by less
\* than one; and after it by no more than went by before the thread blocked
\* and the clock does not tell; if the milliseconds fit a DWORD.  A limit
\* that has passed ends the wait at once.
TimedWaitNearLimit ==
  \A w \in Waiters :
    LET limit == cndWait[w].ts
        late == cndWait[w].since - cndWait[w].from
    IN /\ cndPc[w] = "blocked" /\ limit # Never
       /\ limit - cndWait[w].from < (INFINITE - 1) * NsPerMs
       => /\ cndWait[w].until > limit - NsPerMs
          /\ limit > cndWait[w].from => cndWait[w].until < limit + late + NsPerMs + Resolution
          /\ limit <= cndWait[w].from => cndWait[w].until = cndWait[w].since
==============================================================================
