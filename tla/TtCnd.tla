-------------------------------- MODULE TtCnd --------------------------------
(***************************************************************************)
(* Condition variables of tinycthread.c on Windows.                        *)
(*                                                                         *)
(* A cnd_t is a count of waiters and two events: `one`, which the system   *)
(* clears when it releases a thread, and `all`, which the last waiter      *)
(* clears.  SetEvent releases threads that are blocked on the event at     *)
(* once; if none is, the event stays set for the next to come.  Accesses   *)
(* to mWaitersCount are whole critical sections and one step each.  The    *)
(* mutex given to cnd_wait is only its holder here.                        *)
(***************************************************************************)
EXTENDS Naturals, FiniteSets

CONSTANTS
  Waiters,        \* threads that call cnd_wait or cnd_timedwait
  Callers,        \* threads that call cnd_signal or cnd_broadcast
  Nobody,         \* the mutex is free
  Timed,          \* is cnd_timedwait used?
  MaxSignals,     \* bound of the model on the calls of cnd_signal
  MaxBroadcasts,  \* bound of the model on the calls of cnd_broadcast
  MaxCount        \* bound of the model on mWaitersCount

ASSUME CndAssumption ==
  /\ IsFiniteSet(Waiters) /\ Waiters \cap Callers = {}
  /\ Nobody \notin Waiters \cup Callers
  /\ Timed \in BOOLEAN
  /\ {MaxSignals, MaxBroadcasts, MaxCount} \subseteq Nat

VARIABLES
  mutex,       \* the thread that holds the mutex, or Nobody
  count,       \* mWaitersCount
  one, all,    \* are the events set?
  cndPc,       \* where each thread is
  calls,       \* calls made so far: [signal, broadcast]
  overlaps,    \* waiters whose wait a call of signal or broadcast overlaps
  due,         \* how many waiters cnd_signal owes a release
  dueAll       \* waiters cnd_broadcast owes a release

cndVars == <<mutex, count, one, all, cndPc, calls, overlaps, due, dueAll>>
promises == <<overlaps, due, dueAll>>

\* Between mtx_unlock in cnd_wait and the release by an event.
Blocked == { w \in Waiters : cndPc[w] \in {"unlocked", "blocked"} }

\* cnd_init.
CndInit ==
  /\ mutex = Nobody
  /\ count = 0
  /\ one = FALSE /\ all = FALSE
  /\ cndPc = [t \in Waiters \cup Callers |-> "out"]
  /\ calls = [signal |-> 0, broadcast |-> 0]
  /\ overlaps = {} /\ due = 0 /\ dueAll = {}

CndGoto(t, from, to) == cndPc[t] = from /\ cndPc' = [cndPc EXCEPT ![t] = to]

------------------------------------------------------------------------------
(* The mutex                                                                *)

LockMutex(t) ==
  /\ mutex = Nobody
  /\ CndGoto(t, "out", "held")
  /\ mutex' = t
  /\ UNCHANGED <<count, one, all, calls, promises>>

UnlockMutex(t) ==
  /\ CndGoto(t, "held", "out")
  /\ mutex' = Nobody
  /\ UNCHANGED <<count, one, all, calls, promises>>

------------------------------------------------------------------------------
(* _cnd_timedwait_win32                                                     *)

\* Mutant of WaitCount: the waiter is not counted.
WaitUncounted(w) ==
  /\ CndGoto(w, "held", "counted")
  /\ overlaps' = overlaps \ {w}
  /\ UNCHANGED <<mutex, count, one, all, calls, due, dueAll>>

\* ++mWaitersCount.  A call in progress now overlaps this wait.
WaitCount(w) ==
  /\ count < MaxCount
  /\ CndGoto(w, "held", "counted")
  /\ count' = count + 1
  /\ overlaps' = IF \E t \in Callers : cndPc[t] \in {"setOne", "setAll"}
                 THEN overlaps \cup {w} ELSE overlaps \ {w}
  /\ UNCHANGED <<mutex, one, all, calls, due, dueAll>>

WaitUnlock(w) ==
  /\ CndGoto(w, "counted", "unlocked")
  /\ mutex' = Nobody
  /\ UNCHANGED <<count, one, all, calls, promises>>

\* What the release of waiter w leaves of the promises.
Released(w) ==
  /\ due' = IF due > 0 THEN due - 1 ELSE 0
  /\ dueAll' = dueAll \ {w}

\* WaitForMultipleObjects: the first event that is set, or block.
WaitOne(w) ==
  /\ one
  /\ CndGoto(w, "unlocked", "byOne")
  /\ one' = FALSE
  /\ Released(w)
  /\ UNCHANGED <<mutex, count, all, calls, overlaps>>

WaitAll(w) ==
  /\ ~one /\ all
  /\ CndGoto(w, "unlocked", "byAll")
  /\ Released(w)
  /\ UNCHANGED <<mutex, count, one, all, calls, overlaps>>

WaitBlock(w) ==
  /\ ~one /\ ~all
  /\ CndGoto(w, "unlocked", "blocked")
  /\ UNCHANGED <<mutex, count, one, all, calls, promises>>

\* WAIT_TIMEOUT: the count stays as it is.
WaitTimeOut(w) ==
  /\ Timed
  /\ CndGoto(w, "blocked", "relock")
  /\ dueAll' = dueAll \ {w}
  /\ due' = IF due < Cardinality(Blocked) THEN due ELSE due - 1
  /\ UNCHANGED <<mutex, count, one, all, calls, overlaps>>

\* --mWaitersCount; only a waiter woken by `all` can be the last one.
WakeCount(w) ==
  /\ count' = count - 1
  /\ \/ CndGoto(w, "byOne", "relock")
     \/ count' = 0 /\ CndGoto(w, "byAll", "reset")
     \/ count' # 0 /\ CndGoto(w, "byAll", "relock")
  /\ UNCHANGED <<mutex, one, all, calls, promises>>

Reset(w) ==
  /\ CndGoto(w, "reset", "relock")
  /\ all' = FALSE
  /\ UNCHANGED <<mutex, count, one, calls, promises>>

Relock(w) ==
  /\ mutex = Nobody
  /\ CndGoto(w, "relock", "held")
  /\ mutex' = w
  /\ UNCHANGED <<count, one, all, calls, promises>>

------------------------------------------------------------------------------
(* cnd_signal and cnd_broadcast, with or without the mutex                  *)

HaveWaiters == count > 0

Back(t) == IF mutex = t THEN "held" ELSE "out"

Check(t, kind, bound, set) ==
  /\ cndPc[t] \in {"out", "held"}
  /\ calls[kind] < bound
  /\ cndPc' = [cndPc EXCEPT ![t] = IF HaveWaiters THEN set ELSE cndPc[t]]
  /\ calls' = [calls EXCEPT ![kind] = @ + 1]
  /\ overlaps' = overlaps \cup Blocked \cup { w \in Waiters : cndPc[w] = "counted" }
  /\ UNCHANGED <<mutex, count, one, all>>

\* What is promised is promised to the waiters blocked at the time of the
\* call: to one more of them, or to all.
Signal(t) ==
  /\ Check(t, "signal", MaxSignals, "setOne")
  /\ due' = IF due < Cardinality(Blocked) THEN due + 1 ELSE due
  /\ UNCHANGED dueAll

Broadcast(t) ==
  /\ Check(t, "broadcast", MaxBroadcasts, "setAll")
  /\ dueAll' = dueAll \cup Blocked
  /\ UNCHANGED due

\* SetEvent(one): a blocked thread is released, and the event stays clear.
SetOneRelease(t, w) ==
  /\ cndPc[t] = "setOne" /\ cndPc[w] = "blocked"
  /\ cndPc' = [cndPc EXCEPT ![t] = Back(t), ![w] = "byOne"]
  /\ Released(w)
  /\ UNCHANGED <<mutex, count, one, all, calls, overlaps>>

SetOneKeep(t) ==
  /\ \A w \in Waiters : cndPc[w] # "blocked"
  /\ CndGoto(t, "setOne", Back(t))
  /\ one' = TRUE
  /\ UNCHANGED <<mutex, count, all, calls, promises>>

\* SetEvent(all): every blocked thread is released, and the event stays set.
SetAll(t) ==
  LET released == { w \in Waiters : cndPc[w] = "blocked" }
  IN /\ cndPc[t] = "setAll"
     /\ cndPc' = [u \in DOMAIN cndPc |-> IF u \in released THEN "byAll"
                                   ELSE IF u = t THEN Back(t) ELSE cndPc[u]]
     /\ all' = TRUE
     /\ due' = IF due > Cardinality(released) THEN due - Cardinality(released) ELSE 0
     /\ dueAll' = dueAll \ released
     /\ UNCHANGED <<mutex, count, one, calls, overlaps>>

------------------------------------------------------------------------------

CndNext ==
  \/ \E t \in Waiters \cup Callers : LockMutex(t) \/ UnlockMutex(t)
  \/ \E w \in Waiters :
       \/ WaitCount(w) \/ WaitUnlock(w) \/ WaitOne(w) \/ WaitAll(w) \/ WaitBlock(w)
       \/ WaitTimeOut(w) \/ WakeCount(w) \/ Reset(w) \/ Relock(w)
  \/ \E t \in Callers :
       \/ Signal(t) \/ Broadcast(t) \/ SetOneKeep(t) \/ SetAll(t)
       \/ \E w \in Waiters : SetOneRelease(t, w)

CndSpec == CndInit /\ [][CndNext]_cndVars

------------------------------------------------------------------------------
(* Properties                                                               *)

\* Type correctness.
CndTypeOK ==
  /\ mutex \in Waiters \cup Callers \cup {Nobody}
  /\ count \in 0 .. MaxCount
  /\ one \in BOOLEAN /\ all \in BOOLEAN
  /\ cndPc \in [Waiters \cup Callers ->
               {"out", "held", "counted", "unlocked", "blocked", "byOne", "byAll",
                "reset", "relock", "setOne", "setAll"}]
  /\ overlaps \subseteq Waiters /\ dueAll \subseteq Waiters
  /\ due \in 0 .. Cardinality(Waiters)

\* The count, which cnd_signal and cnd_broadcast trust before they touch an
\* event, never misses a waiter; it counts too many once a wait timed out.
\* Type correctness is part of it.
CountCoversWaiters ==
  /\ CndTypeOK
  /\ count >= Cardinality({ w \in Waiters :
       cndPc[w] \in {"counted", "unlocked", "blocked", "byOne", "byAll"} })

\* tinycthread.h:276: cnd_signal "unblocks one of the threads that are
\* blocked on the given condition variable at the time of the call": when
\* no call is under way and every waiter has come to rest, none is owed.
SignalUnblocksOne ==
  /\ \A w \in Waiters : cndPc[w] # "unlocked"
  /\ \A t \in Callers : cndPc[t] # "setOne"
  => due = 0

\* tinycthread.h:286: cnd_broadcast "unblocks all of the threads that are
\* blocked on the given condition variable at the time of the call".
BroadcastUnblocksAll ==
  (\A t \in Callers : cndPc[t] # "setAll") =>
    \A w \in Waiters : cndPc[w] = "blocked" => w \notin dueAll

\* No wakeup is lost: neither by the count, nor with the events.
NoLostWakeup == CountCoversWaiters /\ SignalUnblocksOne /\ BroadcastUnblocksAll

\* tinycthread.h:277: "If no threads are blocked on the condition variable at
\* the time of the call, the function does nothing": no wait is ended by a
\* call that was over before the wait began.
NoStaleWake ==
  \A w \in Waiters : cndPc[w] \in {"byOne", "byAll"} => w \in overlaps
==============================================================================
