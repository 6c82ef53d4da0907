-------------------------------- MODULE TtPoll --------------------------------
(***************************************************************************)
(* mtx_timedlock of tinycthread.c on a POSIX system that has no            *)
(* pthread_mutex_timedlock: it tries, looks at the time, sleeps for a few  *)
(* milliseconds and tries again.  The mutex is the system's.               *)
(***************************************************************************)
EXTENDS TtClock

CONSTANTS
  Threads,
  NoThread,
  MaxDepth,   \* bound of the model on locks held at once
  Delays      \* from now to the time limits that callers give

VARIABLES
  recursive,  \* the mutex was made by mtx_init with mtx_recursive
  owner,      \* of the mutex
  depth,      \* how often its owner has locked it
  pc,         \* where each thread is
  held,       \* locks each thread was granted and has not given back
  wait        \* wait[t]: the limit of t, since when t sleeps and until when

pollVars == <<recursive, owner, depth, pc, held, wait, now>>

NoWait == [ts |-> 0, from |-> 0, until |-> 0]

At(t, from, to) == pc[t] = from /\ pc' = [pc EXCEPT ![t] = to]

Available(t) == owner = NoThread \/ (owner = t /\ recursive)

Grant(t) ==
  /\ Available(t)
  /\ owner' = t /\ depth' = depth + 1
  /\ held' = [held EXCEPT ![t] = @ + 1]

\* mtx_lock and mtx_trylock; the first waits, and for ever if the caller
\* holds a mutex that is not recursive.
Lock(t) ==
  /\ held[t] < MaxDepth
  /\ At(t, "out", "out")
  /\ Grant(t)
  /\ UNCHANGED <<recursive, wait, now>>

Unlock(t) ==
  /\ held[t] > 0
  /\ At(t, "out", "out")
  /\ depth' = depth - 1
  /\ owner' = IF depth = 1 THEN NoThread ELSE owner
  /\ held' = [held EXCEPT ![t] = @ - 1]
  /\ UNCHANGED <<recursive, wait, now>>

TimedLock(t, d) ==
  /\ now <= MaxNow /\ held[t] < MaxDepth
  /\ At(t, "out", "poll")
  /\ wait' = [wait EXCEPT ![t] = [NoWait EXCEPT !.ts = now + d]]
  /\ UNCHANGED <<recursive, owner, depth, held, now>>

Forget(t) == wait' = [wait EXCEPT ![t] = NoWait]

TryGranted(t) ==
  /\ At(t, "poll", "out")
  /\ Grant(t)
  /\ Forget(t)
  /\ UNCHANGED <<recursive, now>>

\* EBUSY.
TryBusy(t) ==
  /\ At(t, "poll", "busy")
  /\ ~Available(t)
  /\ UNCHANGED <<recursive, owner, depth, held, wait, now>>

\* thrd_timedout.
GiveUp(t) ==
  /\ At(t, "busy", "out")
  /\ timespec_get(now) >= wait[t].ts
  /\ Forget(t)
  /\ UNCHANGED <<recursive, owner, depth, held, now>>

\* nanosleep, for what is left of the time or for a while.
Doze(t) ==
  LET cur == timespec_get(now)
  IN /\ At(t, "busy", "nap")
     /\ cur < wait[t].ts
     /\ wait' = [wait EXCEPT ![t].from = now, ![t].until = now + NapNs(Nap(cur, wait[t].ts))]
     /\ UNCHANGED <<recursive, owner, depth, held, now>>

WakeUp(t) ==
  /\ At(t, "nap", "poll")
  /\ Passed(wait[t].until)
  /\ wait' = [wait EXCEPT ![t] = [NoWait EXCEPT !.ts = wait[t].ts]]
  /\ UNCHANGED <<recursive, owner, depth, held, now>>

Step(t) == TryGranted(t) \/ TryBusy(t) \/ GiveUp(t) \/ Doze(t) \/ WakeUp(t)

PollNext ==
  \E t \in Threads :
    Lock(t) \/ Unlock(t) \/ Step(t) \/ \E d \in Delays : TimedLock(t, d)
==============================================================================
