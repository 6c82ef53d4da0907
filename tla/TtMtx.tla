--------------------------------- MODULE TtMtx ---------------------------------
(***************************************************************************)
(* Mutexes of tinycthread.c on Windows.                                    *)
(*                                                                         *)
(* A mtx_t wraps a lock of the system, a critical section or, if timed, a  *)
(* mutex object.  Both let their owner in again, so a mutex that is not    *)
(* recursive has a flag, mAlreadyLocked, that is tested and set inside.    *)
(* A thread unlocks only what it holds.  The model stops (undefined) at a  *)
(* call on the wrong kind of lock.  A thread may exit that owns a mutex    *)
(* object: the system gives the abandoned object to the next that waits    *)
(* for it, and says so.                                                    *)
(***************************************************************************)
EXTENDS Naturals

CONSTANTS
  Threads,
  NoThread,   \* nobody owns the system's lock
  Kinds,      \* of mutex that mtx_init makes: sets of "timed", "recursive"
  MaxDepth    \* bound of the model on locks held at once

ASSUME MtxAssumption ==
  /\ NoThread \notin Threads
  /\ Kinds \subseteq SUBSET {"timed", "recursive"}
  /\ MaxDepth \in Nat \ {0}

VARIABLES
  kind,       \* mTimed and mRecursive
  owner,      \* of the system's lock
  depth,      \* how often its owner is in it
  abandoned,  \* did its last owner exit with it?
  already,    \* mAlreadyLocked
  pc,         \* where each thread is: "out" of the functions below
  held,       \* locks each thread was granted and has not given back
  undefined   \* the behaviour of the program is undefined from here on

vars == <<kind, owner, depth, abandoned, already, pc, held, undefined>>

timed == "timed" \in kind
recursive == "recursive" \in kind

\* mtx_init.
Init ==
  /\ kind \in Kinds
  /\ owner = NoThread /\ depth = 0 /\ abandoned = FALSE
  /\ already = FALSE
  /\ pc = [t \in Threads |-> "out"]
  /\ held = [t \in Threads |-> 0]
  /\ undefined = FALSE

Goto(t, from, to) == ~undefined /\ pc[t] = from /\ pc' = [pc EXCEPT ![t] = to]

------------------------------------------------------------------------------
(* The system's lock                                                        *)

Free(t) == owner \in {NoThread, t}

Own(t) == owner' = t /\ depth' = depth + 1 /\ abandoned' = FALSE

Disown ==
  /\ depth' = depth - 1
  /\ owner' = IF depth = 1 THEN NoThread ELSE owner
  /\ UNCHANGED abandoned

Grant(t) == held' = [held EXCEPT ![t] = @ + 1]

------------------------------------------------------------------------------
(* mtx_lock and mtx_timedlock                                               *)

Lock(t) ==
  /\ held[t] < MaxDepth
  /\ Goto(t, "out", "lock")
  /\ UNCHANGED <<kind, owner, depth, abandoned, already, held, undefined>>

\* mtx_timedlock returns at once if the mutex is not timed.
TimedLock(t) ==
  /\ timed
  /\ held[t] < MaxDepth
  /\ Goto(t, "out", "timedlock")
  /\ UNCHANGED <<kind, owner, depth, abandoned, already, held, undefined>>

\* WAIT_OBJECT_0, or EnterCriticalSection returns.
Enter(t, from, to) ==
  /\ Free(t) /\ ~abandoned
  /\ Goto(t, from, IF recursive THEN "out" ELSE to)
  /\ IF recursive THEN Grant(t) ELSE UNCHANGED held
  /\ Own(t)
  /\ UNCHANGED <<kind, already, undefined>>

\* WAIT_ABANDONED: thrd_error.
EnterAbandoned(t, from) ==
  /\ Free(t) /\ abandoned
  /\ Goto(t, from, "out")
  /\ Own(t)
  /\ UNCHANGED <<kind, already, held, undefined>>

\* Mutant of TimeOut: the time to wait never runs out.
TimeOutNever(t) == FALSE /\ UNCHANGED vars

\* WAIT_TIMEOUT.
TimeOut(t) ==
  /\ ~Free(t)
  /\ Goto(t, "timedlock", "out")
  /\ UNCHANGED <<kind, owner, depth, abandoned, already, held, undefined>>

\* Mutant of Mark: the flag is set, and not tested.
MarkAnyway(t, from) ==
  /\ Goto(t, from, "out")
  /\ already' = TRUE
  /\ Grant(t)
  /\ UNCHANGED <<kind, owner, depth, abandoned, undefined>>

\* The loop "Simulate deadlock" is left when the flag is clear, and sets it.
Mark(t, from) ==
  /\ ~already
  /\ Goto(t, from, "out")
  /\ already' = TRUE
  /\ Grant(t)
  /\ UNCHANGED <<kind, owner, depth, abandoned, undefined>>

------------------------------------------------------------------------------
(* mtx_trylock                                                              *)

\* A lock that is not free, or abandoned, is thrd_busy; the second is owned
\* all the same.
TryLock(t) ==
  /\ held[t] < MaxDepth
  /\ Free(t) /\ ~abandoned
  /\ Goto(t, "out", IF recursive THEN "out" ELSE "try")
  /\ IF recursive THEN Grant(t) ELSE UNCHANGED held
  /\ Own(t)
  /\ UNCHANGED <<kind, already, undefined>>

TryAbandoned(t) ==
  /\ abandoned
  /\ EnterAbandoned(t, "out")

\* Mutant of TryBusy: the critical section is not left.
TryBusyStays(t) ==
  /\ already
  /\ Goto(t, "try", "out")
  /\ UNCHANGED <<kind, owner, depth, abandoned, already, held, undefined>>

\* The caller has it already: the critical section is left, also if the
\* lock is a mutex object.
TryBusy(t) ==
  /\ already
  /\ Goto(t, "try", "out")
  /\ IF timed THEN UNCHANGED <<owner, depth, abandoned>> ELSE Disown
  /\ undefined' = timed
  /\ UNCHANGED <<kind, already, held>>

------------------------------------------------------------------------------
(* mtx_unlock, and the end of a thread                                      *)

\* Mutant of Unlock: the flag is left set.
UnlockMarked(t) ==
  /\ held[t] > 0
  /\ Goto(t, "out", "leave")
  /\ held' = [held EXCEPT ![t] = @ - 1]
  /\ UNCHANGED <<kind, owner, depth, abandoned, already, undefined>>

\* The flag is cleared before the lock is left.
Unlock(t) ==
  /\ held[t] > 0
  /\ Goto(t, "out", "leave")
  /\ held' = [held EXCEPT ![t] = @ - 1]
  /\ already' = FALSE
  /\ UNCHANGED <<kind, owner, depth, abandoned, undefined>>

Leave(t) ==
  /\ Goto(t, "leave", "out")
  /\ Disown
  /\ UNCHANGED <<kind, already, held, undefined>>

Exit(t) ==
  /\ timed
  /\ owner = t
  /\ Goto(t, "out", "ended")
  /\ owner' = NoThread /\ depth' = 0 /\ abandoned' = TRUE
  /\ held' = [held EXCEPT ![t] = 0]
  /\ UNCHANGED <<kind, already, undefined>>

------------------------------------------------------------------------------

\* Threads inside one of the functions.
Step(t) ==
  \/ Enter(t, "lock", "mark") \/ EnterAbandoned(t, "lock") \/ Mark(t, "mark")
  \/ Enter(t, "timedlock", "timedmark") \/ EnterAbandoned(t, "timedlock") \/ TimeOut(t)
  \/ Mark(t, "timedmark") \/ TryBusy(t) \/ Mark(t, "try") \/ Leave(t)

Next ==
  \E t \in Threads :
    Lock(t) \/ TimedLock(t) \/ TryLock(t) \/ TryAbandoned(t) \/ Unlock(t) \/ Exit(t) \/ Step(t)

Spec == Init /\ [][Next]_vars

\* A thread inside a function is scheduled, and time passes.
FairSpec == Spec /\ \A t \in Threads : WF_vars(Step(t))

------------------------------------------------------------------------------
(* Properties                                                               *)

\* Type correctness.
TypeOK ==
  /\ kind \in Kinds
  /\ owner \in Threads \cup {NoThread} /\ depth \in Nat
  /\ abandoned \in BOOLEAN /\ already \in BOOLEAN
  /\ pc \in [Threads -> {"out", "lock", "mark", "timedlock", "timedmark", "try", "leave", "ended"}]
  /\ held \in [Threads -> Nat]
  /\ undefined \in BOOLEAN

\* At most one thread holds the mutex, whichever of the three functions
\* granted it, and holds it once unless it is recursive (tinycthread.h:216:
\* a second lock "will block forever").
HeldByOne ==
  \A t, u \in Threads :
    /\ held[t] > 0 /\ held[u] > 0 => t = u
    /\ held[t] > 1 => recursive

\* Did a thread exit that owned the lock?
Exited == \E t \in Threads : pc[t] = "ended"

\* The system's lock is entered as often as the mutex is held: a thread that
\* gave back all it was granted leaves the lock free, and one that was
\* refused has not kept it, as long as no thread exits with the lock.
LockMatchesGrants ==
  \A t \in Threads : ~undefined /\ ~Exited /\ pc[t] = "out" =>
    IF owner = t THEN depth = held[t] ELSE held[t] = 0

\* tinycthread.h:215: mtx_lock "Blocks until the given mutex can be locked",
\* and no longer: while a thread waits, the mutex is held sooner or later.
LockGranted ==
  \A t \in Threads :
    (pc[t] \in {"lock", "mark"}) ~> (undefined \/ Exited \/ \E u \in Threads : held[u] > 0)
==============================================================================
