------------------------------- MODULE MCTtMtx -------------------------------
(***************************************************************************)
(* The two builds of mtx_timedlock that this code has: with the locks of   *)
(* Windows, and with polling.  Which one it is, the compiler decides.      *)
(***************************************************************************)
EXTENDS TtMtxTime

VARIABLE build

mcVars == <<timeVars, build>>

Poll == INSTANCE TtPoll

\* mtx_timedlock where it polls asks for a mutex made with mtx_timed.
MCInit ==
  /\ TimeInit
  /\ build \in {"win32", "poll"}
  /\ build = "poll" => timed

Polls ==
  /\ build = "poll"
  /\ UNCHANGED <<kind, abandoned, already, undefined>>
  /\ Poll!PollNext

MCNext ==
  /\ \/ build = "win32" /\ TimeNext
     \/ Polls
     \/ build = "poll" /\ Tick
  /\ UNCHANGED build

MCSpec == MCInit /\ [][MCNext]_mcVars

\* A thread inside a function is scheduled, and time passes.
InFunction(t) ==
  /\ UNCHANGED build
  /\ \/ build = "win32" /\ TimedStep(t)
     \/ build = "win32" /\ InnerStep(t)
     \/ /\ build = "poll"
        /\ UNCHANGED <<kind, abandoned, already, undefined>>
        /\ Poll!Step(t)

MCFairSpec ==
  /\ MCSpec
  /\ WF_mcVars(Tick /\ UNCHANGED build)
  /\ \A t \in Threads : WF_mcVars(InFunction(t))

------------------------------------------------------------------------------
(* Properties                                                               *)

\* The milliseconds to the limit, or of the sleep, fit a DWORD.  Polling uses
\* none.
Fits(t) ==
  build = "poll" \/ wait[t].ts - timespec_get(wait[t].from) <= (INFINITE - 2) * NsPerMs

\* tinycthread.h:225: mtx_timedlock gives up, and thrd_sleep returns, not
\* before the specified time, in either build, as long as the time fits.
NotEarly ==
  [][\A t \in Threads :
       /\ pc[t] \in {"timedlock", "busy", "sleep"} /\ pc'[t] = "out"
       /\ UNCHANGED <<owner, depth>> /\ Fits(t)
       => now >= wait[t].ts]_mcVars

\* And what the function waits for is that time: a wait ends at most two
\* milliseconds after it, and the sleep between two tries not after it, but
\* for what the clock does not tell.
WaitsEndNearLimit ==
  \A t \in Threads : Fits(t) =>
    /\ pc[t] \in {"timedlock", "sleep"} =>
         wait[t].until \in wait[t].ts .. wait[t].ts + 2 * NsPerMs + Resolution - 1
    /\ pc[t] = "nap" => wait[t].until \in wait[t].from + 1 .. wait[t].ts + Resolution - 1

\* A thread of Windows waits for what can come: the time is not taken for
\* INFINITE, and the caller has not locked the mutex itself, unless recursive.
\* It would enter the lock again, and wait for its own mAlreadyLocked in the
\* loop at tinycthread.c:174, which has no time.
WaitsInTime(t) ==
  pc[t] = "timedlock" /\ wait[t].until # Never /\ (recursive \/ held[t] = 0)

\* mAlreadyLocked may be set for good: by a thread that exited with the mutex.
FlagLeft == ~recursive /\ (Exited \/ undefined)

\* tinycthread.h:225: mtx_timedlock "Blocks until either the given mutex can
\* be locked, or the specified TIME_UTC based time" has passed.  So it is in
\* either build, recursive or not: whoever holds the mutex, and keeps it, the
\* loop at tinycthread.c:174 is reached only with the mutex free.
TimedLockEnds ==
  \A t \in Threads : (pc[t] = "poll" \/ WaitsInTime(t)) ~> (pc[t] = "out" \/ FlagLeft)
==============================================================================
