-------------------------------- MODULE TtClock --------------------------------
(***************************************************************************)
(* The clock of tinycthread.c, and how long its functions wait.            *)
(*                                                                         *)
(* Time is counted in nanoseconds, of which a millisecond has NsPerMs      *)
(* here.  A time limit is a point in time; Windows waits for a number of   *)
(* milliseconds instead, in a DWORD whose largest value means for ever.    *)
(* Quotients are C's, which truncate towards zero.                         *)
(***************************************************************************)
EXTENDS Integers

CONSTANTS
  NsPerMs,      \* 1000000 in the code
  MsPerSec,     \* 1000 in the code
  Resolution,   \* of timespec_get: a millisecond where tinycthread has its own
  DWord,        \* the values of a DWORD are 0 .. DWord - 1
  PollMs,       \* mtx_timedlock sleeps at most 5 of them between two tries
  MaxNow        \* bound of the model on the time of the last call

ASSUME ClockAssumption ==
  /\ {NsPerMs, MsPerSec, Resolution, DWord, PollMs} \subseteq Nat \ {0}
  /\ NsPerMs % Resolution = 0 /\ DWord > 1 /\ PollMs <= MsPerSec
  /\ MaxNow \in Nat

VARIABLE now

NsPerSec == NsPerMs * MsPerSec
Sec(x) == x \div NsPerSec
Nsec(x) == x % NsPerSec

Quotient(x, k) == IF x >= 0 THEN x \div k ELSE 0 - ((0 - x) \div k)

timespec_get(x) == x - (x % Resolution)

\* A wait for ever, which the longest number of milliseconds stands for.
Never == -1
INFINITE == DWord - 1
After(ms) == IF ms = INFINITE THEN Never ELSE now + ms * NsPerMs
Passed(until) == until # Never /\ now >= until

\* Mutant of TimeoutMs: the rest of a millisecond is cut off.
TimeoutMsTruncated(cur, ts) ==
  IF cur >= ts THEN 0
  ELSE ((Sec(ts) - Sec(cur)) * MsPerSec + Quotient(Nsec(ts) - Nsec(cur), NsPerMs)) % DWord

\* mtx_timedlock: the milliseconds from cur to ts.
TimeoutMs(cur, ts) ==
  IF cur >= ts THEN 0
  ELSE ((Sec(ts) - Sec(cur)) * MsPerSec + Quotient(Nsec(ts) - Nsec(cur), NsPerMs) + 1) % DWord

\* Mutant of CndTimeoutMs: the difference is not tested before it is cast.
CndTimeoutMsWrapped(cur, ts) == (ts \div NsPerMs - cur \div NsPerMs) % DWord

\* cnd_timedwait: likewise, of times cut to milliseconds.
CndTimeoutMs(cur, ts) ==
  IF ts \div NsPerMs > cur \div NsPerMs
  THEN (ts \div NsPerMs - cur \div NsPerMs) % DWord ELSE 0

\* thrd_sleep: the milliseconds of a duration.
SleepMs(d) ==
  (Sec(d) * MsPerSec + Nsec(d) \div NsPerMs + (IF Nsec(d) % NsPerMs = 0 THEN 0 ELSE 1)) % DWord

\* Mutant of Nap: nothing is borrowed from the seconds.
NapUnborrowed(cur, ts) == [sec |-> Sec(ts) - Sec(cur), nsec |-> Nsec(ts) - Nsec(cur)]

\* mtx_timedlock where the system has none: the time from cur to ts, with
\* the borrow, and how much of it is slept at once.
Nap(cur, ts) ==
  LET borrow == IF Nsec(ts) < Nsec(cur) THEN 1 ELSE 0
  IN [sec |-> Sec(ts) - Sec(cur) - borrow,
      nsec |-> Nsec(ts) - Nsec(cur) + borrow * NsPerSec]
NapNs(d) == IF d.sec # 0 \/ d.nsec > PollMs * NsPerMs THEN PollMs * NsPerMs ELSE d.nsec
==============================================================================
