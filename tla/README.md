# fast-talk in TLA+

fast-talk is the beginning of a Smalltalk-like scripting language in C: a small
run-time system (`src/VM`) with one native class (`src/NativeObjects`), a
benchmark (`src/main.c`) and a portable C11 threads layer
(`src/tinycthread`). It has no tests. The run-time system keeps pointers into
arrays that move, counts references with atomics, and answers messages through
a cache that several threads are meant to read without a lock while one of them
replaces it: the benchmark itself is single-threaded but for the cache cleanup
thread, and the repository's README plans "(eventually) easy parallelism".

These modules state what that code promises, check it with TLC on small
instances, and prove part of it with TLAPS for every value of the constants.

## 1. The system

| component | state | operations | used by |
|---|---|---|---|
| dynamic array, `Ft_array.c` | len, cap, a memory block | Init, Delete, Resize, Append, AppendZeroed, Pop, Get, Set, IndexOf | every other part of `VM/` |
| object pool, `Ft_MemPool.c` | bitset words, a stack of the words with free slots, the array of objects | Init, Alloc, Free | objects |
| objects, `Ft_object.c` 46-88 | reference count, pool index and handlers in each object | FtObj_Init, AddHandler, INCREF, DECREF | everything that runs a message |
| message dispatch, `Ft_object.c` 90-189 and `Ft_class.c` | handlers of class and object, the class's message cache, the list of retired caches, the error code | FtCls_Alloc, FtCls_AddMsgHandler, FtObj_SendMsg | main, handlers |
| cache cleanup thread, `Ft_object.c` 13-44 | the list of retired caches, a mutex, a condition variable | wait, scan | dispatch |
| class registry, `Ft_class.c` 54-72, `Ft_interpreter.c` | array of class copies, array of pools | FtInterp_Init, AddCls, FindCls, FtCls_Init | native classes |
| message names and messages, `Ft_msg.c`, `Ft_str.c` | array of interned names; argument blocks | FtMsgName_Find, FtMsg_Init, FtStaticMsg_Init | dispatch |
| environment, `Ft_env.c` | names and objects, a parent | Init, Set, Find | interpreter (global environment) |
| error code and allocation, `Ft_stdlib.c` | one global error code | Set, Get, Clear; Alloc, Free | all |
| integer objects, `Ft_IntObj.c` | the class of integers, a number in each object | Init, + | main |
| threads, `tinycthread.c` | start information, handles, once flags, mutexes, condition variables, thread-specific storage | C11 names | pools, names, cleanup thread |
| clocks, `tinycthread.c` | none: points in time and durations | timespec_get, thrd_sleep, the limits of mtx_timedlock and cnd_timedwait | callers of those |
| benchmark, `main.c` | an array of copied objects | makes, adds, copies and drops integers | nobody |

How they interact. `FtObj_SendMsg` looks for a handler in the object, then in
the class's cache, then in the class's array of handlers; a handler it finds
there is put into the cache, and the function is called last, from outside
every lock. A cache with no free bucket is replaced by one twice its size; the
old one is freed if nobody is using it, or else appended to `cachesToFree`,
under a mutex, for the cleanup thread, which is woken with `cnd_signal`.
Objects live in their class's pool, and a class's pool in an array of pools.
Errors are reported through one global code that callers test after the fact.

What is hard in this code, and where it bites, is listed line by line under
"hazards" in `PROJECT.json`. In short: indices of bits, words and objects that
must agree; arrays that move under pointers into them; memory used again with
what its last owner left in it; two atomic operations where one was meant; a
cache pointer loaded before its accessor count is raised; a probe loop with no
bound; an error code that stays set; and, on Windows, synchronisation built
from events that collapse.

## 2. The plan

Modules are ordered by how much of the run-time system rests on them. Those
marked *done* are here; the rest is what comes next.

1. *done* `FtMemPool` under `FtObject` under `FtIntObj`, with `SlotAllocator` as
   what the pool promises and `FtMemPoolProofs`;
2. *done* `FtDispatch`: sends, the cache, its retirement and the cleanup thread;
3. *done* `TtCallOnce` with `Once`, and `FtStart` over it; `TtMtx`, `TtCnd`, and
   `TtTss` under `TtThrd`: threads and their synchronisation, on Windows; `TtClock`
   for the time limits, in `TtMtxTime`, `TtPoll` and `TtCndTime`;
4. *done* `FtArray` with `FtList`, `FtEnv` over it, `FtMsgName` under `FtMsg`, and
   `FtInterp`;
5. *done* the proofs: of the pool with its objects and integers, of dispatch, of the
   array and the environment, of the registry, of names and messages, of
   `call_once` and the start of the object module, of mutexes and condition variables
   with their time limits, of storage and start information;
6. *done* the proof that destructors run and nodes are freed (`EndsClean`), by the
   shape of a list of at most two nodes;
7. next: an abstract specification of a condition variable and of thread-specific
   storage; the table of names with two threads, and the error code shared by
   `FtArray`, `FtInterp` and `FtDispatch` as one component.

Worth proving, in this order: type correctness; the invariants that pointers and
indices rest on; refinement of the abstract specifications; safety of dispatch.

## 3. Modules and the code

Every definition that stands for code is listed with its lines under "map" in
`PROJECT.json`. A definition whose comment begins "Mutant of" is a plausible
wrong version of the one it names; nothing refers to it but the mutation test
of a property.

**`FtMemPool`** (VM/Ft_MemPool.c). `freeValues` is the array of bitset words, a
word being the set of its set bits; `valuesWithOpenSlots` the stack of words
that have one; `pool` the length, capacity and memory block of the array of
objects. `idxOf` and `cellOf` belong to the caller: the index and the pointer
it was given. They are kept apart because the code keeps them apart, and
because a pointer goes stale when `FtArr_Resize` moves the array. The three
disjuncts of `Alloc` are the three ways through `FtMemPool_Alloc`. `FreeSlot` is
line 30 as it stands, which adds a bit number to a word number.

**`FtObject`** (VM/Ft_object.c 46-88) extends `FtMemPool`: `New` is
`FtObj_Init`, which calls `FtMemPool_Alloc`; `DecRef`, `LoadNonZero`, `LoadZero`
and `Release` are `_FtObj_DECREF`, whose decrement and load are two atomic
operations and two steps. The fields of an object (`mem`) are memory of its cell
and stay when the cell is given back. Its array of handlers has capacity 0, from
zeroed memory, so `AddHandler` writes behind a block: the handler is there to be
read, or the behaviour is `undefined` from there on and the model stops.

**`FtIntObj`** (NativeObjects/Ft_IntObj.c, main.c) extends `FtObject`: an integer is
memory of its cell, + reads two of them, and a copy that main.c keeps outside of
the pool is dropped by giving back the slot of the object it was copied from.
`number` is what the program expects of each integer.

**`FtDispatch`** (VM/Ft_object.c 13-44 and 90-189, VM/Ft_class.c). One step for
each access to memory that other threads share; `pc` names the place in
`FtObj_SendMsg` and `loc` holds its local variables. `caches` keeps every cache
ever allocated, so that a pointer to a freed one can be told (`freed`); cls->cache
is `current`. What C leaves undefined ends the run: `undefined` is set by
`Misstep` (freed memory is accessed, a function pointer nobody wrote is called),
by `ScanMisstep` (the cleanup thread takes an element of an empty list), and it may
be set by `AddMsgHandler` and `AddHandler`, whose arrays have capacity 0.
`occupied++` is no atomic operation and so a load and a store. Memory from `malloc`
may hold `Junk` in its buckets.

**`FtInterp`** (VM/Ft_interpreter.c, VM/Ft_class.c 25-72). `cls` is the class
objects, `clazzes` the registry's copies of them, `pools` the array of pools;
`err` is the error code, which makes `FtCls_Alloc` return NULL and the arrays of a
new pool come back zeroed. No caller looks at `err`. So a NULL class is
initialised all the same (`NullInit`), and objects are made of classes that were
refused or whose pool has no memory (`FtObj_Init`): then the behaviour is
`undefined`, and the model ends.

**`FtArray`** (VM/Ft_array.c). `block` is the memory of the array, one cell for
each place it has capacity for. A capacity of 0 stays 0 when it is doubled, and an
append is then an overrun: `NoRoom`. FtArr_Init with an error code set, or for
elements of no size, returns a zeroed struct (lines 14-19 and 34-48); it is an
array of capacity 0 too, and what follows from an error code set before is in
`FtInterp`.

**`FtEnv`** (VM/Ft_env.c) extends `FtArray`: FtEnv_Set searches the array for the
name and calls FtArr_Set or FtArr_Append. The module has both kinds of user of an
array, and `use` says which one it is. The parent of an environment is left out,
because FtEnv_Find never looks into another environment than the first. So are the
eight bytes by which an element is longer than a binding (Ft_env.c:17): FtEnv_Set
copies them from beside the binding on its stack, and nothing reads them.

**`FtMsgName`** and **`FtMsg`** (VM/Ft_msg.c, VM/Ft_str.c). A string is where its
bytes are and what they spell; the address of a name is an index and the block the
table was in. `FtMsg` extends it: a message is built one argument a step, and its
name is looked up before the arguments (dynamic) or after them (static).

**`TtCallOnce`**, **`TtMtx`**, **`TtCnd`**, **`TtTss`**, **`TtThrd`**
(tinycthread.c, the Win32 branches). Critical sections, mutex objects, events
and TLS slots are the system's and modelled from how they are used; everything
between them is a step of the thread. `TtMtx` has all four kinds of mutex and a
thread that exits as the owner of a mutex object. `TtCnd` carries, beside the
code's state, what the documentation owes the waiters (`due`, `dueAll`) and
which waits a call overlaps. `TtTss` has the list of nodes of each thread with
its head and tail as the code leaves them; `DANGLING` is what the system leaves of a
node that `tss_set` freed itself. A destructor is the program's code: between
`CleanValue`, which calls it, and `CleanNext`, which reads the next node, its thread
may make any calls of the storage, and so delete the node it was called from.
`TtThrd` extends it: a thread runs the program's code once it was created and has
freed its start information (`thrd`), which may be before its creator has returned
from `thrd_create` (`Spawn`, `CreateReturn`), and a join returns when its cleanup is
over. Every call of the system
there may fail.

**`FtStart`** (Ft_object.c 37-47) extends `TtCallOnce`: the callback is
once_InitObjectModule, which makes the list, the condition variable, the two
mutexes and the cleanup thread, in that order; the threads that return from
`call_once` and the cleanup thread use them.

**`TtClock`** is the arithmetic of tinycthread.c on points in time, with quotients
that truncate and a DWORD that wraps. **`TtMtxTime`** adds a clock and time limits to
`TtMtx`, and thrd_sleep; **`TtPoll`** is mtx_timedlock of the systems that have none,
which tries and sleeps in turns; **`MCTtMtx`** is one or the other (`build`).
**`TtCndTime`** adds time limits to `TtCnd`; in both, names that `TtMtx` also has
begin with `cnd`, so that one module can speak of a mutex and a condition variable.

**`SlotAllocator`**, **`FtList`**, **`Once`** are what the pool, the array and
`call_once` promise. The detailed modules instantiate them as `Abstract` and have
`AbstractSpec` as a property.

## 4. What is checked

| run | instance | distinct states | what it shows |
|---|---|---|---|
| `object_one_thread` | 3 integers modulo 2, words of 3 bits, 1 thread, 3 references | 210,061 | while no more objects are live than a word has bits, the pool implements `SlotAllocator`, pointers stay good, counts are exact, integers keep their values though copies are dropped, reused memory has no handlers, and what is dropped is given back |
| `pool_overflow` | 4 objects, words of 2 bits | violated | beyond a word the search takes slots whose bit is clear (Ft_MemPool.c:30) |
| `dispatch_one_sender` | the code's 50 buckets and mask 37, or 2 buckets, which fill; 3 names that collide, 2 + 1 handlers, spurious wakeups | 570,840 | every send runs the handler the tables name; the cache agrees with them and is never replaced; no send uses freed memory or calls a function nobody wrote; a lookup that can end ends; the accessor count lags by the entries made |
| `dispatch_two_senders` | 2 senders, 1 bucket, up to 3 caches, spurious wakeups | 33,319 | the cache a class points to is neither freed nor queued to be freed |
| `array_list` | capacities 0 to 3, resizes to 0 to 5, 4 bindings of 3 names | 43,090 | the array implements `FtList`, overruns only with capacity 0, hands out zeroes until popped; as an environment it finds what was bound last |
| `call_once` | 4 threads; the condition variable and the cleanup thread may fail to be made | 69,804 | one callback, before any call returns; every call returns; what the callback makes is not used before it is made |
| `mutex_kinds` | 2 threads, all four kinds, depth 2, Windows and polling, 2 ns in a ms, 3 ms in a s, a DWORD of 6 values | 166,476 | one holder; the lock is entered as often as it is held; waiters see it held; time limits are kept, and timed locks end but for one's own second lock of a mutex that is not recursive |
| `condition_one_waiter` | 1 waiter, 2 callers, 3 signals and 3 broadcasts, limits before and after the call and past a DWORD | 1,198,744 | the count misses no waiter; no signal or broadcast is lost; a wait ends less than a millisecond before its limit, and not long after |
| `condition_stale_timeout` | 1 waiter, 1 caller, 1 broadcast | violated | after a timeout a `cnd_broadcast` with nobody waiting ends the next wait (tinycthread.c:406), where tinycthread.h:287 says that it does nothing |
| `storage_two_keys` | 2 threads of which 1 ends, 2 keys, 2 rounds, any system call may fail, destructors that set, create and delete | 509,026 | values are read back, destructors run, the nodes are freed, the start information has one owner, joins return and not early |
| `message_build` | 4 strings of 3 texts, up to 4 arguments | 428,889 | names compare as their texts, messages keep what they are given, within their block |
| `class_registry` | 4 classes, 3 names, room for 2 pools, errors before, between and after | 617,864 | the registry is exact, pools are the classes' own, and nothing is done with a class that has none before an error code tells of it |

Why the bounds suffice. The interesting cases of the pool are a word that fills
and empties and a stack that grows and shrinks, which a word of 3 bits and 3
objects reach in every order. The dispatch instance with one sender has the
code's own numbers for the cache, because the mask 37 and the alignment of names
are what make probe sequences two buckets long; three names suffice for a
collision with both buckets taken; the cache of 2 buckets is there to be filled.
With two senders the cache has one bucket
instead of 50, so that it fills and is replaced twice. `CountMod` stands for
2^32 or 2^64 and only has to be larger than the counts reached. Capacities of 1
to 3 and a bound of 5 make arrays grow twice. A table of names with room for 2
and 3 texts grows once; a dynamic message that starts with room for 1 grows twice
for 4 arguments, and a static one with 3 places is over-full. Time is counted in
units of which a millisecond has 2, so that a time can lie within one, and a second
has 3 milliseconds, so that one is borrowed; a DWORD of 5 or 6 values makes the
largest limits wrap and one of them INFINITE. Two threads create, set, join and
delete, and one of them ends in the run (`MaxEnds`): the cleanups of two threads meet
only in the tables of keys, which the one that does not end changes as well. Each `Max...`
constant is a bound of the model and is named so in its module.

Deadlock is checked where a thread always has something to do. Off it is: in
`object_one_thread`, both runs of dispatch, `array_list`, `class_registry`,
`mutex_kinds`, the condition variable, the threads with their storage and the
messages, where the program may be at an end (undefined behaviour reached, all
threads ended, the bound of calls used up, the program exited).

Fairness. Each liveness property assumes that the operating system keeps running
a thread that can run, and no more: weak fairness of one thread's steps inside
the function (`SenderStep`, `Decrement`, `Inside`, `InFunction`, the steps that
build a message), never of the calls a program may or may not make. For time
limits it includes that time passes (`Tick`). In `TtThrd` it is that some thread
that is ending, or whose join is over, goes on: destructors return, and since
each such thread has finitely many steps left, none is kept waiting by the
others for ever. A critical section that becomes free may be taken by others for
ever, which is why `LockGranted` says that the mutex is held sooner or later and
not by whom.

What a property says where the code is wrong. `StaysInBlock`,
`LockMatchesGrants`, `TimedLockEnds`, `AddressesCompareTexts`, `PoolsReached`,
`AccessorsLagEntries`, `NotEarly`, `WaitsEndNearLimit`, `TimedWaitNearLimit`, `EndsClean` and
`SafeUntilError` state their condition, because without it they do not
hold: an array of capacity 0 (the handlers of every class, Ft_class.c:48) is
overrun; a thread that is told of an abandoned mutex owns it; the holder of a
mutex that is not recursive spins in `mtx_timedlock` whatever its time, and so does
everybody once a thread has exited with its flag set;
addresses dangle once an array has moved; a limit too far away wraps or is taken
for ever, and cnd_timedwait cuts its limit to milliseconds; the accessor count
is decremented twice when an entry is made; the list of a thread's values loses the
third node; an error that is never cleared
spoils later allocations. `CacheNeverReplaced` states what the code does, and not what
it is meant to do: with one sender the code that replaces a full cache is never
reached.

## 5. What is proved

All theorems hold for every value of the constants that satisfies the named
ASSUME of the module. What a theorem assumes beyond that stands in its statement,
and is said here with the reason. Eight modules hold them.

* `FtMemPoolProofs`, the pool. `RangeInv` holds for any number of live objects: the
  stack names existing words and every index handed out lies in one, from which
  `MemPoolTypeCorrect` and `MemPoolLookupsInRange` follow. The other theorems
  assume `FitsOneWord`, that no more objects are live than a word has bits and
  the array starts with as many cells, as 16 and 32 in the code. Then there is one
  word at most; if its search fails, as many handles hold slots as there are bits,
  and one more handle asking would contradict the assumption: a pigeonhole on
  finite sets. So `OneWordInv` is inductive: the bit of a slot is clear exactly
  while a handle holds it, and slots are taken lowest first, which keeps them below
  the number of objects ever made. The refinement of `SlotAllocator` follows.
* The same module, objects and integers. The pool's specification lets its callers
  do what they like with indices they hold; `ObjectsUsePool` proves that
  `_FtObj_DECREF`, and main.c's way of dropping a copy, do no more, although they
  read the index from memory that others have used. `ObjInv` is what that
  takes: the count of an object is the number of references to it, the fields of a
  cell in use name that cell, cells not in use have no handlers, and a copy is of a
  slot that is still held. The theorems assume `FitsOneWord`, without which the
  pool hands out slots in use, and one thread, since two can free an object twice.
* `FtDispatchProofs`, for any number of senders. `LiveInv`: caches are retired in the
  order in which they were made, so that the current one is younger than all that
  were freed, are queued, or are about to be; a sender that retires one has
  read it while it was current. `DispatchCurrentCacheLive` follows.
* The same module, for one sender. `OneInv` is inductive: every bucket holds what the
  tables say of its name or is empty, and `occupied` counts those that have a name
  (`BucketsInv`); the buckets a lookup has passed hold other names (`Searched`); what
  it writes into an entry, and what it will call, is what it found (`Written`, `Found`);
  there is one cache, and the sender is nowhere where caches are replaced (`OneCache`);
  and accessors are off by the entries made (`Accounts`). `CacheCoherent` alone is not
  inductive, since it says nothing of a lookup under way. The step that carries
  `OneCache` is the test for a full cache: a lookup gets there only past an empty
  bucket, and so fewer buckets have names than there are (`SpaceLeft`). Nothing is
  assumed of wakeups, of sizes or of what malloc left. Two senders are excluded because
  two reach undefined behaviour (section 7).
* `FtArrayProofs`. `IInv` is type correctness with zeroed slack. The step that
  matters is growth: twice a positive length is more than the length; a move
  keeps the cells up to the length. Each operation is then an operation of
  `FtList` or leaves the list as it is. No bound on capacities is assumed. For the
  environment `Bindings`: every name is in one place, and what is there is what
  was bound. FtEnv_Set appends only names that have no place, and so the first place
  of a name is the only one. `FindReturnsBound` alone does not say that.
* `TtCallOnceProofs`. At most one thread is past the exchange it won, and the
  flag says how far it is; `IInv` relates the two, and `Once` follows by mapping
  places in the code to "in", "running" and "out". What the callback of `FtObj_Init`
  has made follows from how far it is (`InitBeforeUse`).
* `TtMtxProofs`, mutexes. `Covered`: what was granted is covered by entries into the
  system's lock, which has one owner. `Flagged`: a mutex that is not recursive and
  is held has its flag set. `Exact`: nothing else enters the lock, until a
  thread exits with it. `HeldByOne` alone is not inductive: it does not say who
  may test the flag. `TimeImplementsMtx` carries this over to the mutex with a clock,
  and `BuildInv` adds the build that polls.
* The same module, condition variables. `CountCoversWaiters` holds for any number of
  waiters and callers. For one waiter, `Owed`: what a signal or a broadcast owes it
  is on its way, as a call about to set the event or as an event set before
  the waiter looks. Two waiters can lose a wakeup, so `CndNoLostWakeup` is about
  one. `CndTimeImplementsCnd` says that time limits add nothing.
* The same module, time limits. Each wait keeps the times it was computed from
  (`MtxTimes`, `CndTimes`), and what is left is arithmetic: roundings of quotients, a
  remainder modulo a DWORD (`ClockBehind`, `Millis`, `TimeoutBounds`, `SleepBounds`,
  `NapBounds`). `ClockAssumption` has a millisecond that is a multiple of the clock's
  resolution, a DWORD with more than one value, and a polling interval of at
  most a second. In the code a millisecond is 10^6 ns and its own timespec_get
  tells 10^6, 1000 or 1 ns apart; a DWORD has 2^32 values, and it polls every 5 ms.
* `FtMsgNameProofs`. Entries are distinct texts, and what was handed out spells
  the entry it names (`Spells`, `Distinct`); addresses agree while the table is in
  its first block (`InFirstBlock`). A message takes steps of the table and no others
  (`MsgStepsTable`), and has a place for the next argument (`Roomy`).
* `FtInterpProofs`. `RegistryInv` adds to the properties that the pool of a
  registered native class lists it as owner, that the other classes have the default
  pool (`DefaultsShared`), and that until an error code is set no class is NULL or
  refused and every pool has memory (`SoundSoFar`). With the pools in their first
  block, an object can then be made of every class that was initialised.
* `TtThrdProofs`. `InfoHasOwner` is inductive but for the name of the thread that is
  created or joined (`CallsName`): a block is made for a thread nobody creates and
  that has not started, and passes from creator to thread in the step in which the
  system makes the thread, be its creator back from `thrd_create` or not. `StorageInv`
  is about the nodes: each belongs to one thread and one creation of its key, and the
  head and tail of a list are nodes of its thread, also after `tss_delete` has walked
  the list; that the walk stays among them is an induction over the places of the
  list, done as a least counterexample on a set of numbers. What `tss_get` returns
  follows for any number of threads, keys and values, up to the point where the model
  stops.
* The same module, how a thread ends. `EndInv` is inductive beside `StorageInv`, and
  about threads that have made at most two nodes (`FewNodes`). While a thread has made
  one node, its list is that node with the tail at it, or empty once it is deleted
  (`ListShape`); the second is then put after the first, or is the only one. A
  deletion of a node that is not the head, and a `tss_set` that fails, leave a freed
  node among the first two (`Broken`). Then the cleanup comes to it and the program's
  behaviour is undefined, which is why a thread that gets to the end has found all its
  nodes. That its values are gone takes `Cleaning`: a value with a destructor that a
  round has left behind was set in that round, by a destructor, and then there is
  another round, unless it was the last. A destructor may delete its own node; the
  cleanup then reads a freed node at once and the model stops. `EndsClean` alone says
  nothing of a thread that runs, so it is far from inductive.

The invariants of the proofs include type correctness, which is therefore not
also a separate invariant of the array's, the mutex's and the registry's runs. In
the runs of objects, dispatch, the condition variable, the storage and the messages
it is part of an invariant of theirs (`CountsReferences`, `CacheCoherent`,
`NoLostWakeup`, `EndsClean` and `InfoHasOwner`, `PlacedInBlock`). That no two objects
share a slot (`NoSharedSlot`) is proved, and checked as part of the refinement of
`SlotAllocator`.

## 6. What is only model-checked

Every safety property of the passing runs is stated by a theorem of section 5, some
under the hypotheses given there. What is left to TLC is liveness.

Liveness is out of the prover's reach and stays with TLC: `NothingLeaks` of objects,
`LookupEnds`, `CallsReturn`, `LockGranted`, `TimedLockEnds`, `JoinReturns`,
`BuiltOrTooLong`. No operator is recursive; the lists of `TtTss`, and the places of
a list, are recursive functions, and what is proved of them is proved over sets.

## 7. What is not modelled, and what to keep in mind

* The pool has no lock and `FtObject` runs it with one thread. With two, both may
  decrement before either loads the count, and both free the object
  (Ft_object.c:76-77).
* Every handler, of a class or of an object, is written behind the block of an array of
  capacity 0 (Ft_array.c:80-89). The models of objects and of dispatch go on where
  nobody else uses that memory, and stop where somebody does.
* With two senders, undefined behaviour is reached: a sender that has loaded
  cls->cache and not yet counted itself uses a cache that was freed (line 154);
  one that finds a name calls a handler not yet written (line 171). The model stops
  there, so `dispatch_two_senders` speaks of the runs up to that point. Two senders
  may also leave one's name with the other's handler in a bucket, and lose an
  increment of `occupied` (line 173).
* With one sender a cache is never replaced: a lookup is at the test for a full cache
  (line 146) only past an empty bucket, and once the buckets of its probe sequence
  are taken by other names it never gets there (`CacheNeverReplaced`).
* The cleanup thread takes the last element of an empty list (line 27) when it wakes
  up for nothing, and after it has popped the last cache; FtArr_Get returns NULL, the
  thread reads it, and both runs of dispatch stop there.
* No caller of FtCls_Alloc and FtCls_Init looks at the error code. Once one is set, a
  NULL class is written to (Ft_IntObj.c:44), and objects are made of classes without
  a pool; `FtInterp` stops there, and `SafeUntilError` says that it does not happen
  before.
* Handlers are added while no send is in progress: `FtArr_Append` moves the array
  the scan reads, and the program sets classes up before it sends.
* A cache popped by the cleanup thread is never freed, and a lookup whose two
  buckets hold other names never ends; `LookupEnds` has both buckets in its
  condition (`CanStop`).
* A destructor makes any calls of the storage, for every key; calls of thrd_create,
  thrd_join or thrd_exit from within one are not modelled.
* Two waiters on one condition variable may lose a signal (the event is still
  set from the last) or a broadcast (the last waiter of one resets the event of
  the next). The program's own use has one waiter.
* The third value a thread sets unlinks the second from its list, since the tail
  stays where it is (tinycthread.c:837); a value left under a key that was deleted
  goes to the destructor of the next storage with that key. A third node is lost
  also when the first was deleted before, since that clears the tail. So `EndsClean`
  speaks of threads that made at most two nodes, for any number of keys. The run
  has two keys, each created once; for more, the theorem stands.
* When TlsSetValue fails, tss_set frees a node that it has put into the list
  (tinycthread.c:851); the model stops where the freed node is used. In the run that
  is during a round; that the freeing of the list after the rounds comes to such a
  node first (the other case of `CleanMisstep`) takes a third key, or a key created twice.
* `mtx_trylock` by the holder of a timed mutex leaves a critical section that
  does not exist; the model stops there.
* cnd_timedwait may give up less than a millisecond early, where mtx_timedlock
  adds one millisecond; the property says so.
* The results of cnd_init, mtx_init and thrd_create are not looked at in
  once_InitObjectModule; `InitBeforeUse` excepts what could not be made.
* Searches that follow a chain but look at its first element every time, in
  FtEnv_Find (Ft_env.c:49) and FtObj_SendMsg (Ft_object.c:121), find nothing further
  up. No caller has such a chain yet, and the models have no parents.
* main.c makes more objects than a word has bits; `object_one_thread` is about
  fewer, and `pool_overflow` about more.
* thrd_sleep, when woken early, reports the time that has passed as `remaining`
  (tinycthread.c:726), where tinycthread.h:388 speaks of the time that remains; it
  is left out, and nothing wakes a sleeping thread here.
* Out of scope: the POSIX branches but for the polling mtx_timedlock, which are
  pthreads under other names; the conversion of the system's clocks; printing and
  timing; failing allocations; integer overflow of lengths; failures of events.
