------------------------------ MODULE FtDispatch ------------------------------
(***************************************************************************)
(* Message dispatch: FtObj_SendMsg of VM/Ft_object.c with the handlers and *)
(* the message cache of one class (VM/Ft_class.c), the handlers of one     *)
(* object of it, and the cache cleanup thread.                             *)
(*                                                                         *)
(* A sender is a thread inside or outside FtObj_SendMsg.  Its steps are    *)
(* the accesses to memory that other threads share; what it does between   *)
(* two of them is part of the first.  A nested send made by a handler is   *)
(* the sender's next send, since FtObj_SendMsg calls the handler last.     *)
(*                                                                         *)
(* The model stops (undefined) at the first access to freed memory, call   *)
(* of a function pointer nobody wrote, dereference of NULL, or handler     *)
(* written over memory that somebody else uses.                            *)
(***************************************************************************)
EXTENDS Naturals, Sequences, FiniteSets

CONSTANTS
  Senders,          \* threads that send messages to the object
  Names,            \* Ft_MsgName pointers
  MaxAddr,          \* bound of the model on integers Masked is applied to
  Addr,             \* the integer value of each name pointer
  Masked(_, _),     \* the & operator of C
  Fns,              \* Ft_MsgCallback functions
  ErrFns,           \* the functions that may call FtErr_Set
  NULL,             \* the NULL pointer, and an error code of zero
  Junk,             \* a pointer left over in memory malloc returned
  DirtyBuckets,     \* the buckets that may hold Junk in fresh memory
  InitialBuckets,   \* how many buckets FtCls_Alloc may allocate, {50} in the code
  CountMod,         \* 2 ^ (bits of atomic_uint_fast32_t)
  CleanupBatch,     \* caches the cleanup thread pops per wakeup, 100
  SpuriousWakeups,  \* may cnd_wait return without a signal?
  MaxHandlers,      \* bound of the model on the class's handlers
  MaxObjHandlers,   \* bound of the model on the object's handlers
  MaxCaches         \* bound of the model on the caches ever allocated

\* `n * 3 / 4`: the mask FtObj_SendMsg and FtCls_Alloc give n buckets.
Mask(buckets) == (buckets * 3) \div 4

ASSUME DispatchAssumption ==
  /\ MaxAddr \in Nat
  /\ Addr \in [Names -> 0 .. MaxAddr]
  /\ \A a, m \in 0 .. MaxAddr : Masked(a, m) \in 0 .. m
  /\ ErrFns \subseteq Fns
  /\ NULL \notin Names \cup Fns /\ Junk \notin Names \cup {NULL}
  /\ DirtyBuckets \subseteq Nat
  /\ InitialBuckets \subseteq Nat \ {0}
  /\ \A b \in InitialBuckets : Mask(b) < MaxAddr
  /\ CountMod \in Nat \ {0, 1} /\ CleanupBatch \in Nat \ {0}
  /\ SpuriousWakeups \in BOOLEAN
  /\ MaxHandlers \in Nat /\ MaxObjHandlers \in Nat /\ MaxCaches \in Nat

VARIABLES
  handlers,      \* the class's handlers, in the order they were added
  objHandlers,   \* the object's own handlers
  err,           \* is the global error code set?
  caches,        \* every cache ever allocated
  current,       \* cls->cache
  toFree,        \* cachesToFree
  pc,            \* where each sender is
  loc,           \* the local variables of each sender
  cleaner,       \* the cleanup thread
  undefined      \* the behaviour of the program is undefined from here on

vars == <<handlers, objHandlers, err, caches, current, toFree, pc, loc,
          cleaner, undefined>>

NoLocals ==
  [name |-> NULL, ptr |-> 0, cache |-> 0, old |-> 0, idx |-> 0, fn |-> NULL,
   count |-> 0]

\* A cache in memory from malloc: the buckets in dirty hold what was there
\* before.
NewCache(buckets, accessors, dirty) ==
  [mask |-> Mask(buckets), occupied |-> 0, accessors |-> accessors,
   freed |-> FALSE,
   bucket |-> [i \in 0 .. buckets - 1 |->
                 [name |-> IF i \in dirty THEN Junk ELSE NULL, fn |-> NULL]]]

\* FtCls_Alloc, and the start of the cleanup thread.
Init ==
  /\ handlers = <<>>
  /\ objHandlers = <<>>
  /\ err = FALSE
  /\ \E b \in InitialBuckets, dirty \in SUBSET DirtyBuckets :
       caches = <<NewCache(b, 0, dirty)>>
  /\ current = 1
  /\ toFree = <<>>
  /\ pc = [s \in Senders |-> "idle"]
  /\ loc = [s \in Senders |-> NoLocals]
  /\ cleaner = [pc |-> "enter", left |-> 0]
  /\ undefined = FALSE

Has(hs, n) == \E k \in DOMAIN hs : hs[k].name = n

\* The function of the first handler for n, where a linear search stops.
First(hs, n) ==
  LET k == CHOOSE j \in DOMAIN hs :
             hs[j].name = n /\ \A i \in 1 .. j - 1 : hs[i].name # n
  IN hs[k].fn

------------------------------------------------------------------------------
(* Adding handlers, between sends                                           *)
(*                                                                          *)
(* The array of handlers of a class is made with capacity 0, that of an     *)
(* object has it from zeroed memory, and 0 doubled is 0: FtArr_Append       *)
(* writes every handler behind the array's block.  Either nobody else uses  *)
(* that memory, and the handler is there to be read, or the behaviour is    *)
(* undefined.                                                               *)

AllIdle == \A s \in Senders : pc[s] = "idle"

AddMsgHandler(n, f) ==
  /\ ~undefined
  /\ AllIdle
  /\ Len(handlers) < MaxHandlers
  /\ handlers' = Append(handlers, [name |-> n, fn |-> f])
  /\ undefined' \in BOOLEAN
  /\ UNCHANGED <<objHandlers, err, caches, current, toFree, pc, loc, cleaner>>

AddHandler(n, f) ==
  /\ ~undefined
  /\ AllIdle
  /\ Len(objHandlers) < MaxObjHandlers
  /\ objHandlers' = Append(objHandlers, [name |-> n, fn |-> f])
  /\ undefined' \in BOOLEAN
  /\ UNCHANGED <<handlers, err, caches, current, toFree, pc, loc, cleaner>>

------------------------------------------------------------------------------
(* FtObj_SendMsg                                                            *)

UNCHANGED_shared ==
  UNCHANGED <<handlers, objHandlers, err, caches, current, toFree, cleaner,
              undefined>>

\* The cache whose memory sender s is about to access, or 0.
Accessed(s) ==
  CASE pc[s] \in {"enter", "leaveHit", "leaveMiss"} -> loc[s].ptr
    [] pc[s] \in {"probe", "check", "space", "find", "name", "entry", "count",
                  "occupy", "done"} ->
         loc[s].cache
    [] pc[s] = "retire" -> loc[s].old
    [] OTHER -> 0

Valid(s) == Accessed(s) # 0 => ~caches[Accessed(s)].freed

\* Sender s is at this label, and the memory it accesses next is valid.
At(s, label) == ~undefined /\ pc[s] = label /\ Valid(s)

\* Sender s goes to this label, with these locals.
Goto(s, label, locals) ==
  /\ pc' = [pc EXCEPT ![s] = label]
  /\ loc' = [loc EXCEPT ![s] = locals]

Home(n, c) == Masked(Addr[n], caches[c].mask)
After(i, c) == Masked(i + 1, caches[c].mask)
Entry(s) == caches[loc[s].cache].bucket[loc[s].idx]

AddAccessors(c, k) ==
  caches' = [caches EXCEPT ![c].accessors = (@ + k) % CountMod]

\* Mutant of Send: the object's own handlers are not consulted.
SendSkipsOwn(s, n) ==
  /\ At(s, "idle")
  /\ Goto(s, "enter", [NoLocals EXCEPT !.name = n, !.ptr = current])
  /\ UNCHANGED_shared

\* The object's own handlers come first; then cls->cache is loaded.
Send(s, n) ==
  /\ At(s, "idle")
  /\ Goto(s, IF Has(objHandlers, n) THEN "call" ELSE "enter",
          IF Has(objHandlers, n)
          THEN [NoLocals EXCEPT !.name = n, !.fn = First(objHandlers, n)]
          ELSE [NoLocals EXCEPT !.name = n, !.ptr = current])
  /\ UNCHANGED_shared

\* atomic_fetch_add on the cache loaded before.
Enter(s) ==
  /\ At(s, "enter")
  /\ Goto(s, "load", loc[s])
  /\ AddAccessors(loc[s].ptr, 1)
  /\ UNCHANGED <<handlers, objHandlers, err, current, toFree, cleaner, undefined>>

\* cls->cache is loaded again, with its mask.
Load(s) ==
  /\ At(s, "load")
  /\ Goto(s, "probe",
          [loc[s] EXCEPT !.cache = current, !.idx = Home(loc[s].name, current)])
  /\ UNCHANGED_shared

\* Mutant of ProbeOn: the index is not advanced.
ProbeStuck(s) ==
  /\ At(s, "probe")
  /\ Entry(s).name \notin {NULL, loc[s].name}
  /\ Goto(s, "probe", loc[s])
  /\ UNCHANGED_shared

ProbeOn(s) ==
  /\ At(s, "probe")
  /\ Entry(s).name \notin {NULL, loc[s].name}
  /\ Goto(s, "probe", [loc[s] EXCEPT !.idx = After(@, loc[s].cache)])
  /\ UNCHANGED_shared

ProbeStop(s) ==
  /\ At(s, "probe")
  /\ Entry(s).name \in {NULL, loc[s].name}
  /\ Goto(s, "check", loc[s])
  /\ UNCHANGED_shared

\* The name of the entry is read once more after the loop.
Hit(s) ==
  /\ At(s, "check")
  /\ Entry(s).name # NULL
  /\ Goto(s, "leaveHit",
          [loc[s] EXCEPT !.fn = Entry(s).fn, !.ptr = current])
  /\ UNCHANGED_shared

Miss(s) ==
  /\ At(s, "check")
  /\ Entry(s).name = NULL
  /\ Goto(s, "leaveMiss", [loc[s] EXCEPT !.ptr = current])
  /\ UNCHANGED_shared

Leave(s) ==
  /\ \/ At(s, "leaveHit") /\ Goto(s, "call", loc[s])
     \/ At(s, "leaveMiss") /\ Goto(s, "scan", loc[s])
  /\ AddAccessors(loc[s].ptr, CountMod - 1)
  /\ UNCHANGED <<handlers, objHandlers, err, current, toFree, cleaner, undefined>>

\* The class's handlers in order.  The error code is tested before each is
\* compared, so any handler at all makes a pending error end the search.
\* cls->super is NULL: FtCls_Alloc is the only code that sets it.
Scan(s) ==
  /\ At(s, "scan")
  /\ IF Has(handlers, loc[s].name) /\ ~err
     THEN Goto(s, "space",
               [loc[s] EXCEPT !.fn = First(handlers, loc[s].name)])
     ELSE Goto(s, "nil", loc[s])
  /\ UNCHANGED_shared

\* Mutant of Full: one slot is kept free.
FullEarly(c) == caches[c].occupied = caches[c].mask

\* Every slot the mask counts is occupied.
Full(c) == caches[c].occupied = caches[c].mask + 1

NoGrowth(s) ==
  /\ At(s, "space")
  /\ ~Full(loc[s].cache)
  /\ Goto(s, "find",
          [loc[s] EXCEPT !.idx = Home(loc[s].name, loc[s].cache)])
  /\ UNCHANGED_shared

\* The buckets of the cache that replaces c.
NewCap(c) == 2 * (caches[c].mask + 1)

\* The bounds of the model on caches and on masks.
RoomToGrow(c) == Len(caches) < MaxCaches /\ Mask(NewCap(c)) < MaxAddr

\* Mutant of Grow: the new cache is not stored in cls->cache.
GrowUnpublished(s) ==
  /\ At(s, "space")
  /\ Full(loc[s].cache)
  /\ RoomToGrow(loc[s].cache)
  /\ \E dirty \in SUBSET DirtyBuckets :
       caches' = Append(caches, NewCache(NewCap(loc[s].cache), 1, dirty))
  /\ Goto(s, "retire",
          [loc[s] EXCEPT !.old = loc[s].cache, !.cache = Len(caches'), !.idx = 0])
  /\ UNCHANGED <<handlers, objHandlers, err, current, toFree, cleaner, undefined>>

\* A cache twice as large replaces the old one; its entries are not copied.
Grow(s) ==
  /\ At(s, "space")
  /\ Full(loc[s].cache)
  /\ RoomToGrow(loc[s].cache)
  /\ \E dirty \in SUBSET DirtyBuckets :
       caches' = Append(caches, NewCache(NewCap(loc[s].cache), 1, dirty))
  /\ current' = Len(caches')
  /\ Goto(s, "retire",
          [loc[s] EXCEPT !.old = loc[s].cache, !.cache = current',
             !.idx = Masked(Addr[loc[s].name], caches'[current'].mask)])
  /\ UNCHANGED <<handlers, objHandlers, err, toFree, cleaner, undefined>>

RetireFree(s) ==
  /\ At(s, "retire")
  /\ Goto(s, "find", loc[s])
  /\ caches[loc[s].old].accessors = 0
  /\ caches' = [caches EXCEPT ![loc[s].old].freed = TRUE]
  /\ UNCHANGED <<handlers, objHandlers, err, current, toFree, cleaner, undefined>>

RetireLater(s) ==
  /\ At(s, "retire")
  /\ Goto(s, "append", loc[s])
  /\ caches[loc[s].old].accessors # 0
  /\ UNCHANGED_shared

\* With cachesToFreeMutex, which the cleanup thread holds while it scans.
AppendToFree(s) ==
  /\ At(s, "append")
  /\ cleaner.pc # "scan"
  /\ Goto(s, "signal", loc[s])
  /\ toFree' = Append(toFree, loc[s].old)
  /\ UNCHANGED <<handlers, objHandlers, err, caches, current, cleaner, undefined>>

\* cnd_signal is lost unless the cleanup thread is waiting.
Signal(s) ==
  /\ At(s, "signal")
  /\ Goto(s, "find", loc[s])
  /\ cleaner' = IF cleaner.pc = "wait" THEN [cleaner EXCEPT !.pc = "wake"] ELSE cleaner
  /\ UNCHANGED <<handlers, objHandlers, err, caches, current, toFree, undefined>>

\* The insertion goes round the probe sequence at most once.
Find(s) ==
  LET next == After(loc[s].idx, loc[s].cache)
  IN /\ At(s, "find")
     /\ IF Entry(s).name = NULL
        THEN Goto(s, "name", loc[s])
        ELSE Goto(s, IF next = Home(loc[s].name, loc[s].cache) THEN "done" ELSE "find",
                  [loc[s] EXCEPT !.idx = next])
     /\ UNCHANGED_shared

WriteName(s) ==
  /\ At(s, "name")
  /\ Goto(s, "entry", loc[s])
  /\ caches' = [caches EXCEPT ![loc[s].cache].bucket[loc[s].idx].name = loc[s].name]
  /\ UNCHANGED <<handlers, objHandlers, err, current, toFree, cleaner, undefined>>

\* Mutant of WriteEntry: the handler is not copied into the entry.
WriteEntryNoHandler(s) ==
  /\ At(s, "entry")
  /\ Goto(s, "count", loc[s])
  /\ UNCHANGED_shared

WriteEntry(s) ==
  /\ At(s, "entry")
  /\ Goto(s, "count", loc[s])
  /\ caches' = [caches EXCEPT ![loc[s].cache].bucket[loc[s].idx].fn = loc[s].fn]
  /\ UNCHANGED <<handlers, objHandlers, err, current, toFree, cleaner, undefined>>

\* `cache->occupied++` is no atomic operation: a load and a store.
LoadOccupied(s) ==
  /\ At(s, "count")
  /\ Goto(s, "occupy", [loc[s] EXCEPT !.count = caches[loc[s].cache].occupied])
  /\ UNCHANGED_shared

StoreOccupied(s) ==
  /\ At(s, "occupy")
  /\ Goto(s, "done", loc[s])
  /\ caches' = [caches EXCEPT ![loc[s].cache].occupied = loc[s].count + 1]
  /\ UNCHANGED <<handlers, objHandlers, err, current, toFree, cleaner, undefined>>

\* Mutant of Done: the accessor count is left alone.
DoneOnce(s) ==
  /\ At(s, "done")
  /\ Goto(s, "call", loc[s])
  /\ UNCHANGED_shared

\* The accessor count is decremented a second time.
Done(s) ==
  /\ At(s, "done")
  /\ Goto(s, "call", loc[s])
  /\ AddAccessors(loc[s].cache, CountMod - 1)
  /\ UNCHANGED <<handlers, objHandlers, err, current, toFree, cleaner, undefined>>

\* The handler runs; nothing ever calls Ft_ClearError.
Call(s) ==
  /\ At(s, "call")
  /\ loc[s].fn # NULL
  /\ Goto(s, "idle", NoLocals)
  /\ err' \in {err} \cup (IF loc[s].fn \in ErrFns THEN {TRUE} ELSE {})
  /\ UNCHANGED <<handlers, objHandlers, caches, current, toFree, cleaner, undefined>>

ReturnNil(s) ==
  /\ At(s, "nil")
  /\ Goto(s, "idle", NoLocals)
  /\ UNCHANGED_shared

\* Memory that was freed is accessed, or a pointer nobody wrote is called.
Misstep(s) ==
  /\ ~undefined
  /\ \/ ~Valid(s)
     \/ pc[s] = "call" /\ loc[s].fn = NULL
  /\ undefined' = TRUE
  /\ UNCHANGED <<handlers, objHandlers, err, caches, current, toFree, pc, loc, cleaner>>

SenderStep(s) ==
  \/ Enter(s) \/ Load(s) \/ ProbeOn(s) \/ ProbeStop(s) \/ Hit(s) \/ Miss(s)
  \/ Leave(s) \/ Scan(s) \/ NoGrowth(s) \/ Grow(s)
  \/ RetireFree(s) \/ RetireLater(s) \/ AppendToFree(s) \/ Signal(s)
  \/ Find(s) \/ WriteName(s) \/ WriteEntry(s) \/ LoadOccupied(s)
  \/ StoreOccupied(s) \/ Done(s) \/ Call(s) \/ ReturnNil(s) \/ Misstep(s)

------------------------------------------------------------------------------
(* thread_CacheCleanup                                                      *)

UNCHANGED_senders ==
  UNCHANGED <<handlers, objHandlers, err, caches, current, pc, loc>>

Wait ==
  /\ ~undefined
  /\ cleaner.pc = "enter"
  /\ cleaner' = [cleaner EXCEPT !.pc = "wait"]
  /\ UNCHANGED_senders /\ UNCHANGED <<toFree, undefined>>

WakeSpuriously ==
  /\ ~undefined
  /\ SpuriousWakeups
  /\ cleaner.pc = "wait"
  /\ cleaner' = [cleaner EXCEPT !.pc = "wake"]
  /\ UNCHANGED_senders /\ UNCHANGED <<toFree, undefined>>

LockList ==
  /\ ~undefined
  /\ cleaner.pc = "wake"
  /\ cleaner' = [pc |-> "scan", left |-> CleanupBatch]
  /\ UNCHANGED_senders /\ UNCHANGED <<toFree, undefined>>

Last == toFree[Len(toFree)]

\* FtArr_Get with index len - 1: NULL when the list is empty.
ScanMisstep ==
  /\ ~undefined
  /\ cleaner.pc = "scan"
  /\ toFree # <<>> => caches[Last].freed
  /\ undefined' = TRUE
  /\ UNCHANGED_senders /\ UNCHANGED <<toFree, cleaner>>

ScanBusy ==
  /\ ~undefined
  /\ cleaner.pc = "scan"
  /\ toFree # <<>> /\ ~caches[Last].freed
  /\ caches[Last].accessors # 0
  /\ cleaner' = [pc |-> "enter", left |-> 0]
  /\ UNCHANGED_senders /\ UNCHANGED <<toFree, undefined>>

\* The cache is dropped from the list; nothing frees it.
ScanPop ==
  /\ ~undefined
  /\ cleaner.pc = "scan"
  /\ toFree # <<>> /\ ~caches[Last].freed
  /\ caches[Last].accessors = 0
  /\ toFree' = SubSeq(toFree, 1, Len(toFree) - 1)
  /\ cleaner' = IF cleaner.left > 1 THEN [cleaner EXCEPT !.left = @ - 1]
                                    ELSE [pc |-> "enter", left |-> 0]
  /\ UNCHANGED_senders /\ UNCHANGED undefined

CleanerStep ==
  Wait \/ WakeSpuriously \/ LockList \/ ScanMisstep \/ ScanBusy \/ ScanPop

------------------------------------------------------------------------------

Next ==
  \/ \E n \in Names, f \in Fns : AddMsgHandler(n, f) \/ AddHandler(n, f)
  \/ \E s \in Senders, n \in Names : Send(s, n)
  \/ \E s \in Senders : SenderStep(s)
  \/ CleanerStep

Spec == Init /\ [][Next]_vars

\* A thread that can take a step inside FtObj_SendMsg eventually takes one:
\* the operating system keeps running a thread that can run.
FairSpec == Spec /\ \A s \in Senders : WF_vars(SenderStep(s))

------------------------------------------------------------------------------
(* Properties                                                               *)

Labels == {"idle", "enter", "load", "probe", "check", "leaveHit", "leaveMiss",
           "scan", "space", "retire", "append", "signal", "find", "name",
           "entry", "count", "occupy", "done", "call", "nil"}

HandlerType == [name : Names, fn : Fns]

CacheType(c) ==
  /\ c.mask \in Nat /\ c.occupied \in Nat
  /\ c.accessors \in 0 .. CountMod - 1
  /\ c.freed \in BOOLEAN
  /\ c.mask \in DOMAIN c.bucket
  /\ \A i \in DOMAIN c.bucket :
       c.bucket[i] \in [name : Names \cup {NULL, Junk}, fn : Fns \cup {NULL}]

\* Type correctness.  A cache a sender works on exists, and the bucket it
\* looks at is one the cache's memory has room for.
TypeOK ==
  /\ handlers \in Seq(HandlerType) /\ objHandlers \in Seq(HandlerType)
  /\ err \in BOOLEAN /\ undefined \in BOOLEAN
  /\ \A c \in DOMAIN caches : CacheType(caches[c])
  /\ current \in DOMAIN caches
  /\ toFree \in Seq(DOMAIN caches)
  /\ pc \in [Senders -> Labels]
  /\ \A s \in Senders :
       /\ loc[s].name \in Names \cup {NULL}
       /\ {loc[s].ptr, loc[s].cache, loc[s].old} \subseteq {0} \cup DOMAIN caches
       /\ loc[s].fn \in Fns \cup {NULL}
       /\ loc[s].count \in Nat
       /\ loc[s].cache # 0 => loc[s].idx \in DOMAIN caches[loc[s].cache].bucket
  /\ cleaner \in [pc : {"enter", "wait", "wake", "scan"}, left : 0 .. CleanupBatch]

\* A send runs the handler the tables name: the object's own first handler
\* for the message if it has one, else the first one of the class, whether
\* the function came from the cache or from the handlers; and it returns nil
\* only if neither has a handler, or an error was set before.  Handlers added
\* after a message was cached must not change which one that is.
SendRunsFirstHandler ==
  \A s \in Senders :
    /\ pc[s] = "call" =>
         IF Has(objHandlers, loc[s].name)
         THEN loc[s].fn = First(objHandlers, loc[s].name)
         ELSE Has(handlers, loc[s].name) /\ loc[s].fn = First(handlers, loc[s].name)
    /\ pc[s] = "nil" =>
         /\ ~Has(objHandlers, loc[s].name)
         /\ ~Has(handlers, loc[s].name) \/ err

\* A sender has written a name into this bucket and has not counted it yet.
InTheMaking(c, i) ==
  \E s \in Senders : /\ pc[s] \in {"entry", "count", "occupy"}
                     /\ loc[s].cache = c /\ loc[s].idx = i

\* The cache agrees with the tables: a bucket whose name is a message of the
\* program holds the class's first handler for it, no message is in two
\* buckets, and `occupied` is the number of such buckets.  Type correctness is
\* part of it: the buckets senders look at are in the cache's memory.
CacheCoherent ==
  /\ TypeOK
  /\ \A c \in DOMAIN caches :
       LET cached == { i \in DOMAIN caches[c].bucket :
                         caches[c].bucket[i].name \in Names /\ ~InTheMaking(c, i) }
           name(i) == caches[c].bucket[i].name
       IN /\ \A i \in cached :
               /\ Has(handlers, name(i))
               /\ caches[c].bucket[i].fn = First(handlers, name(i))
          /\ \A i, j \in cached : name(i) = name(j) => i = j
          /\ caches[c].occupied = Cardinality(cached)

\* While one thread sends, the cache of a class is the one it was made with.
\* A lookup reaches line 146 only if its probe met an empty bucket, and then
\* `occupied` is short of the number of buckets; once they are all taken, the
\* lookup of another message does not end, so the cache that should be
\* replaced never is (lines 146-165).  No send touches freed memory or calls
\* a function nobody wrote: what is undefined with one sender comes from the
\* arrays of handlers and from a cleanup thread that woke up for nothing.
CacheNeverReplaced ==
  /\ Len(caches) = 1
  /\ \A s \in Senders : Valid(s) /\ (pc[s] = "call" => loc[s].fn # NULL)

\* The cache the class points to has not been freed or queued to be freed,
\* so a sender that has just loaded cls->cache holds a pointer to live memory.
CurrentCacheLive ==
  /\ ~caches[current].freed
  /\ \A k \in DOMAIN toFree : toFree[k] # current

\* The buckets the probe sequence from i visits.
Orbit(i, c) ==
  LET visited[k \in Nat] ==
        IF k = 0 THEN {i}
        ELSE LET seen == visited[k - 1]
             IN seen \cup { After(j, c) : j \in seen }
  IN visited[caches[c].mask + 1]

\* The probe loop of s can meet its name or an empty bucket.
CanStop(s) ==
  \E i \in Orbit(loc[s].idx, loc[s].cache) :
    caches[loc[s].cache].bucket[i].name \in {NULL, loc[s].name}

\* A lookup terminates as long as a bucket of its probe sequence is empty or
\* holds its message; without one the loop of Ft_object.c:105 never ends.
\* Undefined behaviour of the cleanup thread may end it otherwise.
LookupEnds ==
  \A s \in Senders :
    (pc[s] = "probe" /\ CanStop(s)) ~> (pc[s] \notin {"probe", "check"} \/ undefined)

\* Between sends the accessors of a cache are as far below zero as there are
\* entries in it, since the send that makes an entry counts itself out twice
\* (Ft_object.c:117, 181); the scan at Ft_object.c:28 takes the wrapped count
\* for a cache in use.  A send counts itself right otherwise: one that ends
\* with a hit, with nil or without an entry leaves no trace.
AccessorsLagEntries ==
  AllIdle => \A c \in DOMAIN caches :
    (caches[c].accessors + caches[c].occupied) % CountMod = 0
==============================================================================
