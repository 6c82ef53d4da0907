------------------------------- MODULE FtInterp -------------------------------
(***************************************************************************)
(* The classes of an interpreter: FtCls_Alloc and FtCls_Init of            *)
(* VM/Ft_class.c, the registry of VM/Ft_interpreter.c, and the use of a    *)
(* class's pool in FtObj_Init of VM/Ft_object.c.                           *)
(*                                                                         *)
(* The registry holds copies of classes; FtCls_Init looks a class up by    *)
(* name among the copies, so a class is never found to be itself.  Classes *)
(* share the default pool, but each native class has a pool of its own, in *)
(* an array that moves when it grows.  An error code stays set: from then  *)
(* on FtCls_Alloc returns NULL, and a new pool gets arrays without memory. *)
(* No caller looks at the error: the program goes on with the NULL, with a *)
(* class that FtCls_Init refused, and with pools that have no memory.      *)
(* Where it then uses one, its behaviour is undefined, and the model ends. *)
(***************************************************************************)
EXTENDS Naturals, Sequences, SequencesExt

CONSTANTS
  Classes,   \* pointers to classes in the program: intObjCls, nilCls, ...
  ClsNames,  \* the names of classes
  PoolCap    \* DEFAULT_CAP of Ft_array.c, 32: the pools the array has room for

ASSUME InterpAssumption == PoolCap \in Nat \ {0}

VARIABLES
  cls,       \* cls[c]: the class a pointer is to, see NewCls
  clazzes,   \* the registry: copies of classes
  pools,     \* the pools of native classes: [owners, cap, block]
  err,       \* the error code
  undefined  \* whether the behaviour of the program is undefined by now

vars == <<cls, clazzes, pools, err, undefined>>

\* Values of clazz->pool: what malloc left, &defaultPool, or a pool of the
\* array, sound or with arrays without memory.
Junk == [kind |-> "junk"]
DefaultPool == [kind |-> "default"]
OwnPool(i, block, sound) == [kind |-> "own", idx |-> i, block |-> block, sound |-> sound]

NewCls(name, native) == [state |-> "allocated", name |-> name, native |-> native, pool |-> Junk]
NoCls == [state |-> "none"]
NullCls == [state |-> "NULL"]

Exists(c) == cls[c].state \notin {"none", "NULL"}

\* FtInterp_Init up to its first class, and once_InitClassModule.
Init ==
  /\ cls = [c \in Classes |-> NoCls]
  /\ clazzes = <<>>
  /\ pools = [owners |-> <<>>, cap |-> PoolCap, block |-> 0]
  /\ err = "none"
  /\ undefined = FALSE

FtCls_Alloc(c, name, native) ==
  /\ cls[c] = NoCls
  /\ cls' = [cls EXCEPT ![c] = IF err = "none" THEN NewCls(name, native) ELSE NullCls]
  /\ UNCHANGED <<clazzes, pools, err, undefined>>

\* Mutant of FtInterp_FindCls: the newest class is not looked at.
FindsOlder(name) == \E i \in 1 .. Len(clazzes) - 1 : clazzes[i].name = name

\* FtInterp_FindCls returns a class.
FtInterp_FindCls(name) == \E i \in DOMAIN clazzes : clazzes[i].name = name

\* A class whose name is taken is left as it is; it has no pool unless it was
\* registered earlier.
Refuse(c) ==
  cls' = [cls EXCEPT ![c].state = IF @ = "registered" THEN @ ELSE "refused"]

\* Mutant of Redefined: FtCls_Init refuses the class without an error.
RefusedSilently(c) ==
  /\ Exists(c)
  /\ FtInterp_FindCls(cls[c].name)
  /\ Refuse(c)
  /\ UNCHANGED <<clazzes, pools, err, undefined>>

Redefined(c) ==
  /\ Exists(c)
  /\ FtInterp_FindCls(cls[c].name)
  /\ Refuse(c)
  /\ err' = "redefined"
  /\ UNCHANGED <<clazzes, pools, undefined>>

\* The class gets the pool, and a copy of it goes into the registry.
Register(c, pool) ==
  /\ cls' = [cls EXCEPT ![c].pool = pool, ![c].state = "registered"]
  /\ clazzes' = Append(clazzes, cls'[c])

InitDefault(c) ==
  /\ Exists(c) /\ ~cls[c].native
  /\ ~FtInterp_FindCls(cls[c].name)
  /\ Register(c, DefaultPool)
  /\ UNCHANGED <<pools, err, undefined>>

\* Mutant of PoolsGrown: the array is moved for every pool.
PoolsMoved(c) ==
  [owners |-> Append(pools.owners, c), cap |-> 2 * pools.cap, block |-> pools.block + 1]

\* FtArr_AppendZeroed on the array of pools.
PoolsGrown(c) ==
  IF Len(pools.owners) = pools.cap
  THEN [owners |-> Append(pools.owners, c), cap |-> 2 * pools.cap, block |-> pools.block + 1]
  ELSE [pools EXCEPT !.owners = Append(@, c)]

InitNative(c) ==
  /\ Exists(c) /\ cls[c].native
  /\ ~FtInterp_FindCls(cls[c].name)
  /\ pools' = PoolsGrown(c)
  /\ Register(c, OwnPool(Len(pools'.owners), pools'.block, err = "none"))
  /\ UNCHANGED <<err, undefined>>

\* The caller of FtCls_Alloc did not look at the NULL it got: it sets the
\* fields of the class (Ft_IntObj.c:44), or FtCls_Init reads its name.
NullInit(c) ==
  /\ cls[c] = NullCls
  /\ undefined' = TRUE
  /\ UNCHANGED <<cls, clazzes, pools, err>>

FtCls_Init(c) == Redefined(c) \/ InitDefault(c) \/ InitNative(c) \/ NullInit(c)

\* clazz->pool is the address of a pool with memory.  The pools of an array
\* that has moved since are no more where they were.
PoolUsable(c) ==
  \/ cls[c].pool = DefaultPool
  \/ /\ cls[c].pool.kind = "own"
     /\ cls[c].pool.sound
     /\ cls[c].pool.block = pools.block

\* An object of a class that was through FtCls_Init, as FtIntObj_Init makes
\* one.  What FtMemPool_Alloc does in a pool is in FtMemPool.
FtObj_Init(c) ==
  /\ cls[c].state \in {"registered", "refused"}
  /\ undefined' = ~PoolUsable(c)
  /\ UNCHANGED <<cls, clazzes, pools, err>>

\* Some other function sets the error code, as handle_plus does.
Fail == err' = "other" /\ UNCHANGED <<cls, clazzes, pools, undefined>>

Next ==
  /\ ~undefined
  /\ \/ \E c \in Classes, name \in ClsNames, native \in BOOLEAN : FtCls_Alloc(c, name, native)
     \/ \E c \in Classes : FtCls_Init(c) \/ FtObj_Init(c)
     \/ Fail

Spec == Init /\ [][Next]_vars

------------------------------------------------------------------------------
(* Properties                                                               *)

ClassRecords ==
  [state : {"allocated", "refused", "registered"}, name : ClsNames, native : BOOLEAN,
   pool : {Junk, DefaultPool} \cup
          [kind : {"own"}, idx : Nat, block : Nat, sound : BOOLEAN]]

\* Type correctness, and the array of pools has room for the pools in it.
TypeOK ==
  /\ cls \in [Classes -> {NoCls, NullCls} \cup ClassRecords]
  /\ clazzes \in Seq(ClassRecords)
  /\ pools \in [owners : Seq(Classes), cap : Nat \ {0}, block : Nat]
  /\ Len(pools.owners) <= pools.cap
  /\ err \in {"none", "redefined", "other"}
  /\ undefined \in BOOLEAN

Registered == { c \in Classes : cls[c].state = "registered" }

\* The registry has one entry for each registered class, with the name and
\* the pool the class still has, and no two of one name.
RegistryExact ==
  /\ ToSet(clazzes) = { cls[c] : c \in Registered }
  /\ \A i, j \in DOMAIN clazzes : clazzes[i].name = clazzes[j].name => i = j

\* A native class allocates its objects, whose size is its own, from a pool
\* no other class has; the pool knows its class.
PoolsAreOwn ==
  \A c \in Registered : cls[c].native => pools.owners[cls[c].pool.idx] = c

\* The address of its pool in a registered class is good, as long as there
\* are no more native classes than the array of pools had room for at first.
PoolAddressesGood ==
  Len(pools.owners) <= PoolCap =>
    \A c \in Registered : cls[c].native => cls[c].pool.block = pools.block

\* A native class reaches its own pool.
PoolsReached == PoolsAreOwn /\ PoolAddressesGood

\* The program may make objects of any class that it called FtCls_Init with,
\* without a look at the error code, until one is set or there are more
\* native classes than the array of pools had room for.  So every class that
\* FtCls_Init leaves without a pool it can allocate from, a refused one or
\* one that came after an error, has an error code that tells of it.
SafeUntilError == undefined => err # "none" \/ Len(pools.owners) > PoolCap
==============================================================================
