---------------------------- MODULE FtInterpProofs ----------------------------
(***************************************************************************)
(* Proofs about the registry of classes and their pools, for any number of *)
(* classes and names and any initial room of the array of pools.           *)
(*                                                                         *)
(* A class enters the registry in one step, which looks its name up,       *)
(* appends its pool, sets its pointer and copies it; the steps before and  *)
(* after leave a registered class alone, as only an unused pointer is      *)
(* allocated and no registered class passes the look-up.  Until an error,  *)
(* every class is allocated or registered and every pool has memory; the   *)
(* pools are where the classes have them until the array moves.            *)
(***************************************************************************)
EXTENDS FtInterp, TLAPS

\* What the pointer to the pool of a registered class names.
OwnsPool(c) ==
  cls[c].native =>
    /\ cls[c].pool \in [kind : {"own"}, idx : Nat, block : Nat, sound : BOOLEAN]
    /\ cls[c].pool.idx \in DOMAIN pools.owners
    /\ pools.owners[cls[c].pool.idx] = c

PoolsOwned == \A c \in Registered : OwnsPool(c)

\* The array of pools is in its first block, and so is every pool a class
\* points to, until there are more pools than it had room for.
InFirstBlock ==
  Len(pools.owners) <= PoolCap =>
    /\ pools.cap = PoolCap /\ pools.block = 0
    /\ \A c \in Registered : cls[c].native => cls[c].pool.block = 0

\* A class that is not native has the default pool.
DefaultsShared == \A c \in Registered : ~cls[c].native => cls[c].pool = DefaultPool

\* Until an error code is set no class is NULL or refused, and the pools of
\* native classes have memory.
SoundSoFar ==
  err = "none" =>
    /\ \A c \in Classes : cls[c].state \notin {"NULL", "refused"}
    /\ \A c \in Registered : cls[c].native => cls[c].pool.sound

RegistryInv ==
  /\ TypeOK
  /\ RegistryExact
  /\ PoolsOwned
  /\ DefaultsShared
  /\ InFirstBlock
  /\ SoundSoFar
  /\ SafeUntilError

\* A class that exists is a record of a class.
LEMMA ExistingClass ==
  ASSUME TypeOK, NEW c \in Classes, Exists(c)
  PROVE  cls[c] \in ClassRecords
BY DEF TypeOK, Exists, NoCls, NullCls

\* FtInterp_Init starts without classes.
LEMMA RegistryInit == Init => RegistryInv
<1>1. SUFFICES ASSUME Init PROVE RegistryInv
  OBVIOUS
<1>2. Registered = {}
  BY <1>1 DEF Init, Registered, NoCls
<1>3. TypeOK
  <2>1. cls \in [Classes -> {NoCls, NullCls} \cup ClassRecords]
    BY <1>1 DEF Init
  <2>2. clazzes \in Seq(ClassRecords) /\ err = "none" /\ undefined = FALSE
    BY <1>1 DEF Init
  <2>3. /\ pools \in [owners : Seq(Classes), cap : Nat \ {0}, block : Nat]
        /\ Len(pools.owners) <= pools.cap
    BY <1>1, InterpAssumption DEF Init
  <2>4. QED
    BY <2>1, <2>2, <2>3 DEF TypeOK
<1>4. RegistryExact
  BY <1>1, <1>2 DEF Init, RegistryExact, ToSet
<1>5. PoolsOwned /\ InFirstBlock
  BY <1>1, <1>2 DEF Init, PoolsOwned, InFirstBlock
<1>6. DefaultsShared /\ SafeUntilError
  BY <1>1, <1>2 DEF Init, DefaultsShared, SafeUntilError
<1>7. SoundSoFar
  <2>1. \A c \in Classes : cls[c].state = "none"
    BY <1>1 DEF Init, NoCls
  <2>2. QED
    BY <1>2, <2>1 DEF SoundSoFar
<1>8. QED
  BY <1>3, <1>4, <1>5, <1>6, <1>7 DEF RegistryInv

\* FtCls_Alloc uses a pointer no class was registered under.
LEMMA AllocKeeps ==
  ASSUME RegistryInv, NEW c \in Classes, NEW name \in ClsNames, NEW native \in BOOLEAN,
         FtCls_Alloc(c, name, native)
  PROVE  RegistryInv'
<1> DEFINE new == IF err = "none" THEN NewCls(name, native) ELSE NullCls
<1>1. cls \in [Classes -> {NoCls, NullCls} \cup ClassRecords]
  BY DEF RegistryInv, TypeOK
<1>2. cls' = [cls EXCEPT ![c] = new] /\ UNCHANGED <<clazzes, pools, err, undefined>>
  BY DEF FtCls_Alloc
<1>3. new \in {NullCls} \cup ClassRecords
  BY DEF NewCls, ClassRecords
<1>4. cls[c].state = "none" /\ new.state # "registered"
  BY DEF FtCls_Alloc, NoCls, NewCls, NullCls
<1> HIDE DEF new
<1>5. Registered' = Registered /\ \A d \in Registered : cls'[d] = cls[d]
  BY <1>1, <1>2, <1>4 DEF Registered
<1>6. TypeOK'
  BY <1>1, <1>2, <1>3 DEF RegistryInv, TypeOK
<1>7. RegistryExact'
  <2>1. { cls'[d] : d \in Registered' } = { cls[d] : d \in Registered }
    BY <1>5
  <2>2. QED
    BY <1>2, <2>1 DEF RegistryInv, RegistryExact, ToSet
<1>8. PoolsOwned' /\ DefaultsShared'
  BY <1>2, <1>5 DEF RegistryInv, PoolsOwned, OwnsPool, DefaultsShared
<1>9. InFirstBlock'
  BY <1>2, <1>5 DEF RegistryInv, InFirstBlock
<1>10. SoundSoFar'
  <2>1. SUFFICES ASSUME err = "none"
                 PROVE  /\ \A d \in Registered : cls'[d].native => cls'[d].pool.sound
                        /\ \A d \in Classes : cls'[d].state \notin {"NULL", "refused"}
    BY <1>2, <1>5 DEF SoundSoFar
  <2>2. new.state \notin {"NULL", "refused"}
    BY <2>1 DEF new, NewCls
  <2>3. QED
    BY <1>1, <1>2, <1>5, <2>1, <2>2 DEF RegistryInv, SoundSoFar
<1>11. SafeUntilError'
  BY <1>2 DEF RegistryInv, SafeUntilError
<1>12. QED
  BY <1>6, <1>7, <1>8, <1>9, <1>10, <1>11 DEF RegistryInv

\* A class whose name is not in the registry is not registered.
LEMMA NotYetRegistered ==
  ASSUME RegistryInv, NEW c \in Classes, ~FtInterp_FindCls(cls[c].name)
  PROVE  c \notin Registered
<1>1. SUFFICES ASSUME c \in Registered PROVE FALSE
  OBVIOUS
<1>2. cls[c] \in ToSet(clazzes)
  BY <1>1 DEF RegistryInv, RegistryExact
<1>3. QED
  BY <1>2 DEF ToSet, FtInterp_FindCls

\* What a class and the registry are after Register.
LEMMA RegisterFacts ==
  ASSUME RegistryInv, NEW c \in Classes, Exists(c), ~FtInterp_FindCls(cls[c].name),
         NEW pool \in {DefaultPool} \cup
                      [kind : {"own"}, idx : Nat, block : Nat, sound : BOOLEAN],
         Register(c, pool)
  PROVE  /\ cls' \in [Classes -> {NoCls, NullCls} \cup ClassRecords]
         /\ clazzes' \in Seq(ClassRecords)
         /\ Registered' = Registered \cup {c} /\ c \notin Registered
         /\ \A d \in Classes : d # c => cls'[d] = cls[d]
         /\ cls'[c].pool = pool /\ cls'[c].native = cls[c].native
         /\ cls'[c].state = "registered"
         /\ RegistryExact'
<1> DEFINE new == [[cls[c] EXCEPT !.pool = pool] EXCEPT !.state = "registered"]
<1>1. cls \in [Classes -> {NoCls, NullCls} \cup ClassRecords] /\ cls[c] \in ClassRecords
  BY ExistingClass DEF RegistryInv, TypeOK
<1>2. cls' = [cls EXCEPT ![c] = new]
  BY <1>1 DEF Register
<1>3. /\ new \in ClassRecords /\ new.name = cls[c].name /\ new.native = cls[c].native
      /\ new.pool = pool /\ new.state = "registered"
  BY <1>1 DEF ClassRecords
<1> HIDE DEF new
<1>4. cls'[c] = new /\ \A d \in Classes : d # c => cls'[d] = cls[d]
  BY <1>1, <1>2
<1>5. clazzes \in Seq(ClassRecords) /\ clazzes' = Append(clazzes, new)
  BY <1>4 DEF RegistryInv, TypeOK, Register
<1>6. cls' \in [Classes -> {NoCls, NullCls} \cup ClassRecords] /\ clazzes' \in Seq(ClassRecords)
  BY <1>1, <1>2, <1>3, <1>5
<1>7. c \notin Registered
  BY NotYetRegistered
<1>8. Registered' = Registered \cup {c}
  BY <1>3, <1>4 DEF Registered
<1>9. RegistryExact'
  <2> DEFINE n == Len(clazzes)
  <2>1. n \in Nat /\ DOMAIN clazzes = 1 .. n /\ DOMAIN clazzes' = 1 .. n + 1
    BY <1>5
  <2>2. clazzes'[n + 1] = new /\ \A i \in 1 .. n : clazzes'[i] = clazzes[i]
    BY <1>5
  <2>3. ToSet(clazzes') = ToSet(clazzes) \cup {new}
    BY <2>1, <2>2 DEF ToSet
  <2>4. { cls'[d] : d \in Registered' } = { cls[d] : d \in Registered } \cup {new}
    BY <1>4, <1>7, <1>8 DEF Registered
  <2>5. ToSet(clazzes') = { cls'[d] : d \in Registered' }
    BY <2>3, <2>4 DEF RegistryInv, RegistryExact
  <2>6. \A i \in 1 .. n : clazzes[i].name # new.name
    BY <1>3, <2>1 DEF FtInterp_FindCls
  <2>7. \A i, j \in DOMAIN clazzes' : clazzes'[i].name = clazzes'[j].name => i = j
    BY <2>1, <2>2, <2>6 DEF RegistryInv, RegistryExact
  <2>8. QED
    BY <2>5, <2>7 DEF RegistryExact
<1>10. QED
  BY <1>3, <1>4, <1>6, <1>7, <1>8, <1>9

\* A class that is not native gets the default pool.
LEMMA InitDefaultKeeps ==
  ASSUME RegistryInv, NEW c \in Classes, InitDefault(c)
  PROVE  RegistryInv'
<1>1. /\ Exists(c) /\ ~cls[c].native /\ ~FtInterp_FindCls(cls[c].name)
      /\ Register(c, DefaultPool) /\ UNCHANGED <<pools, err, undefined>>
  BY DEF InitDefault
<1>2. /\ cls' \in [Classes -> {NoCls, NullCls} \cup ClassRecords]
      /\ clazzes' \in Seq(ClassRecords)
      /\ Registered' = Registered \cup {c}
      /\ \A d \in Classes : d # c => cls'[d] = cls[d]
      /\ ~cls'[c].native /\ cls'[c].state = "registered" /\ cls'[c].pool = DefaultPool
      /\ RegistryExact'
  BY <1>1, RegisterFacts
<1>3. TypeOK'
  BY <1>1, <1>2 DEF RegistryInv, TypeOK
<1>4. Registered \subseteq Classes
  BY DEF Registered
<1>5. PoolsOwned' /\ DefaultsShared'
  BY <1>1, <1>2, <1>4 DEF RegistryInv, PoolsOwned, OwnsPool, DefaultsShared
<1>6. InFirstBlock'
  BY <1>1, <1>2, <1>4 DEF RegistryInv, InFirstBlock
<1>7. SoundSoFar' /\ SafeUntilError'
  BY <1>1, <1>2, <1>4 DEF RegistryInv, SoundSoFar, SafeUntilError
<1>8. QED
  BY <1>2, <1>3, <1>5, <1>6, <1>7 DEF RegistryInv

\* The array of pools after one was appended.
LEMMA PoolsGrownFacts ==
  ASSUME RegistryInv, NEW c \in Classes
  PROVE  /\ PoolsGrown(c) \in [owners : Seq(Classes), cap : Nat \ {0}, block : Nat]
         /\ PoolsGrown(c).owners = Append(pools.owners, c)
         /\ Len(PoolsGrown(c).owners) = Len(pools.owners) + 1
         /\ Len(PoolsGrown(c).owners) <= PoolsGrown(c).cap
         /\ Len(pools.owners) < PoolCap =>
              PoolsGrown(c).cap = PoolCap /\ PoolsGrown(c).block = 0
<1>1. /\ pools \in [owners : Seq(Classes), cap : Nat \ {0}, block : Nat]
      /\ Len(pools.owners) <= pools.cap /\ Len(pools.owners) \in Nat
  BY DEF RegistryInv, TypeOK
<1>2. Len(pools.owners) < PoolCap => pools.cap = PoolCap /\ pools.block = 0
  BY <1>1, InterpAssumption DEF RegistryInv, InFirstBlock
<1>3. CASE Len(pools.owners) = pools.cap
  BY <1>1, <1>2, <1>3 DEF PoolsGrown
<1>4. CASE Len(pools.owners) # pools.cap
  BY <1>1, <1>2, <1>4 DEF PoolsGrown
<1>5. QED
  BY <1>3, <1>4

\* A native class gets the pool that was appended for it.
LEMMA InitNativeKeeps ==
  ASSUME RegistryInv, NEW c \in Classes, InitNative(c)
  PROVE  RegistryInv'
<1> DEFINE n == Len(pools.owners)
           own == OwnPool(Len(pools'.owners), pools'.block, err = "none")
<1>1. /\ Exists(c) /\ cls[c].native /\ ~FtInterp_FindCls(cls[c].name)
      /\ pools' = PoolsGrown(c) /\ Register(c, own) /\ UNCHANGED <<err, undefined>>
  BY DEF InitNative
<1>2. /\ pools' \in [owners : Seq(Classes), cap : Nat \ {0}, block : Nat]
      /\ pools'.owners = Append(pools.owners, c)
      /\ Len(pools'.owners) = n + 1
      /\ Len(pools'.owners) <= pools'.cap
      /\ n < PoolCap => pools'.cap = PoolCap /\ pools'.block = 0
  BY <1>1, PoolsGrownFacts
<1>3. pools.owners \in Seq(Classes) /\ n \in Nat
  BY DEF RegistryInv, TypeOK
<1>4. /\ own \in [kind : {"own"}, idx : Nat, block : Nat, sound : BOOLEAN]
      /\ own.idx = n + 1 /\ own.block = pools'.block /\ own.sound = (err = "none")
  BY <1>2, <1>3 DEF OwnPool
<1> HIDE DEF own
<1>5. /\ cls' \in [Classes -> {NoCls, NullCls} \cup ClassRecords]
      /\ clazzes' \in Seq(ClassRecords)
      /\ Registered' = Registered \cup {c}
      /\ \A d \in Classes : d # c => cls'[d] = cls[d]
      /\ cls'[c].pool = own /\ cls'[c].native /\ cls'[c].state = "registered"
      /\ c \notin Registered
      /\ RegistryExact'
  BY <1>1, <1>4, RegisterFacts
<1>6. Registered \subseteq Classes
  BY DEF Registered
<1>7. TypeOK'
  BY <1>1, <1>2, <1>5 DEF RegistryInv, TypeOK
<1>8. PoolsOwned'
  <2>1. /\ DOMAIN pools.owners = 1 .. n /\ DOMAIN pools'.owners = 1 .. n + 1
        /\ pools'.owners[n + 1] = c
        /\ \A i \in 1 .. n : pools'.owners[i] = pools.owners[i]
    BY <1>2, <1>3
  <2>2. SUFFICES ASSUME NEW d \in Registered' PROVE OwnsPool(d)'
    BY DEF PoolsOwned
  <2>3. CASE d = c
    BY <1>3, <1>4, <1>5, <2>1, <2>3 DEF OwnsPool
  <2>4. CASE d # c
    <3>1. d \in Registered /\ cls'[d] = cls[d] /\ OwnsPool(d)
      BY <1>5, <1>6, <2>2, <2>4 DEF RegistryInv, PoolsOwned
    <3>2. QED
      BY <1>3, <2>1, <3>1 DEF OwnsPool
  <2>5. QED
    BY <2>3, <2>4
<1>9. InFirstBlock'
  <2>1. SUFFICES ASSUME n + 1 <= PoolCap
                 PROVE  /\ pools'.cap = PoolCap /\ pools'.block = 0
                        /\ \A d \in Registered' : cls'[d].native => cls'[d].pool.block = 0
    BY <1>2 DEF InFirstBlock
  <2>2. n < PoolCap /\ n <= PoolCap
    BY <1>3, <2>1, InterpAssumption
  <2>3. \A d \in Registered : cls[d].native => cls[d].pool.block = 0
    BY <2>2 DEF RegistryInv, InFirstBlock
  <2>4. QED
    BY <1>2, <1>4, <1>5, <1>6, <2>2, <2>3
<1>10. SoundSoFar'
  BY <1>1, <1>4, <1>5, <1>6 DEF RegistryInv, SoundSoFar
<1>11. DefaultsShared'
  BY <1>5, <1>6 DEF RegistryInv, DefaultsShared
<1>12. SafeUntilError'
  BY <1>1, <1>2, <1>3, InterpAssumption DEF RegistryInv, SafeUntilError
<1>13. QED
  BY <1>5, <1>7, <1>8, <1>9, <1>10, <1>11, <1>12 DEF RegistryInv

\* A refused class is not a registered one.
LEMMA RedefinedKeeps ==
  ASSUME RegistryInv, NEW c \in Classes, Redefined(c)
  PROVE  RegistryInv'
<1>1. cls \in [Classes -> {NoCls, NullCls} \cup ClassRecords] /\ cls[c] \in ClassRecords
  BY ExistingClass DEF RegistryInv, TypeOK, Redefined
<1> DEFINE new == [cls[c] EXCEPT !.state = IF @ = "registered" THEN @ ELSE "refused"]
<1>2. cls' = [cls EXCEPT ![c] = new]
  BY DEF Redefined, Refuse
<1>3. /\ new \in ClassRecords
      /\ new.state = "registered" <=> cls[c].state = "registered"
      /\ cls[c].state = "registered" => new = cls[c]
  BY <1>1 DEF ClassRecords
<1> HIDE DEF new
<1>4. err' = "redefined" /\ UNCHANGED <<clazzes, pools, undefined>>
  BY DEF Redefined
<1>5. Registered' = Registered /\ \A d \in Registered : cls'[d] = cls[d]
  BY <1>1, <1>2, <1>3 DEF Registered
<1>6. TypeOK'
  BY <1>1, <1>2, <1>3, <1>4 DEF RegistryInv, TypeOK
<1>7. RegistryExact'
  <2>1. { cls'[d] : d \in Registered' } = { cls[d] : d \in Registered }
    BY <1>5
  <2>2. QED
    BY <1>4, <2>1 DEF RegistryInv, RegistryExact, ToSet
<1>8. PoolsOwned' /\ DefaultsShared'
  BY <1>4, <1>5 DEF RegistryInv, PoolsOwned, OwnsPool, DefaultsShared
<1>9. InFirstBlock'
  BY <1>4, <1>5 DEF RegistryInv, InFirstBlock
<1>10. SoundSoFar' /\ SafeUntilError'
  BY <1>4 DEF SoundSoFar, SafeUntilError
<1>11. QED
  BY <1>6, <1>7, <1>8, <1>9, <1>10 DEF RegistryInv

\* A step of the program with the classes and pools as they are.
LEMMA UseKeeps ==
  ASSUME RegistryInv, UNCHANGED <<cls, clazzes, pools>>,
         err' \in {err, "other"}, undefined' \in BOOLEAN, SafeUntilError'
  PROVE  RegistryInv'
<1>1. Registered' = Registered
  BY DEF Registered
<1>2. RegistryExact'
  BY <1>1 DEF RegistryInv, RegistryExact, ToSet
<1>3. TypeOK'
  BY DEF RegistryInv, TypeOK
<1>4. PoolsOwned' /\ DefaultsShared' /\ InFirstBlock'
  BY <1>1 DEF RegistryInv, PoolsOwned, OwnsPool, DefaultsShared, InFirstBlock
<1>5. SoundSoFar'
  BY <1>1 DEF RegistryInv, SoundSoFar
<1>6. QED
  BY <1>2, <1>3, <1>4, <1>5 DEF RegistryInv

\* An object is made of a class whose pool is not usable only after an error,
\* or after the array of pools has moved.
LEMMA ObjectKeeps ==
  ASSUME RegistryInv, NEW c \in Classes, FtObj_Init(c)
  PROVE  RegistryInv'
<1>1. /\ undefined' = ~PoolUsable(c) /\ UNCHANGED <<cls, clazzes, pools, err>>
      /\ cls[c].state \in {"registered", "refused"}
  BY DEF FtObj_Init
<1>2. ASSUME err = "none", Len(pools.owners) <= PoolCap
      PROVE  PoolUsable(c)
  <2>1. c \in Registered
    BY <1>1, <1>2 DEF RegistryInv, SoundSoFar, Registered
  <2>2. CASE cls[c].native
    BY <1>2, <2>1, <2>2
    DEF RegistryInv, PoolsOwned, OwnsPool, SoundSoFar, InFirstBlock, PoolUsable
  <2>3. CASE ~cls[c].native
    BY <2>1, <2>3 DEF RegistryInv, DefaultsShared, PoolUsable
  <2>4. QED
    BY <2>2, <2>3
<1>3. Len(pools.owners) \in Nat /\ PoolCap \in Nat
  BY InterpAssumption DEF RegistryInv, TypeOK
<1>4. SafeUntilError'
  <2>1. SUFFICES ASSUME ~PoolUsable(c)
                 PROVE  err # "none" \/ Len(pools.owners) > PoolCap
    BY <1>1 DEF SafeUntilError
  <2>2. QED
    BY <1>2, <1>3, <2>1
<1>5. undefined' \in BOOLEAN
  BY <1>1
<1>6. QED
  BY <1>1, <1>4, <1>5, UseKeeps

\* A NULL class comes only from an error.
LEMMA NullKeeps ==
  ASSUME RegistryInv, NEW c \in Classes, NullInit(c)
  PROVE  RegistryInv'
<1>1. undefined' = TRUE /\ UNCHANGED <<cls, clazzes, pools, err>> /\ cls[c].state = "NULL"
  BY DEF NullInit, NullCls
<1>2. err # "none"
  BY <1>1 DEF RegistryInv, SoundSoFar
<1>3. SafeUntilError'
  BY <1>1, <1>2 DEF SafeUntilError
<1>4. QED
  BY <1>1, <1>3, UseKeeps

LEMMA RegistryNext == RegistryInv /\ [Next]_vars => RegistryInv'
<1>1. SUFFICES ASSUME RegistryInv, [Next]_vars PROVE RegistryInv'
  OBVIOUS
<1>2. ASSUME NEW c \in Classes, NEW name \in ClsNames, NEW native \in BOOLEAN,
             FtCls_Alloc(c, name, native)
      PROVE  RegistryInv'
  BY <1>1, <1>2, AllocKeeps
<1>3. ASSUME NEW c \in Classes, Redefined(c) PROVE RegistryInv'
  BY <1>1, <1>3, RedefinedKeeps
<1>4. ASSUME NEW c \in Classes, InitDefault(c) PROVE RegistryInv'
  BY <1>1, <1>4, InitDefaultKeeps
<1>5. ASSUME NEW c \in Classes, InitNative(c) PROVE RegistryInv'
  BY <1>1, <1>5, InitNativeKeeps
<1>6. ASSUME NEW c \in Classes, NullInit(c) PROVE RegistryInv'
  BY <1>1, <1>6, NullKeeps
<1>7. ASSUME NEW c \in Classes, FtObj_Init(c) PROVE RegistryInv'
  BY <1>1, <1>7, ObjectKeeps
<1>8. CASE Fail
  <2>1. UNCHANGED <<cls, clazzes, pools, undefined>> /\ err' = "other"
    BY <1>8 DEF Fail
  <2>2. undefined \in BOOLEAN
    BY <1>1 DEF RegistryInv, TypeOK
  <2>3. SafeUntilError'
    BY <2>1 DEF SafeUntilError
  <2>4. QED
    BY <1>1, <2>1, <2>2, <2>3, UseKeeps
<1>9. CASE UNCHANGED vars
  <2>1. UNCHANGED <<cls, clazzes, pools, err, undefined>>
    BY <1>9 DEF vars
  <2>2. undefined \in BOOLEAN /\ SafeUntilError
    BY <1>1 DEF RegistryInv, TypeOK
  <2>3. SafeUntilError'
    BY <2>1, <2>2 DEF SafeUntilError
  <2>4. QED
    BY <1>1, <2>1, <2>2, <2>3, UseKeeps
<1>10. QED
  BY <1>1, <1>2, <1>3, <1>4, <1>5, <1>6, <1>7, <1>8, <1>9 DEF Next, FtCls_Init

\* The invariant holds of every registry.
THEOREM RegistryInvariant == Spec => []RegistryInv
BY RegistryInit, RegistryNext, PTL DEF Spec

\* Type correctness, and the array of pools has room for the pools in it.
THEOREM InterpTypeCorrect == Spec => []TypeOK
<1>1. RegistryInv => TypeOK
  BY DEF RegistryInv
<1> QED
  BY <1>1, RegistryInvariant, PTL

\* The registry holds each registered class once, as it still is, and no name
\* twice.
THEOREM InterpRegistryExact == Spec => []RegistryExact
<1>1. RegistryInv => RegistryExact
  BY DEF RegistryInv
<1>2. QED
  BY <1>1, RegistryInvariant, PTL

\* A native class allocates from a pool no other class has.
THEOREM InterpPoolsAreOwn == Spec => []PoolsAreOwn
<1>1. RegistryInv => PoolsAreOwn
  BY DEF RegistryInv, PoolsOwned, OwnsPool, PoolsAreOwn
<1>2. QED
  BY <1>1, RegistryInvariant, PTL

\* While there were never more native classes than room for their pools, the
\* pointers to the pools are good.
THEOREM InterpPoolAddressesGood == Spec => []PoolAddressesGood
<1>1. RegistryInv => PoolAddressesGood
  BY DEF RegistryInv, InFirstBlock, PoolAddressesGood
<1>2. QED
  BY <1>1, RegistryInvariant, PTL

\* A native class reaches its own pool through the pointer it has.
THEOREM InterpPoolsReached == Spec => []PoolsReached
  BY InterpPoolsAreOwn, InterpPoolAddressesGood, PTL DEF PoolsReached

\* Objects can be made of every class, until an error code is set or there are
\* more native classes than the array of pools had room for.
THEOREM InterpSafeUntilError == Spec => []SafeUntilError
<1>1. RegistryInv => SafeUntilError
  BY DEF RegistryInv
<1>2. QED
  BY <1>1, RegistryInvariant, PTL
==============================================================================
