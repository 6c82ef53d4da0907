--------------------------- MODULE FtDispatchProofs ---------------------------
(***************************************************************************)
(* Theorems about FtDispatch, for any classes, names, handlers, sizes of   *)
(* the cache and bounds of the model.                                      *)
(*                                                                         *)
(* For any number of senders: type correctness, and that the cache a class *)
(* points to is neither freed nor queued to be freed.  Both follow from    *)
(* LiveInv, which says that caches are retired in the order in which they  *)
(* were made: the one that is current is younger than every one that was   *)
(* freed, is queued, or is about to be.                                    *)
(*                                                                         *)
(* For one sender, as in the program: the cache agrees with the tables of  *)
(* handlers, every send runs the handler they name, the cache is never     *)
(* replaced, and the accessors lag by the entries made.  The invariant is  *)
(* OneInv: what is in the buckets (BucketsInv), where the send is on its   *)
(* way through them (Searched, which has the trail of buckets it found     *)
(* taken), what it has written of an entry (Written), what it found        *)
(* (Found), that there is one cache (OneCache), and by how much its        *)
(* accessors are off (Accounts).  OneCache stands on Searched: a message   *)
(* that was not found has no trail, and in a full cache every message has  *)
(* one (SpaceLeft).                                                        *)
(***************************************************************************)
EXTENDS FtDispatch, FiniteSetTheorems, WellFoundedInduction, TLAPS

------------------------------------------------------------------------------
(* Sequences, quotients and searches                                        *)

\* Quotient and remainder of a natural number.
LEMMA DivMod ==
  ASSUME NEW x \in Nat, NEW m \in Nat \ {0}
  PROVE  /\ x \div m \in Nat
         /\ x % m \in 0 .. m - 1
         /\ x = m * (x \div m) + (x % m)
  BY Z3

\* A remainder is the only number below the divisor that leaves a multiple.
LEMMA ModUnique ==
  ASSUME NEW m \in Nat \ {0}, NEW q \in Nat, NEW r \in 0 .. m - 1,
         NEW x \in Nat, x = m * q + r
  PROVE  x % m = r
  <1> DEFINE p == x \div m
             t == x % m
  <1>1. p \in Nat /\ t \in 0 .. m - 1 /\ x = m * p + t
    BY DivMod
  <1> HIDE DEF p, t
  <1>2. \A a, b \in Nat : a < b => m * a + m <= m * b
    <2> SUFFICES ASSUME NEW a \in Nat, NEW b \in Nat, a < b
                 PROVE  m * a + m <= m * b
      OBVIOUS
    <2>1. PICK d \in Nat : b = a + 1 + d
      <3> WITNESS b - a - 1 \in Nat
      <3> QED OBVIOUS
    <2>2. m * b = m * a + m + m * d /\ m * d \in Nat /\ m * a \in Nat
      BY <2>1, Z3
    <2> QED BY <2>2
  <1>3. ~(p < q)
    <2>1. m * q \in Nat /\ m * p \in Nat
      BY <1>1, Z3
    <2>2. ASSUME p < q PROVE m * p + m <= m * q
      BY <1>1, <1>2, <2>2
    <2> QED BY <1>1, <2>1, <2>2
  <1>4. ~(q < p)
    <2>1. m * q \in Nat /\ m * p \in Nat
      BY <1>1, Z3
    <2>2. ASSUME q < p PROVE m * q + m <= m * p
      BY <1>1, <1>2, <2>2
    <2> QED BY <1>1, <2>1, <2>2
  <1>5. p = q
    BY <1>1, <1>3, <1>4
  <1>6. t = r
    <2>1. m * q \in Nat
      BY Z3
    <2> QED BY <1>1, <1>5, <2>1
  <1> QED BY <1>6 DEF t

\* The remainder of a sum is that of the sum with a remainder.
LEMMA ModSum ==
  ASSUME NEW m \in Nat \ {0}, NEW x \in Nat, NEW k \in Nat
  PROVE  ((x % m) + k) % m = (x + k) % m
  <1> DEFINE r == x % m
             y == r + k
             q == x \div m
             p == y \div m
             t == y % m
  <1>1. q \in Nat /\ r \in 0 .. m - 1 /\ x = m * q + r
    BY DivMod
  <1> HIDE DEF r, q
  <1>2. y \in Nat
    BY <1>1
  <1> HIDE DEF y
  <1>3. p \in Nat /\ t \in 0 .. m - 1 /\ y = m * p + t
    BY <1>2, DivMod
  <1> HIDE DEF p, t
  <1>4. x + k = m * (q + p) + t
    <2>1. m * (q + p) = m * q + m * p
      BY <1>1, <1>3, Z3
    <2>2. m * q \in Nat /\ m * p \in Nat
      BY <1>1, <1>3, Z3
    <2> QED BY <1>1, <1>3, <2>1, <2>2 DEF y
  <1>5. (x + k) % m = t
    <2> DEFINE w == q + p
               z == x + k
    <2>1. w \in Nat /\ z \in Nat /\ z = m * w + t
      BY <1>1, <1>3, <1>4
    <2> HIDE DEF w, z
    <2>2. z % m = t
      BY <1>3, <2>1, ModUnique
    <2> QED BY <2>2 DEF z
  <1> QED BY <1>5 DEF t, y, r

LEMMA ModSmall ==
  ASSUME NEW m \in Nat \ {0}, NEW x \in 0 .. m - 1
  PROVE  x % m = x /\ (x + m) % m = x
  <1> DEFINE zero == 0
             one == 1
             y == x + m
  <1>1. x = m * zero + x /\ zero \in Nat /\ x \in Nat
    BY Z3
  <1>2. y = m * one + x /\ one \in Nat /\ y \in Nat
    BY Z3
  <1> HIDE DEF zero, one, y
  <1>3. x % m = x
    BY <1>1, ModUnique
  <1>4. y % m = x
    BY <1>2, ModUnique
  <1> QED BY <1>3, <1>4 DEF y

\* Three quarters of a number of buckets is a bucket.
LEMMA MaskBelow ==
  ASSUME NEW b \in Nat \ {0}
  PROVE  Mask(b) \in Nat /\ Mask(b) < b
  BY Z3 DEF Mask

\* Replacing an element of a sequence.
LEMMA SeqReplace ==
  ASSUME NEW S, NEW q \in Seq(S), NEW c \in DOMAIN q, NEW r \in S
  PROVE  /\ [q EXCEPT ![c] = r] \in Seq(S)
         /\ Len([q EXCEPT ![c] = r]) = Len(q)
         /\ DOMAIN [q EXCEPT ![c] = r] = DOMAIN q
         /\ [q EXCEPT ![c] = r][c] = r
         /\ \A d \in DOMAIN q : d # c => [q EXCEPT ![c] = r][d] = q[d]
  OBVIOUS

\* Adding an element to a sequence.
LEMMA SeqAppend ==
  ASSUME NEW S, NEW q \in Seq(S), NEW r \in S
  PROVE  /\ Append(q, r) \in Seq(S)
         /\ Len(Append(q, r)) = Len(q) + 1
         /\ DOMAIN Append(q, r) = DOMAIN q \cup {Len(q) + 1}
         /\ Append(q, r)[Len(q) + 1] = r
         /\ \A d \in DOMAIN q : Append(q, r)[d] = q[d]
  OBVIOUS

\* Dropping the last element of a sequence.
LEMMA SeqDropLast ==
  ASSUME NEW S, NEW q \in Seq(S), q # <<>>
  PROVE  /\ SubSeq(q, 1, Len(q) - 1) \in Seq(S)
         /\ Len(q) \in DOMAIN q
         /\ \A d \in DOMAIN SubSeq(q, 1, Len(q) - 1) :
              d \in DOMAIN q /\ SubSeq(q, 1, Len(q) - 1)[d] = q[d]
  OBVIOUS

\* A linear search that can succeed stops at a first place.
LEMMA FirstPlace ==
  ASSUME NEW hs \in Seq(HandlerType), NEW n, Has(hs, n)
  PROVE  \E j \in DOMAIN hs :
           hs[j].name = n /\ \A i \in 1 .. j - 1 : hs[i].name # n
  <1> DEFINE Less == {ss \in Nat \X Nat : ss[1] < ss[2]}
             P == {k \in DOMAIN hs : hs[k].name = n}
  <1>1. IsWellFoundedOn(Less, Nat)
    BY NatLessThanWellFounded, Zenon DEF OpToRel
  <1>2. P # {} /\ P \subseteq Nat
    BY DEF Has
  <1>3. PICK j \in P : \A i \in P : <<i, j>> \notin Less
    <2> HIDE DEF Less, P
    <2> QED BY <1>1, <1>2, WFMin
  <1>4. ASSUME NEW i \in 1 .. j - 1, hs[i].name = n PROVE FALSE
    <2>1. i \in P
      BY <1>3, <1>4
    <2>2. <<i, j>> \in Nat \X Nat /\ i < j
      BY <1>2, <1>3
    <2> QED BY <1>3, <2>1, <2>2
  <1> QED BY <1>3, <1>4

\* What a search finds: the function of a handler for the message.
LEMMA FirstFound ==
  ASSUME NEW hs \in Seq(HandlerType), NEW n, Has(hs, n)
  PROVE  First(hs, n) \in Fns
  <1> DEFINE k == CHOOSE j \in DOMAIN hs :
                    hs[j].name = n /\ \A i \in 1 .. j - 1 : hs[i].name # n
  <1>1. k \in DOMAIN hs
    BY FirstPlace
  <1>2. First(hs, n) = hs[k].fn
    BY DEF First
  <1>3. hs[k] \in HandlerType
    <2> HIDE DEF k, HandlerType
    <2> QED BY <1>1
  <1> QED
    <2> HIDE DEF k
    <2> QED BY <1>2, <1>3 DEF HandlerType

\* Adding a handler does not change what a search finds.
LEMMA FirstAppend ==
  ASSUME NEW hs \in Seq(HandlerType), NEW h \in HandlerType, NEW n, Has(hs, n)
  PROVE  Has(Append(hs, h), n) /\ First(Append(hs, h), n) = First(hs, n)
  <1> DEFINE g == Append(hs, h)
             At1(q, j) == q[j].name = n /\ \A i \in 1 .. j - 1 : q[i].name # n
  <1>0. /\ g \in Seq(HandlerType) /\ DOMAIN g = DOMAIN hs \cup {Len(hs) + 1}
        /\ DOMAIN hs = 1 .. Len(hs) /\ Len(hs) \in Nat
        /\ \A d \in DOMAIN hs : g[d] = hs[d]
    <2> HIDE DEF HandlerType
    <2> QED OBVIOUS
  <1>1. PICK j \in DOMAIN hs : At1(hs, j)
    BY FirstPlace
  <1>2. At1(g, j)
    BY <1>0, <1>1
  <1>3. \A k \in DOMAIN hs : At1(hs, k) => k = j
    BY <1>0, <1>1
  <1>4. \A k \in DOMAIN g : At1(g, k) => k = j
    <2> SUFFICES ASSUME NEW k \in DOMAIN g, At1(g, k) PROVE k = j
      OBVIOUS
    <2>1. k \in Nat /\ j \in Nat
      BY <1>0
    <2>2. ~(k < j)
      BY <1>0, <1>2, <2>1
    <2>3. ~(j < k)
      BY <1>0, <1>2, <2>1
    <2> QED BY <2>1, <2>2, <2>3
  <1>5. (CHOOSE k \in DOMAIN hs : At1(hs, k)) = j
    <2> HIDE DEF At1
    <2> QED BY <1>1, <1>3
  <1>6. (CHOOSE k \in DOMAIN g : At1(g, k)) = j
    <2>1. j \in DOMAIN g
      BY <1>0
    <2> HIDE DEF At1, g
    <2> QED BY <1>2, <1>4, <2>1
  <1>7. First(hs, n) = hs[j].fn
    BY <1>5 DEF First
  <1>8. First(g, n) = g[j].fn
    <2> HIDE DEF g
    <2> QED BY <1>6 DEF First
  <1>9. Has(g, n)
    BY <1>0, <1>1 DEF Has
  <1> QED
    BY <1>0, <1>7, <1>8, <1>9

------------------------------------------------------------------------------
(* Types                                                                    *)

EntryType == [name : Names \cup {NULL, Junk}, fn : Fns \cup {NULL}]

Buckets == UNION { [0 .. b - 1 -> EntryType] : b \in Nat }

CacheRec == [mask : Nat, occupied : Nat, accessors : 0 .. CountMod - 1,
             freed : BOOLEAN, bucket : Buckets]

LocalType == [name : Names \cup {NULL}, ptr : Nat, cache : Nat, old : Nat,
              idx : Nat, fn : Fns \cup {NULL}, count : Nat]

CleanerType == [pc : {"enter", "wait", "wake", "scan"}, left : 0 .. CleanupBatch]

\* Where a sender works on loc.cache, where it knows the message, and where
\* it has a retired cache.
InCache == {"probe", "check", "leaveHit", "leaveMiss", "scan", "space",
            "retire", "append", "signal", "find", "name", "entry", "count",
            "occupy", "done"}

\* Every bucket the mask counts is in the cache's memory, and the numbers the
\* probe sequence is computed from are ones Masked is defined on.
Addressable(c) ==
  /\ caches[c].mask < MaxAddr
  /\ 0 .. caches[c].mask \subseteq DOMAIN caches[c].bucket

LocalsFit(cs, label, r) ==
  /\ r.ptr <= Len(cs) /\ r.cache <= Len(cs) /\ r.old <= Len(cs)
  /\ r.cache # 0 => r.idx \in 0 .. cs[r.cache].mask
  /\ label # "idle" => r.name \in Names
  /\ label \in InCache => r.cache # 0
  /\ label \in {"enter", "leaveHit", "leaveMiss"} => r.ptr # 0
  /\ label \in {"retire", "append"} => r.old # 0

\* Type correctness, with what each sender's label says of its locals.
TypeInv ==
  /\ handlers \in Seq(HandlerType) /\ objHandlers \in Seq(HandlerType)
  /\ err \in BOOLEAN /\ undefined \in BOOLEAN
  /\ caches \in Seq(CacheRec)
  /\ \A c \in DOMAIN caches : Addressable(c)
  /\ current \in DOMAIN caches
  /\ toFree \in Seq(Nat)
  /\ pc \in [Senders -> Labels]
  /\ loc \in [Senders -> LocalType]
  /\ \A s \in Senders : LocalsFit(caches, pc[s], loc[s])
  /\ cleaner \in CleanerType

\* What is retired lies behind what is current: the numbers of caches only
\* grow, and a cache that replaces another is a new one.
LiveInv ==
  /\ ~caches[current].freed
  /\ \A s \in Senders : loc[s].old < current
  /\ \A k \in DOMAIN toFree : toFree[k] \in 1 .. current - 1

\* The number of a bucket is in range.
LEMMA MaskedInRange ==
  ASSUME TypeInv, NEW c \in DOMAIN caches
  PROVE  /\ caches[c].mask \in Nat
         /\ \A n \in Names : Home(n, c) \in 0 .. caches[c].mask
         /\ \A i \in 0 .. caches[c].mask : After(i, c) \in 0 .. caches[c].mask
  <1>1. caches[c] \in CacheRec
    <2> HIDE DEF CacheRec
    <2> QED BY DEF TypeInv
  <1>2. caches[c].mask \in Nat /\ caches[c].mask < MaxAddr
    BY <1>1 DEF CacheRec, TypeInv, Addressable
  <1>3. \A n \in Names : Addr[n] \in 0 .. MaxAddr
    BY DispatchAssumption
  <1>4. MaxAddr \in Nat /\ \A a, m \in 0 .. MaxAddr : Masked(a, m) \in 0 .. m
    BY DispatchAssumption
  <1>5. \A i \in 0 .. caches[c].mask : i + 1 \in 0 .. MaxAddr
    BY <1>2, <1>4
  <1> DEFINE m == caches[c].mask
  <1>6. m \in 0 .. MaxAddr
    BY <1>2, <1>4
  <1>7. \A n \in Names : Home(n, c) \in 0 .. m
    <2> HIDE DEF m
    <2>1. \A n \in Names : Masked(Addr[n], m) \in 0 .. m
      BY <1>3, <1>4, <1>6
    <2> QED BY <2>1 DEF Home, m
  <1>8. \A i \in 0 .. m : After(i, c) \in 0 .. m
    <2> HIDE DEF m
    <2>1. \A i \in 0 .. m : Masked(i + 1, m) \in 0 .. m
      BY <1>4, <1>5, <1>6 DEF m
    <2> QED BY <2>1 DEF After, m
  <1> QED BY <1>2, <1>7, <1>8

\* A sender that has a cache looks at a bucket of it.
LEMMA EntryInRange ==
  ASSUME TypeInv, NEW s \in Senders, loc[s].cache # 0
  PROVE  /\ loc[s].cache \in DOMAIN caches
         /\ loc[s].idx \in DOMAIN caches[loc[s].cache].bucket
         /\ Entry(s) \in EntryType
  <1>1. loc[s] \in LocalType /\ loc[s].cache \in Nat
    BY DEF TypeInv, LocalType
  <1>2. loc[s].cache \in DOMAIN caches
    BY <1>1 DEF TypeInv, LocalsFit
  <1>3. loc[s].idx \in DOMAIN caches[loc[s].cache].bucket
    BY <1>2 DEF TypeInv, LocalsFit, Addressable
  <1>4. caches[loc[s].cache] \in CacheRec
    <2> HIDE DEF CacheRec
    <2> QED BY <1>2 DEF TypeInv
  <1>5. PICK b \in Nat : caches[loc[s].cache].bucket \in [0 .. b - 1 -> EntryType]
    BY <1>4 DEF CacheRec, Buckets
  <1>6. Entry(s) \in EntryType
    <2> HIDE DEF EntryType
    <2> QED BY <1>3, <1>5 DEF Entry
  <1> QED BY <1>2, <1>3, <1>6

\* A cache made by NewCache is well-formed.
LEMMA NewCacheType ==
  ASSUME NEW b \in Nat \ {0}, NEW a \in {0, 1}, NEW dirty
  PROVE  /\ NewCache(b, a, dirty) \in CacheRec
         /\ NewCache(b, a, dirty).mask = Mask(b)
         /\ NewCache(b, a, dirty).accessors = a
         /\ NewCache(b, a, dirty).occupied = 0
         /\ NewCache(b, a, dirty).freed = FALSE
         /\ DOMAIN NewCache(b, a, dirty).bucket = 0 .. b - 1
         /\ \A i \in 0 .. b - 1 :
              NewCache(b, a, dirty).bucket[i].name \in {NULL, Junk}
  <1> DEFINE e(i) == [name |-> IF i \in dirty THEN Junk ELSE NULL, fn |-> NULL]
             bk == [i \in 0 .. b - 1 |-> e(i)]
  <1>1. \A i \in 0 .. b - 1 : e(i) \in EntryType
    BY DEF EntryType
  <1>2. bk \in [0 .. b - 1 -> EntryType]
    <2> HIDE DEF EntryType, e
    <2> QED BY <1>1
  <1>3. bk \in Buckets
    BY <1>2 DEF Buckets
  <1>4. a \in 0 .. CountMod - 1
    BY DispatchAssumption
  <1>5. Mask(b) \in Nat
    BY MaskBelow
  <1>6. \A i \in 0 .. b - 1 : bk[i].name \in {NULL, Junk}
    OBVIOUS
  <1>7. NewCache(b, a, dirty) =
          [mask |-> Mask(b), occupied |-> 0, accessors |-> a, freed |-> FALSE,
           bucket |-> bk]
    BY DEF NewCache
  <1>8. DOMAIN bk = 0 .. b - 1
    OBVIOUS
  <1> HIDE DEF bk
  <1> QED BY <1>3, <1>4, <1>5, <1>6, <1>7, <1>8 DEF CacheRec

------------------------------------------------------------------------------
(* What a step does to the caches                                           *)

\* Caches are added; those that exist keep their size.
MemoryKept ==
  /\ caches' \in Seq(CacheRec)
  /\ Len(caches) <= Len(caches')
  /\ \A c \in DOMAIN caches' : Addressable(c)'
  /\ \A c \in DOMAIN caches : caches'[c].mask = caches[c].mask

\* No cache is added, and the others keep all they have.
OnlyCache(c) ==
  /\ Len(caches') = Len(caches) /\ DOMAIN caches' = DOMAIN caches
  /\ \A d \in DOMAIN caches : d # c => caches'[d] = caches[d]

LEMMA ReplaceCache ==
  ASSUME TypeInv, NEW c \in DOMAIN caches, NEW r \in CacheRec,
         caches' = [caches EXCEPT ![c] = r],
         r.mask = caches[c].mask, DOMAIN r.bucket = DOMAIN caches[c].bucket
  PROVE  MemoryKept /\ OnlyCache(c) /\ caches'[c] = r
  <1>1. /\ caches' \in Seq(CacheRec) /\ Len(caches') = Len(caches)
        /\ DOMAIN caches' = DOMAIN caches /\ caches'[c] = r
        /\ \A d \in DOMAIN caches : d # c => caches'[d] = caches[d]
    <2> HIDE DEF CacheRec
    <2> QED BY DEF TypeInv
  <1>2. Len(caches) \in Nat
    BY DEF TypeInv
  <1>3. \A d \in DOMAIN caches : Addressable(d)
    BY DEF TypeInv
  <1>4. \A d \in DOMAIN caches : Addressable(d)'
    BY <1>1, <1>3 DEF Addressable
  <1> QED
    BY <1>1, <1>2, <1>4 DEF MemoryKept, OnlyCache

\* A cache that exists has the type of one.
LEMMA IsCache ==
  ASSUME TypeInv, NEW c \in DOMAIN caches
  PROVE  caches[c] \in CacheRec
  <1> HIDE DEF CacheRec
  <1> QED BY DEF TypeInv

LEMMA CachesSame == TypeInv /\ UNCHANGED caches => MemoryKept
  <1> SUFFICES ASSUME TypeInv, UNCHANGED caches PROVE MemoryKept
    OBVIOUS
  <1>1. \A c \in DOMAIN caches' : Addressable(c)'
    BY DEF TypeInv, Addressable
  <1>2. Len(caches) \in Nat
    BY DEF TypeInv
  <1> HIDE DEF CacheRec
  <1> QED BY <1>1, <1>2 DEF TypeInv, MemoryKept

\* atomic_fetch_add and atomic_fetch_sub change one count.
LEMMA CountStep ==
  ASSUME TypeInv, NEW c \in DOMAIN caches, NEW k \in Nat, AddAccessors(c, k)
  PROVE  /\ MemoryKept /\ OnlyCache(c)
         /\ caches'[c].bucket = caches[c].bucket
         /\ caches'[c].occupied = caches[c].occupied
         /\ caches'[c].freed = caches[c].freed
         /\ caches'[c].accessors = (caches[c].accessors + k) % CountMod
  <1> DEFINE r == [caches[c] EXCEPT !.accessors = (@ + k) % CountMod]
  <1>1. caches[c] \in CacheRec
    BY IsCache
  <1>2. (caches[c].accessors + k) % CountMod \in 0 .. CountMod - 1
    <2>1. caches[c].accessors + k \in Nat
      BY <1>1, DispatchAssumption DEF CacheRec
    <2> QED BY <2>1, DivMod, DispatchAssumption
  <1>3. /\ r \in CacheRec /\ r.mask = caches[c].mask
        /\ r.bucket = caches[c].bucket /\ r.occupied = caches[c].occupied
        /\ r.freed = caches[c].freed
        /\ r.accessors = (caches[c].accessors + k) % CountMod
    BY <1>1, <1>2 DEF CacheRec
  <1>4. caches' = [caches EXCEPT ![c] = r]
    BY DEF AddAccessors
  <1>5. DOMAIN r.bucket = DOMAIN caches[c].bucket
    BY <1>3
  <1> HIDE DEF r
  <1>6. MemoryKept /\ OnlyCache(c) /\ caches'[c] = r
    BY <1>3, <1>4, <1>5, ReplaceCache
  <1> QED BY <1>3, <1>6

\* Ft_Free of a cache.
LEMMA FreeStep ==
  ASSUME TypeInv, NEW c \in DOMAIN caches,
         caches' = [caches EXCEPT ![c].freed = TRUE]
  PROVE  /\ MemoryKept /\ OnlyCache(c)
         /\ caches'[c].bucket = caches[c].bucket
         /\ caches'[c].occupied = caches[c].occupied
         /\ caches'[c].accessors = caches[c].accessors
  <1> DEFINE r == [caches[c] EXCEPT !.freed = TRUE]
  <1>1. caches[c] \in CacheRec
    BY IsCache
  <1>2. /\ r \in CacheRec /\ r.mask = caches[c].mask
        /\ r.bucket = caches[c].bucket /\ r.occupied = caches[c].occupied
        /\ r.accessors = caches[c].accessors
    BY <1>1 DEF CacheRec
  <1>3. caches' = [caches EXCEPT ![c] = r]
    OBVIOUS
  <1>4. DOMAIN r.bucket = DOMAIN caches[c].bucket
    BY <1>2
  <1> HIDE DEF r
  <1>5. MemoryKept /\ OnlyCache(c) /\ caches'[c] = r
    BY <1>2, <1>3, <1>4, ReplaceCache
  <1> QED BY <1>2, <1>5

\* The name of an entry is written.
LEMMA NameStep ==
  ASSUME TypeInv, NEW c \in DOMAIN caches, NEW i \in DOMAIN caches[c].bucket,
         NEW n \in Names, caches' = [caches EXCEPT ![c].bucket[i].name = n]
  PROVE  /\ MemoryKept /\ OnlyCache(c)
         /\ DOMAIN caches'[c].bucket = DOMAIN caches[c].bucket
         /\ \A j \in DOMAIN caches[c].bucket :
              j # i => caches'[c].bucket[j] = caches[c].bucket[j]
         /\ caches'[c].bucket[i].name = n
         /\ caches'[c].occupied = caches[c].occupied
         /\ caches'[c].accessors = caches[c].accessors
         /\ caches'[c].freed = caches[c].freed
  <1> DEFINE e == [caches[c].bucket[i] EXCEPT !.name = n]
             bk == [caches[c].bucket EXCEPT ![i] = e]
             r == [caches[c] EXCEPT !.bucket = bk]
  <1>1. caches[c] \in CacheRec
    BY IsCache
  <1>2. PICK b \in Nat : caches[c].bucket \in [0 .. b - 1 -> EntryType]
    BY <1>1 DEF CacheRec, Buckets
  <1>3. e \in EntryType /\ e.name = n
    BY <1>2 DEF EntryType
  <1>4. /\ bk \in [0 .. b - 1 -> EntryType] /\ bk[i] = e
        /\ \A j \in DOMAIN caches[c].bucket : j # i => bk[j] = caches[c].bucket[j]
    BY <1>2, <1>3
  <1>5. bk \in Buckets
    BY <1>4 DEF Buckets
  <1>6. /\ r \in CacheRec /\ r.mask = caches[c].mask /\ r.bucket = bk
        /\ r.occupied = caches[c].occupied
        /\ r.accessors = caches[c].accessors /\ r.freed = caches[c].freed
    BY <1>1, <1>5 DEF CacheRec
  <1>7. caches' = [caches EXCEPT ![c] = r]
    OBVIOUS
  <1>8. DOMAIN bk = DOMAIN caches[c].bucket
    BY <1>2
  <1> HIDE DEF e, bk, r
  <1>9. MemoryKept /\ OnlyCache(c) /\ caches'[c] = r
    BY <1>6, <1>7, <1>8, ReplaceCache
  <1> QED BY <1>3, <1>4, <1>6, <1>8, <1>9

\* The handler of an entry is written.
LEMMA EntryStep ==
  ASSUME TypeInv, NEW c \in DOMAIN caches, NEW i \in DOMAIN caches[c].bucket,
         NEW f \in Fns \cup {NULL}, caches' = [caches EXCEPT ![c].bucket[i].fn = f]
  PROVE  /\ MemoryKept /\ OnlyCache(c)
         /\ DOMAIN caches'[c].bucket = DOMAIN caches[c].bucket
         /\ \A j \in DOMAIN caches[c].bucket :
              j # i => caches'[c].bucket[j] = caches[c].bucket[j]
         /\ caches'[c].bucket[i].name = caches[c].bucket[i].name
         /\ caches'[c].bucket[i].fn = f
         /\ caches'[c].occupied = caches[c].occupied
         /\ caches'[c].accessors = caches[c].accessors
         /\ caches'[c].freed = caches[c].freed
  <1> DEFINE e == [caches[c].bucket[i] EXCEPT !.fn = f]
             bk == [caches[c].bucket EXCEPT ![i] = e]
             r == [caches[c] EXCEPT !.bucket = bk]
  <1>1. caches[c] \in CacheRec
    BY IsCache
  <1>2. PICK b \in Nat : caches[c].bucket \in [0 .. b - 1 -> EntryType]
    BY <1>1 DEF CacheRec, Buckets
  <1>3. e \in EntryType /\ e.name = caches[c].bucket[i].name /\ e.fn = f
    BY <1>2 DEF EntryType
  <1>4. /\ bk \in [0 .. b - 1 -> EntryType] /\ bk[i] = e
        /\ \A j \in DOMAIN caches[c].bucket : j # i => bk[j] = caches[c].bucket[j]
    BY <1>2, <1>3
  <1>5. bk \in Buckets
    BY <1>4 DEF Buckets
  <1>6. /\ r \in CacheRec /\ r.mask = caches[c].mask /\ r.bucket = bk
        /\ r.occupied = caches[c].occupied
        /\ r.accessors = caches[c].accessors /\ r.freed = caches[c].freed
    BY <1>1, <1>5 DEF CacheRec
  <1>7. caches' = [caches EXCEPT ![c] = r]
    OBVIOUS
  <1>8. DOMAIN bk = DOMAIN caches[c].bucket
    BY <1>2
  <1> HIDE DEF e, bk, r
  <1>9. MemoryKept /\ OnlyCache(c) /\ caches'[c] = r
    BY <1>6, <1>7, <1>8, ReplaceCache
  <1> QED BY <1>3, <1>4, <1>6, <1>8, <1>9

\* The number of occupied buckets is stored.
LEMMA OccupiedStep ==
  ASSUME TypeInv, NEW c \in DOMAIN caches, NEW n \in Nat,
         caches' = [caches EXCEPT ![c].occupied = n]
  PROVE  /\ MemoryKept /\ OnlyCache(c)
         /\ caches'[c].bucket = caches[c].bucket
         /\ caches'[c].occupied = n
         /\ caches'[c].accessors = caches[c].accessors
         /\ caches'[c].freed = caches[c].freed
  <1> DEFINE r == [caches[c] EXCEPT !.occupied = n]
  <1>1. caches[c] \in CacheRec
    BY IsCache
  <1>2. /\ r \in CacheRec /\ r.mask = caches[c].mask
        /\ r.bucket = caches[c].bucket /\ r.occupied = n
        /\ r.accessors = caches[c].accessors /\ r.freed = caches[c].freed
    BY <1>1 DEF CacheRec
  <1>3. caches' = [caches EXCEPT ![c] = r]
    OBVIOUS
  <1>4. DOMAIN r.bucket = DOMAIN caches[c].bucket
    BY <1>2
  <1> HIDE DEF r
  <1>5. MemoryKept /\ OnlyCache(c) /\ caches'[c] = r
    BY <1>2, <1>3, <1>4, ReplaceCache
  <1> QED BY <1>2, <1>5

\* A new cache is added.
LEMMA GrowStep ==
  ASSUME TypeInv, NEW b \in Nat \ {0}, Mask(b) < MaxAddr, NEW dirty,
         caches' = Append(caches, NewCache(b, 1, dirty))
  PROVE  /\ MemoryKept
         /\ Len(caches') = Len(caches) + 1
         /\ DOMAIN caches' = DOMAIN caches \cup {Len(caches) + 1}
         /\ \A d \in DOMAIN caches : caches'[d] = caches[d]
         /\ caches'[Len(caches) + 1] = NewCache(b, 1, dirty)
  <1> DEFINE r == NewCache(b, 1, dirty)
  <1>1. r \in CacheRec /\ r.mask = Mask(b) /\ DOMAIN r.bucket = 0 .. b - 1
    BY NewCacheType
  <1>2. Mask(b) \in Nat /\ Mask(b) < b
    BY MaskBelow
  <1> HIDE DEF r
  <1>3. /\ caches' \in Seq(CacheRec) /\ Len(caches') = Len(caches) + 1
        /\ DOMAIN caches' = DOMAIN caches \cup {Len(caches) + 1}
        /\ caches'[Len(caches) + 1] = r
        /\ \A d \in DOMAIN caches : caches'[d] = caches[d]
    <2> HIDE DEF CacheRec
    <2>1. caches' = Append(caches, r)
      BY DEF r
    <2> QED BY <1>1, <2>1 DEF TypeInv
  <1>4. \A d \in DOMAIN caches : Addressable(d)
    BY DEF TypeInv
  <1>5. \A d \in DOMAIN caches : Addressable(d)'
    BY <1>3, <1>4 DEF Addressable
  <1>6. ASSUME NEW c, c = Len(caches) + 1 PROVE Addressable(c)'
    <2>1. caches'[c].mask = Mask(b) /\ DOMAIN caches'[c].bucket = 0 .. b - 1
      BY <1>1, <1>3, <1>6
    <2>2. 0 .. Mask(b) \subseteq 0 .. b - 1
      BY <1>2
    <2> QED BY <2>1, <2>2 DEF Addressable
  <1>7. \A c \in DOMAIN caches' : Addressable(c)'
    BY <1>3, <1>5, <1>6
  <1>8. Len(caches) \in Nat
    BY DEF TypeInv
  <1> QED BY <1>3, <1>7, <1>8 DEF MemoryKept, r

------------------------------------------------------------------------------
(* Type correctness                                                         *)

\* What Goto does to the places and the locals.
LEMMA GotoStep ==
  ASSUME TypeInv, NEW s \in Senders, NEW label \in Labels,
         NEW r \in LocalType, Goto(s, label, r)
  PROVE  /\ pc' \in [Senders -> Labels] /\ loc' \in [Senders -> LocalType]
         /\ pc'[s] = label /\ loc'[s] = r
         /\ \A t \in Senders : t # s => pc'[t] = pc[t] /\ loc'[t] = loc[t]
  <1> HIDE DEF Labels, LocalType
  <1> QED BY DEF TypeInv, Goto

\* Locals that fit keep fitting while caches are only added.
LEMMA FitKept ==
  ASSUME TypeInv, MemoryKept, NEW label, NEW r \in LocalType, LocalsFit(caches, label, r)
  PROVE  LocalsFit(caches', label, r)
  <1>1. Len(caches) \in Nat /\ Len(caches') \in Nat /\ Len(caches) <= Len(caches')
    BY DEF TypeInv, MemoryKept
  <1>2. r.ptr \in Nat /\ r.cache \in Nat /\ r.old \in Nat
    BY DEF LocalType
  <1>3. r.cache # 0 => r.cache \in DOMAIN caches
    BY <1>2 DEF LocalsFit, TypeInv
  <1>4. r.cache # 0 => caches'[r.cache].mask = caches[r.cache].mask
    BY <1>3 DEF MemoryKept
  <1> QED
    BY <1>1, <1>2, <1>4 DEF LocalsFit

\* A step of a sender keeps the types if its new locals fit.
LEMMA SenderType ==
  ASSUME TypeInv, MemoryKept, NEW s \in Senders, NEW label \in Labels,
         NEW r \in LocalType, Goto(s, label, r), LocalsFit(caches', label, r),
         UNCHANGED <<handlers, objHandlers, undefined>>,
         err' \in BOOLEAN, current' \in DOMAIN caches',
         toFree' \in Seq(Nat), cleaner' \in CleanerType
  PROVE  TypeInv'
  <1>1. /\ pc' \in [Senders -> Labels] /\ loc' \in [Senders -> LocalType]
        /\ pc'[s] = label /\ loc'[s] = r
        /\ \A t \in Senders : t # s => pc'[t] = pc[t] /\ loc'[t] = loc[t]
    BY GotoStep
  <1>2. \A t \in Senders : LocalsFit(caches, pc[t], loc[t]) /\ loc[t] \in LocalType
    <2> HIDE DEF LocalType
    <2> QED BY DEF TypeInv
  <1>3. ASSUME NEW t \in Senders PROVE LocalsFit(caches', pc'[t], loc'[t])
    <2>1. CASE t = s
      BY <1>1, <2>1
    <2>2. CASE t # s
      BY <1>1, <1>2, <2>2, FitKept
    <2> QED BY <2>1, <2>2
  <1> HIDE DEF Labels, LocalType, HandlerType, CacheRec, CleanerType
  <1> QED BY <1>1, <1>3 DEF TypeInv, MemoryKept

\* A step that touches only places and locals.
LEMMA QuietType ==
  ASSUME TypeInv, NEW s \in Senders, NEW label \in Labels,
         NEW r \in LocalType, Goto(s, label, r), LocalsFit(caches, label, r),
         UNCHANGED_shared
  PROVE  TypeInv'
  <1>1. MemoryKept
    BY CachesSame DEF UNCHANGED_shared
  <1>2. LocalsFit(caches', label, r)
    BY DEF LocalsFit, UNCHANGED_shared
  <1>3. /\ UNCHANGED <<handlers, objHandlers, undefined>>
        /\ err' \in BOOLEAN /\ current' \in DOMAIN caches'
        /\ toFree' \in Seq(Nat) /\ cleaner' \in CleanerType
    <2> HIDE DEF CleanerType
    <2> QED BY DEF TypeInv, UNCHANGED_shared
  <1> HIDE DEF Labels, LocalType
  <1> QED BY <1>1, <1>2, <1>3, SenderType

\* What TypeInv says of one sender.
LEMMA SenderFacts ==
  ASSUME TypeInv, NEW s \in Senders
  PROVE  /\ loc[s] \in LocalType /\ LocalsFit(caches, pc[s], loc[s])
         /\ current \in Nat \ {0} /\ current <= Len(caches)
         /\ Len(caches) \in Nat /\ DOMAIN caches = 1 .. Len(caches)
         /\ pc[s] \in InCache => loc[s].cache \in DOMAIN caches
         /\ pc[s] \in {"enter", "leaveHit", "leaveMiss"} => loc[s].ptr \in DOMAIN caches
         /\ pc[s] # "idle" => loc[s].name \in Names
  <1>1. loc[s] \in LocalType /\ LocalsFit(caches, pc[s], loc[s])
    <2> HIDE DEF LocalType
    <2> QED BY DEF TypeInv
  <1>2. /\ current \in Nat \ {0} /\ current <= Len(caches)
        /\ Len(caches) \in Nat /\ DOMAIN caches = 1 .. Len(caches)
    BY DEF TypeInv
  <1>3. loc[s].cache \in Nat /\ loc[s].ptr \in Nat
    BY <1>1 DEF LocalType
  <1> QED BY <1>1, <1>2, <1>3 DEF LocalsFit

\* Sending, and every step of a lookup.
LEMMA LookupType ==
  ASSUME TypeInv, NEW s \in Senders,
         \/ \E n \in Names : Send(s, n)
         \/ Load(s) \/ ProbeOn(s) \/ ProbeStop(s) \/ Hit(s) \/ Miss(s)
  PROVE  TypeInv'
  <1> DEFINE L == loc[s]
  <1>0. /\ L \in LocalType /\ LocalsFit(caches, pc[s], L)
        /\ current \in Nat \ {0} /\ current <= Len(caches)
        /\ Len(caches) \in Nat /\ current \in DOMAIN caches
        /\ pc[s] \in InCache => L.cache \in DOMAIN caches
        /\ pc[s] # "idle" => L.name \in Names
    BY SenderFacts DEF TypeInv
  <1>1. CASE \E n \in Names : Send(s, n)
    <2> PICK n \in Names : Send(s, n)
      BY <1>1
    <2> DEFINE own == Has(objHandlers, n)
               label == IF own THEN "call" ELSE "enter"
               r == IF own
                    THEN [NoLocals EXCEPT !.name = n, !.fn = First(objHandlers, n)]
                    ELSE [NoLocals EXCEPT !.name = n, !.ptr = current]
    <2>1. own => First(objHandlers, n) \in Fns
      <3> HIDE DEF HandlerType
      <3> QED BY FirstFound DEF TypeInv
    <2>2. r \in LocalType
      BY <1>0, <2>1 DEF LocalType, NoLocals
    <2>3. LocalsFit(caches, label, r)
      BY <1>0 DEF LocalsFit, NoLocals, InCache
    <2>4. Goto(s, label, r) /\ UNCHANGED_shared
      BY DEF Send
    <2>5. label \in Labels
      BY DEF Labels
    <2> HIDE DEF own, label, r, LocalType
    <2> QED BY <2>2, <2>3, <2>4, <2>5, QuietType
  <1>2. CASE Load(s)
    <2> DEFINE i == Home(L.name, current)
               r == [L EXCEPT !.cache = current, !.idx = i]
    <2>1. pc[s] = "load" /\ Goto(s, "probe", r) /\ UNCHANGED_shared
      BY <1>2 DEF Load, At
    <2>2. i \in 0 .. caches[current].mask /\ i \in Nat
      BY <1>0, <2>1, MaskedInRange
    <2> HIDE DEF i, L
    <2>3. /\ r \in LocalType /\ r.name = L.name /\ r.old = L.old /\ r.ptr = L.ptr
          /\ r.cache = current /\ r.idx = i
      BY <1>0, <2>2 DEF LocalType
    <2> HIDE DEF r
    <2>4. LocalsFit(caches, "probe", r)
      BY <1>0, <2>1, <2>2, <2>3 DEF LocalsFit
    <2>5. "probe" \in Labels
      BY DEF Labels
    <2> HIDE DEF LocalType, L
    <2> QED BY <2>1, <2>3, <2>4, <2>5, QuietType
  <1>3. CASE ProbeOn(s)
    <2> DEFINE r == [L EXCEPT !.idx = After(@, L.cache)]
    <2>1. pc[s] = "probe" /\ Goto(s, "probe", r) /\ UNCHANGED_shared
      BY <1>3 DEF ProbeOn, At
    <2>2. L.idx \in 0 .. caches[L.cache].mask
      BY <1>0, <2>1 DEF LocalsFit, InCache
    <2>3. /\ After(L.idx, L.cache) \in 0 .. caches[L.cache].mask
          /\ caches[L.cache].mask \in Nat
      BY <1>0, <2>1, <2>2, MaskedInRange DEF InCache
    <2>4. /\ r \in LocalType /\ r.name = L.name /\ r.old = L.old /\ r.ptr = L.ptr
          /\ r.cache = L.cache /\ r.idx = After(L.idx, L.cache)
      <3> DEFINE i == After(L.idx, L.cache)
                 q == [L EXCEPT !.idx = i]
      <3>1. i \in Nat
        BY <2>3
      <3>2. r = q
        OBVIOUS
      <3> HIDE DEF i, L, r
      <3>3. /\ q \in LocalType /\ q.name = L.name /\ q.old = L.old /\ q.ptr = L.ptr
            /\ q.cache = L.cache /\ q.idx = i
        BY <1>0, <3>1 DEF LocalType
      <3> QED BY <3>2, <3>3 DEF i
    <2> HIDE DEF r
    <2>5. LocalsFit(caches, "probe", r)
      BY <1>0, <2>1, <2>3, <2>4 DEF LocalsFit
    <2>6. "probe" \in Labels
      BY DEF Labels
    <2> HIDE DEF LocalType, L
    <2> QED BY <2>1, <2>4, <2>5, <2>6, QuietType
  <1>4. CASE ProbeStop(s)
    <2>1. pc[s] = "probe" /\ Goto(s, "check", L) /\ UNCHANGED_shared
      BY <1>4 DEF ProbeStop, At
    <2>2. LocalsFit(caches, "check", L)
      BY <1>0, <2>1 DEF LocalsFit, InCache
    <2>3. "check" \in Labels
      BY DEF Labels
    <2> HIDE DEF LocalType
    <2> QED BY <1>0, <2>1, <2>2, <2>3, QuietType
  <1>5. CASE Hit(s)
    <2> DEFINE r == [L EXCEPT !.fn = Entry(s).fn, !.ptr = current]
    <2>1. pc[s] = "check" /\ Goto(s, "leaveHit", r) /\ UNCHANGED_shared
      BY <1>5 DEF Hit, At
    <2>2. L.cache # 0
      BY <1>0, <2>1 DEF LocalsFit, InCache
    <2>3. Entry(s).fn \in Fns \cup {NULL}
      BY <2>2, EntryInRange DEF EntryType
    <2>4. /\ r \in LocalType /\ r.name = L.name /\ r.old = L.old /\ r.ptr = current
          /\ r.cache = L.cache /\ r.idx = L.idx
      BY <1>0, <2>3 DEF LocalType
    <2> HIDE DEF r
    <2>5. LocalsFit(caches, "leaveHit", r)
      BY <1>0, <2>1, <2>2, <2>4 DEF LocalsFit
    <2>6. "leaveHit" \in Labels
      BY DEF Labels
    <2> HIDE DEF LocalType, L
    <2> QED BY <2>1, <2>4, <2>5, <2>6, QuietType
  <1>6. CASE Miss(s)
    <2> DEFINE r == [L EXCEPT !.ptr = current]
    <2>1. pc[s] = "check" /\ Goto(s, "leaveMiss", r) /\ UNCHANGED_shared
      BY <1>6 DEF Miss, At
    <2>2. L.cache # 0
      BY <1>0, <2>1 DEF LocalsFit, InCache
    <2>3. /\ r \in LocalType /\ r.name = L.name /\ r.old = L.old /\ r.ptr = current
          /\ r.cache = L.cache /\ r.idx = L.idx
      BY <1>0 DEF LocalType
    <2> HIDE DEF r
    <2>4. LocalsFit(caches, "leaveMiss", r)
      BY <1>0, <2>1, <2>2, <2>3 DEF LocalsFit
    <2>5. "leaveMiss" \in Labels
      BY DEF Labels
    <2> HIDE DEF LocalType, L
    <2> QED BY <2>1, <2>3, <2>4, <2>5, QuietType
  <1> QED BY <1>1, <1>2, <1>3, <1>4, <1>5, <1>6

\* Making an entry, in a cache that may be new.
LEMMA InsertType ==
  ASSUME TypeInv, NEW s \in Senders,
         \/ Scan(s) \/ NoGrowth(s) \/ Grow(s) \/ RetireFree(s) \/ RetireLater(s)
         \/ AppendToFree(s) \/ Signal(s) \/ Find(s) \/ WriteName(s) \/ WriteEntry(s)
         \/ LoadOccupied(s) \/ StoreOccupied(s)
  PROVE  TypeInv'
  <1> DEFINE L == loc[s]
  <1>0. /\ L \in LocalType /\ LocalsFit(caches, pc[s], L)
        /\ current \in Nat \ {0} /\ current <= Len(caches)
        /\ Len(caches) \in Nat /\ current \in DOMAIN caches
        /\ DOMAIN caches = 1 .. Len(caches)
        /\ pc[s] \in InCache => L.cache \in DOMAIN caches
        /\ pc[s] # "idle" => L.name \in Names
    BY SenderFacts DEF TypeInv
  <1>a. /\ err \in BOOLEAN /\ toFree \in Seq(Nat) /\ cleaner \in CleanerType
    <2> HIDE DEF CleanerType
    <2> QED BY DEF TypeInv
  <1>b. Labels = Labels /\ {"space", "nil", "find", "retire", "append", "signal",
                             "name", "entry", "count", "occupy", "done"} \subseteq Labels
    BY DEF Labels
  <1>1. CASE Scan(s)
    <2> DEFINE found == Has(handlers, L.name) /\ ~err
               label == IF found THEN "space" ELSE "nil"
               r == IF found THEN [L EXCEPT !.fn = First(handlers, L.name)] ELSE L
    <2>1. pc[s] = "scan" /\ Goto(s, label, r) /\ UNCHANGED_shared
      BY <1>1 DEF Scan, At
    <2>2. found => First(handlers, L.name) \in Fns
      <3> HIDE DEF HandlerType, L
      <3> QED BY FirstFound DEF TypeInv
    <2>3. /\ r \in LocalType /\ r.name = L.name /\ r.old = L.old /\ r.ptr = L.ptr
          /\ r.cache = L.cache /\ r.idx = L.idx
      <3> HIDE DEF L
      <3> QED BY <1>0, <2>2 DEF LocalType
    <2>4. label \in {"space", "nil"}
      OBVIOUS
    <2> HIDE DEF r, label
    <2>5. LocalsFit(caches, label, r)
      BY <1>0, <2>1, <2>3, <2>4 DEF LocalsFit, InCache
    <2> HIDE DEF LocalType, L
    <2> QED BY <1>b, <2>1, <2>3, <2>4, <2>5, QuietType
  <1>2. CASE NoGrowth(s)
    <2> DEFINE r == [L EXCEPT !.idx = Home(L.name, L.cache)]
    <2>1. pc[s] = "space" /\ Goto(s, "find", r) /\ UNCHANGED_shared
      BY <1>2 DEF NoGrowth, At
    <2>2. /\ Home(L.name, L.cache) \in 0 .. caches[L.cache].mask
          /\ caches[L.cache].mask \in Nat
      BY <1>0, <2>1, MaskedInRange DEF InCache
    <2>3. /\ r \in LocalType /\ r.name = L.name /\ r.old = L.old /\ r.ptr = L.ptr
          /\ r.cache = L.cache /\ r.idx = Home(L.name, L.cache)
      BY <1>0, <2>2 DEF LocalType
    <2> HIDE DEF r
    <2>4. LocalsFit(caches, "find", r)
      BY <1>0, <2>1, <2>2, <2>3 DEF LocalsFit, InCache
    <2> HIDE DEF LocalType, L
    <2> QED BY <1>b, <2>1, <2>3, <2>4, QuietType
  <1>3. CASE Grow(s)
    <2> DEFINE b == NewCap(L.cache)
               i == Masked(Addr[L.name], caches'[current'].mask)
               r == [L EXCEPT !.old = L.cache, !.cache = current', !.idx = i]
    <2>1. /\ pc[s] = "space" /\ Goto(s, "retire", r) /\ Mask(b) < MaxAddr
          /\ current' = Len(caches')
          /\ UNCHANGED <<handlers, objHandlers, err, toFree, cleaner, undefined>>
      BY <1>3 DEF Grow, At, RoomToGrow
    <2>2. PICK dirty \in SUBSET DirtyBuckets : caches' = Append(caches, NewCache(b, 1, dirty))
      BY <1>3 DEF Grow
    <2>3. L.cache \in DOMAIN caches /\ L.name \in Names
      BY <1>0, <2>1 DEF InCache
    <2>4. b \in Nat \ {0}
      BY <2>3, MaskedInRange DEF NewCap
    <2> HIDE DEF b, L
    <2>5. /\ MemoryKept /\ Len(caches') = Len(caches) + 1
          /\ caches'[Len(caches) + 1] = NewCache(b, 1, dirty)
          /\ DOMAIN caches' = DOMAIN caches \cup {Len(caches) + 1}
      BY <2>1, <2>2, <2>4, GrowStep
    <2>6. caches'[current'].mask = Mask(b)
      <3>1. caches'[current'] = NewCache(b, 1, dirty)
        BY <2>1, <2>5
      <3>2. NewCache(b, 1, dirty).mask = Mask(b)
        BY <2>4, NewCacheType
      <3> QED BY <3>1, <3>2
    <2>7. i \in 0 .. Mask(b) /\ Mask(b) \in Nat
      <3>1. Mask(b) \in Nat
        BY <2>4, MaskBelow
      <3>2. Addr[L.name] \in 0 .. MaxAddr /\ Mask(b) \in 0 .. MaxAddr
        BY <2>1, <2>3, <3>1, DispatchAssumption
      <3> QED BY <2>6, <3>1, <3>2, DispatchAssumption
    <2>8. /\ current' \in Nat /\ current' \in DOMAIN caches' /\ current' # 0
      BY <1>0, <2>1, <2>5
    <2>9. L.cache \in Nat /\ L.cache # 0
      BY <1>0, <2>3
    <2> HIDE DEF i
    <2>10. /\ r \in LocalType /\ r.name = L.name /\ r.ptr = L.ptr
           /\ r.cache = current' /\ r.idx = i /\ r.old = L.cache
      <3>1. i \in Nat
        BY <2>7
      <3> QED BY <1>0, <2>8, <2>9, <3>1 DEF LocalType
    <2> HIDE DEF r
    <2>11. LocalsFit(caches', "retire", r)
      <3>1. r.ptr <= Len(caches)
        BY <1>0, <2>10 DEF LocalsFit
      <3>2. r.ptr \in Nat
        BY <2>10 DEF LocalType
      <3>3. r.ptr <= Len(caches') /\ r.cache <= Len(caches') /\ r.old <= Len(caches')
        BY <1>0, <2>1, <2>3, <2>5, <2>8, <2>9, <2>10, <3>1, <3>2
      <3> QED BY <2>3, <2>6, <2>7, <2>8, <2>9, <2>10, <3>3 DEF LocalsFit
    <2> HIDE DEF LocalType, CleanerType
    <2> QED BY <1>a, <1>b, <2>1, <2>5, <2>8, <2>10, <2>11, SenderType
  <1>4. CASE RetireFree(s)
    <2>1. /\ pc[s] = "retire" /\ Goto(s, "find", L)
          /\ caches' = [caches EXCEPT ![L.old].freed = TRUE]
          /\ UNCHANGED <<handlers, objHandlers, err, current, toFree, cleaner, undefined>>
      BY <1>4 DEF RetireFree, At
    <2>2. L.old \in DOMAIN caches
      BY <1>0, <2>1 DEF LocalsFit, LocalType
    <2>3. MemoryKept /\ DOMAIN caches' = DOMAIN caches
      BY <2>1, <2>2, FreeStep DEF OnlyCache
    <2>4. LocalsFit(caches, "find", L)
      BY <1>0, <2>1 DEF LocalsFit, InCache
    <2>5. LocalsFit(caches', "find", L)
      BY <1>0, <2>3, <2>4, FitKept
    <2> HIDE DEF LocalType, L, CleanerType
    <2> QED BY <1>0, <1>a, <1>b, <2>1, <2>3, <2>5, SenderType
  <1>5. CASE RetireLater(s)
    <2>1. pc[s] = "retire" /\ Goto(s, "append", L) /\ UNCHANGED_shared
      BY <1>5 DEF RetireLater, At
    <2>2. LocalsFit(caches, "append", L)
      BY <1>0, <2>1 DEF LocalsFit, InCache
    <2> HIDE DEF LocalType, L
    <2> QED BY <1>0, <1>b, <2>1, <2>2, QuietType
  <1>6. CASE AppendToFree(s)
    <2>1. /\ pc[s] = "append" /\ Goto(s, "signal", L)
          /\ toFree' = Append(toFree, L.old)
          /\ UNCHANGED <<handlers, objHandlers, err, caches, current, cleaner, undefined>>
      BY <1>6 DEF AppendToFree, At
    <2>2. LocalsFit(caches', "signal", L)
      BY <1>0, <2>1 DEF LocalsFit, InCache
    <2>3. toFree' \in Seq(Nat)
      BY <1>0, <1>a, <2>1 DEF LocalType
    <2>4. MemoryKept
      BY <2>1, CachesSame
    <2> HIDE DEF LocalType, L, CleanerType
    <2> QED BY <1>0, <1>a, <1>b, <2>1, <2>2, <2>3, <2>4, SenderType
  <1>7. CASE Signal(s)
    <2>1. /\ pc[s] = "signal" /\ Goto(s, "find", L)
          /\ cleaner' = IF cleaner.pc = "wait" THEN [cleaner EXCEPT !.pc = "wake"]
                                              ELSE cleaner
          /\ UNCHANGED <<handlers, objHandlers, err, caches, current, toFree, undefined>>
      BY <1>7 DEF Signal, At
    <2>2. LocalsFit(caches', "find", L)
      BY <1>0, <2>1 DEF LocalsFit, InCache
    <2>3. cleaner' \in CleanerType
      BY <1>a, <2>1 DEF CleanerType
    <2>4. MemoryKept
      BY <2>1, CachesSame
    <2> HIDE DEF LocalType, L, CleanerType
    <2> QED BY <1>0, <1>a, <1>b, <2>1, <2>2, <2>3, <2>4, SenderType
  <1>8. CASE Find(s)
    <2> DEFINE next == After(L.idx, L.cache)
    <2>1. /\ pc[s] = "find" /\ UNCHANGED_shared
          /\ \/ Goto(s, "name", L)
             \/ Goto(s, "done", [L EXCEPT !.idx = next])
             \/ Goto(s, "find", [L EXCEPT !.idx = next])
      BY <1>8 DEF Find, At
    <2>2. L.idx \in 0 .. caches[L.cache].mask /\ L.cache \in DOMAIN caches
      BY <1>0, <2>1 DEF LocalsFit, InCache
    <2>3. next \in 0 .. caches[L.cache].mask /\ next \in Nat
      BY <2>2, MaskedInRange
    <2>4. CASE Goto(s, "name", L)
      <3>1. LocalsFit(caches, "name", L)
        BY <1>0, <2>1 DEF LocalsFit, InCache
      <3> HIDE DEF LocalType, L
      <3> QED BY <1>0, <1>b, <2>1, <2>4, <3>1, QuietType
    <2>5. ASSUME NEW label \in {"done", "find"},
                 Goto(s, label, [L EXCEPT !.idx = next])
          PROVE  TypeInv'
      <3> DEFINE r == [L EXCEPT !.idx = next]
      <3> HIDE DEF next
      <3>1. /\ r \in LocalType /\ r.name = L.name /\ r.old = L.old /\ r.ptr = L.ptr
            /\ r.cache = L.cache /\ r.idx = next
        BY <1>0, <2>3 DEF LocalType
      <3>2. Goto(s, label, r)
        BY <2>5
      <3> HIDE DEF r
      <3>3. LocalsFit(caches, label, r)
        BY <1>0, <2>1, <2>3, <3>1 DEF LocalsFit, InCache
      <3> HIDE DEF LocalType, L
      <3> QED BY <1>b, <2>1, <3>1, <3>2, <3>3, QuietType
    <2> QED BY <2>1, <2>4, <2>5
  <1>9. CASE WriteName(s)
    <2>1. /\ pc[s] = "name" /\ Goto(s, "entry", L)
          /\ caches' = [caches EXCEPT ![L.cache].bucket[L.idx].name = L.name]
          /\ UNCHANGED <<handlers, objHandlers, err, current, toFree, cleaner, undefined>>
      BY <1>9 DEF WriteName, At
    <2>2. /\ L.cache \in DOMAIN caches /\ L.idx \in DOMAIN caches[L.cache].bucket
          /\ L.name \in Names
      BY <1>0, <2>1, EntryInRange DEF LocalsFit, InCache
    <2>3. MemoryKept /\ DOMAIN caches' = DOMAIN caches
      BY <2>1, <2>2, NameStep DEF OnlyCache
    <2>4. LocalsFit(caches, "entry", L)
      BY <1>0, <2>1 DEF LocalsFit, InCache
    <2>5. LocalsFit(caches', "entry", L)
      BY <1>0, <2>3, <2>4, FitKept
    <2> HIDE DEF LocalType, L, CleanerType
    <2> QED BY <1>0, <1>a, <1>b, <2>1, <2>3, <2>5, SenderType
  <1>10. CASE WriteEntry(s)
    <2>1. /\ pc[s] = "entry" /\ Goto(s, "count", L)
          /\ caches' = [caches EXCEPT ![L.cache].bucket[L.idx].fn = L.fn]
          /\ UNCHANGED <<handlers, objHandlers, err, current, toFree, cleaner, undefined>>
      BY <1>10 DEF WriteEntry, At
    <2>2. /\ L.cache \in DOMAIN caches /\ L.idx \in DOMAIN caches[L.cache].bucket
          /\ L.fn \in Fns \cup {NULL}
      BY <1>0, <2>1, EntryInRange DEF LocalsFit, InCache, LocalType
    <2>3. MemoryKept /\ DOMAIN caches' = DOMAIN caches
      BY <2>1, <2>2, EntryStep DEF OnlyCache
    <2>4. LocalsFit(caches, "count", L)
      BY <1>0, <2>1 DEF LocalsFit, InCache
    <2>5. LocalsFit(caches', "count", L)
      BY <1>0, <2>3, <2>4, FitKept
    <2> HIDE DEF LocalType, L, CleanerType
    <2> QED BY <1>0, <1>a, <1>b, <2>1, <2>3, <2>5, SenderType
  <1>11. CASE LoadOccupied(s)
    <2> DEFINE n == caches[L.cache].occupied
               r == [L EXCEPT !.count = n]
    <2>1. pc[s] = "count" /\ Goto(s, "occupy", r) /\ UNCHANGED_shared
      BY <1>11 DEF LoadOccupied, At
    <2>2. n \in Nat
      BY <1>0, <2>1, IsCache DEF InCache, CacheRec
    <2> HIDE DEF n
    <2>3. /\ r \in LocalType /\ r.name = L.name /\ r.old = L.old /\ r.ptr = L.ptr
          /\ r.cache = L.cache /\ r.idx = L.idx
      BY <1>0, <2>2 DEF LocalType
    <2> HIDE DEF r
    <2>4. LocalsFit(caches, "occupy", r)
      BY <1>0, <2>1, <2>3 DEF LocalsFit, InCache
    <2> HIDE DEF LocalType, L
    <2> QED BY <1>b, <2>1, <2>3, <2>4, QuietType
  <1>12. CASE StoreOccupied(s)
    <2> DEFINE n == L.count + 1
    <2>1. /\ pc[s] = "occupy" /\ Goto(s, "done", L)
          /\ caches' = [caches EXCEPT ![L.cache].occupied = n]
          /\ UNCHANGED <<handlers, objHandlers, err, current, toFree, cleaner, undefined>>
      BY <1>12 DEF StoreOccupied, At
    <2>2. L.cache \in DOMAIN caches /\ n \in Nat
      BY <1>0, <2>1 DEF InCache, LocalType
    <2> HIDE DEF n
    <2>3. MemoryKept /\ DOMAIN caches' = DOMAIN caches
      BY <2>1, <2>2, OccupiedStep DEF OnlyCache
    <2>4. LocalsFit(caches, "done", L)
      BY <1>0, <2>1 DEF LocalsFit, InCache
    <2>5. LocalsFit(caches', "done", L)
      BY <1>0, <2>3, <2>4, FitKept
    <2> HIDE DEF LocalType, L, CleanerType
    <2> QED BY <1>0, <1>a, <1>b, <2>1, <2>3, <2>5, SenderType
  <1> QED
    BY <1>1, <1>2, <1>3, <1>4, <1>5, <1>6, <1>7, <1>8, <1>9, <1>10, <1>11, <1>12

\* Counting in and out, and the ends of a send.
LEMMA CountType ==
  ASSUME TypeInv, NEW s \in Senders,
         \/ Enter(s) \/ Leave(s) \/ Done(s) \/ Call(s) \/ ReturnNil(s)
  PROVE  TypeInv'
  <1> DEFINE L == loc[s]
  <1>0. /\ L \in LocalType /\ LocalsFit(caches, pc[s], L)
        /\ current \in Nat \ {0} /\ current <= Len(caches)
        /\ Len(caches) \in Nat /\ current \in DOMAIN caches
        /\ DOMAIN caches = 1 .. Len(caches)
        /\ pc[s] \in InCache => L.cache \in DOMAIN caches
        /\ pc[s] \in {"enter", "leaveHit", "leaveMiss"} => L.ptr \in DOMAIN caches
        /\ pc[s] # "idle" => L.name \in Names
    BY SenderFacts DEF TypeInv
  <1>a. /\ err \in BOOLEAN /\ toFree \in Seq(Nat) /\ cleaner \in CleanerType
    <2> HIDE DEF CleanerType
    <2> QED BY DEF TypeInv
  <1>b. {"load", "call", "scan", "idle"} \subseteq Labels
    BY DEF Labels
  <1>c. NoLocals \in LocalType /\ LocalsFit(caches, "idle", NoLocals)
    BY <1>0 DEF NoLocals, LocalType, LocalsFit, InCache
  <1>d. CountMod - 1 \in Nat
    BY DispatchAssumption
  <1>1. ASSUME NEW c \in DOMAIN caches, NEW k \in Nat, AddAccessors(c, k),
               NEW label \in Labels, Goto(s, label, L), LocalsFit(caches, label, L),
               UNCHANGED <<handlers, objHandlers, err, current, toFree, cleaner, undefined>>
        PROVE  TypeInv'
    <2>1. MemoryKept /\ DOMAIN caches' = DOMAIN caches
      BY <1>1, CountStep DEF OnlyCache
    <2>2. LocalsFit(caches', label, L)
      BY <1>0, <1>1, <2>1, FitKept
    <2> HIDE DEF LocalType, L, CleanerType, Labels
    <2> QED BY <1>0, <1>a, <1>1, <2>1, <2>2, SenderType
  <1>2. CASE Enter(s)
    <2>1. /\ pc[s] = "enter" /\ Goto(s, "load", L) /\ AddAccessors(L.ptr, 1)
          /\ UNCHANGED <<handlers, objHandlers, err, current, toFree, cleaner, undefined>>
      BY <1>2 DEF Enter, At
    <2>2. LocalsFit(caches, "load", L)
      BY <1>0, <2>1 DEF LocalsFit, InCache
    <2> HIDE DEF L
    <2> QED BY <1>0, <1>1, <1>b, <2>1, <2>2
  <1>3. CASE Leave(s)
    <2>1. /\ AddAccessors(L.ptr, CountMod - 1)
          /\ UNCHANGED <<handlers, objHandlers, err, current, toFree, cleaner, undefined>>
          /\ \/ pc[s] = "leaveHit" /\ Goto(s, "call", L)
             \/ pc[s] = "leaveMiss" /\ Goto(s, "scan", L)
      BY <1>3 DEF Leave, At
    <2>2. /\ pc[s] = "leaveHit" => LocalsFit(caches, "call", L)
          /\ pc[s] = "leaveMiss" => LocalsFit(caches, "scan", L)
      BY <1>0 DEF LocalsFit, InCache
    <2> HIDE DEF L
    <2> QED BY <1>0, <1>1, <1>b, <1>d, <2>1, <2>2
  <1>4. CASE Done(s)
    <2>1. /\ pc[s] = "done" /\ Goto(s, "call", L)
          /\ AddAccessors(L.cache, CountMod - 1)
          /\ UNCHANGED <<handlers, objHandlers, err, current, toFree, cleaner, undefined>>
      BY <1>4 DEF Done, At
    <2>2. LocalsFit(caches, "call", L) /\ L.cache \in DOMAIN caches
      BY <1>0, <2>1 DEF LocalsFit, InCache
    <2> HIDE DEF L
    <2> QED BY <1>0, <1>1, <1>b, <1>d, <2>1, <2>2
  <1>5. CASE Call(s)
    <2>1. /\ pc[s] = "call" /\ Goto(s, "idle", NoLocals)
          /\ err' \in {err} \cup {TRUE}
          /\ UNCHANGED <<handlers, objHandlers, caches, current, toFree, cleaner, undefined>>
      BY <1>5 DEF Call, At
    <2>2. MemoryKept
      BY <2>1, CachesSame
    <2>3. LocalsFit(caches', "idle", NoLocals) /\ err' \in BOOLEAN
      BY <1>a, <1>c, <2>1 DEF LocalsFit
    <2> HIDE DEF LocalType, L, CleanerType
    <2> QED BY <1>0, <1>a, <1>b, <1>c, <2>1, <2>2, <2>3, SenderType
  <1>6. CASE ReturnNil(s)
    <2>1. Goto(s, "idle", NoLocals) /\ UNCHANGED_shared
      BY <1>6 DEF ReturnNil
    <2> HIDE DEF LocalType
    <2> QED BY <1>b, <1>c, <2>1, QuietType
  <1> QED BY <1>2, <1>3, <1>4, <1>5, <1>6

\* The cleanup thread, new handlers, and steps after which nothing is defined.
LEMMA OtherType ==
  ASSUME TypeInv,
         \/ \E n \in Names, f \in Fns : AddMsgHandler(n, f) \/ AddHandler(n, f)
         \/ CleanerStep
         \/ \E s \in Senders : Misstep(s)
         \/ UNCHANGED vars
  PROVE  TypeInv'
  <1>a. /\ handlers \in Seq(HandlerType) /\ objHandlers \in Seq(HandlerType)
        /\ toFree \in Seq(Nat) /\ cleaner \in CleanerType
        /\ undefined \in BOOLEAN
    <2> HIDE DEF HandlerType, CleanerType
    <2> QED BY DEF TypeInv
  <1>1. ASSUME UNCHANGED <<err, caches, current, pc, loc>>,
               handlers' \in Seq(HandlerType), objHandlers' \in Seq(HandlerType),
               toFree' \in Seq(Nat), cleaner' \in CleanerType, undefined' \in BOOLEAN
        PROVE  TypeInv'
    <2> HIDE DEF HandlerType, CleanerType, Labels, LocalType, CacheRec
    <2>1. \A c \in DOMAIN caches : Addressable(c)'
      BY <1>1 DEF TypeInv, Addressable
    <2> QED BY <1>1, <2>1 DEF TypeInv
  <1>2. ASSUME NEW n \in Names, NEW f \in Fns, AddMsgHandler(n, f) \/ AddHandler(n, f)
        PROVE  TypeInv'
    <2>1. [name |-> n, fn |-> f] \in HandlerType
      BY DEF HandlerType
    <2> HIDE DEF HandlerType, CleanerType
    <2>2. /\ Append(handlers, [name |-> n, fn |-> f]) \in Seq(HandlerType)
          /\ Append(objHandlers, [name |-> n, fn |-> f]) \in Seq(HandlerType)
      BY <1>a, <2>1
    <2>3. handlers' \in Seq(HandlerType) /\ objHandlers' \in Seq(HandlerType)
      BY <1>a, <1>2, <2>2 DEF AddMsgHandler, AddHandler
    <2>4. /\ UNCHANGED <<err, caches, current, pc, loc, toFree, cleaner>>
          /\ undefined' \in BOOLEAN
      BY <1>2 DEF AddMsgHandler, AddHandler
    <2> QED BY <1>a, <1>1, <2>3, <2>4
  <1>3. CASE CleanerStep
    <2>1. UNCHANGED <<handlers, objHandlers, err, caches, current, pc, loc>>
      BY <1>3 DEF CleanerStep, Wait, WakeSpuriously, LockList, ScanMisstep,
                  ScanBusy, ScanPop, UNCHANGED_senders
    <2>2. undefined' \in BOOLEAN
      BY <1>3, <1>a DEF CleanerStep, Wait, WakeSpuriously, LockList, ScanMisstep,
                  ScanBusy, ScanPop
    <2>3. cleaner' \in CleanerType
      <3>1. CleanupBatch \in Nat \ {0}
        BY DispatchAssumption
      <3>2. cleaner.left \in 0 .. CleanupBatch
        BY <1>a DEF CleanerType
      <3>3. [pc |-> "enter", left |-> 0] \in CleanerType
        BY <3>1 DEF CleanerType
      <3>4. CASE Wait \/ WakeSpuriously \/ ScanMisstep \/ ScanBusy
        BY <1>a, <3>3, <3>4 DEF Wait, WakeSpuriously, ScanMisstep, ScanBusy, CleanerType
      <3>5. CASE LockList
        BY <3>1, <3>5 DEF LockList, CleanerType
      <3>6. CASE ScanPop
        <4>1. CASE cleaner.left > 1
          <5>1. cleaner.left - 1 \in 0 .. CleanupBatch
            BY <3>1, <3>2, <4>1
          <5>2. cleaner' = [cleaner EXCEPT !.left = cleaner.left - 1]
            BY <3>6, <4>1 DEF ScanPop
          <5> QED BY <1>a, <5>1, <5>2 DEF CleanerType
        <4> QED BY <3>3, <3>6, <4>1 DEF ScanPop
      <3> QED BY <1>3, <3>4, <3>5, <3>6 DEF CleanerStep
    <2>4. toFree' \in Seq(Nat)
      BY <1>3, <1>a, SeqDropLast
      DEF CleanerStep, Wait, WakeSpuriously, LockList, ScanMisstep, ScanBusy, ScanPop
    <2> HIDE DEF HandlerType, CleanerType
    <2> QED BY <1>a, <1>1, <2>1, <2>2, <2>3, <2>4
  <1>4. CASE \E s \in Senders : Misstep(s)
    <2> HIDE DEF HandlerType, CleanerType
    <2> QED BY <1>a, <1>1, <1>4 DEF Misstep
  <1>5. CASE UNCHANGED vars
    <2> HIDE DEF HandlerType, CleanerType
    <2> QED BY <1>a, <1>1, <1>5 DEF vars
  <1> QED BY <1>2, <1>3, <1>4, <1>5

LEMMA TypeInit == Init => TypeInv
  <1> SUFFICES ASSUME Init PROVE TypeInv
    OBVIOUS
  <1>1. PICK b \in InitialBuckets, dirty \in SUBSET DirtyBuckets :
          caches = <<NewCache(b, 0, dirty)>>
    BY DEF Init
  <1> DEFINE r == NewCache(b, 0, dirty)
  <1>2. /\ b \in Nat \ {0} /\ Mask(b) < MaxAddr
        /\ CleanupBatch \in Nat
    BY DispatchAssumption
  <1>3. r \in CacheRec /\ r.mask = Mask(b)
        /\ DOMAIN r.bucket = 0 .. b - 1
    BY <1>2, NewCacheType
  <1>4. Mask(b) \in Nat /\ Mask(b) < b
    BY <1>2, MaskBelow
  <1> HIDE DEF r
  <1>5. caches = <<r>> /\ Len(caches) = 1 /\ DOMAIN caches = {1} /\ caches[1] = r
    BY <1>1 DEF r
  <1>6. caches \in Seq(CacheRec)
    <2> HIDE DEF CacheRec
    <2> QED BY <1>3, <1>5
  <1>7. \A c \in DOMAIN caches : Addressable(c)
    <2>1. 0 .. Mask(b) \subseteq 0 .. b - 1
      BY <1>2, <1>4
    <2> QED BY <1>2, <1>3, <1>5, <2>1 DEF Addressable
  <1>8. NoLocals \in LocalType /\ LocalsFit(caches, "idle", NoLocals)
    BY <1>5 DEF NoLocals, LocalType, LocalsFit, InCache
  <1>9. /\ pc \in [Senders -> Labels] /\ loc \in [Senders -> LocalType]
        /\ \A s \in Senders : LocalsFit(caches, pc[s], loc[s])
    <2> HIDE DEF LocalType
    <2> QED BY <1>8 DEF Init, Labels
  <1>10. cleaner \in CleanerType
    BY <1>2 DEF Init, CleanerType
  <1>11. /\ handlers \in Seq(HandlerType) /\ objHandlers \in Seq(HandlerType)
         /\ err \in BOOLEAN /\ undefined \in BOOLEAN /\ toFree \in Seq(Nat)
    <2>1. /\ handlers = <<>> /\ objHandlers = <<>> /\ toFree = <<>>
          /\ err = FALSE /\ undefined = FALSE
      BY DEF Init
    <2> HIDE DEF HandlerType
    <2>2. err \in BOOLEAN /\ undefined \in BOOLEAN
      BY <2>1, Zenon
    <2>3. handlers \in Seq(HandlerType) /\ objHandlers \in Seq(HandlerType)
      BY <2>1
    <2>4. toFree \in Seq(Nat)
      BY <2>1
    <2> QED BY <2>2, <2>3, <2>4
  <1>12. current \in DOMAIN caches
    BY <1>5 DEF Init
  <1> HIDE DEF LocalType, CleanerType, HandlerType, CacheRec
  <1> QED BY <1>6, <1>7, <1>9, <1>10, <1>11, <1>12 DEF TypeInv

LEMMA TypeNext == TypeInv /\ [Next]_vars => TypeInv'
  <1> SUFFICES ASSUME TypeInv, [Next]_vars PROVE TypeInv'
    OBVIOUS
  <1>1. CASE \E s \in Senders : SenderStep(s)
    <2> PICK s \in Senders : SenderStep(s)
      BY <1>1
    <2> QED BY LookupType, InsertType, CountType, OtherType DEF SenderStep
  <1>2. CASE \E s \in Senders, n \in Names : Send(s, n)
    BY <1>2, LookupType
  <1> QED BY <1>1, <1>2, OtherType DEF Next

------------------------------------------------------------------------------
(* The current cache is live, for any number of senders                     *)

\* What a step does to the locals and places of the other senders.
LEMMA GotoLocals ==
  ASSUME TypeInv, NEW s \in Senders, NEW label, NEW r, Goto(s, label, r)
  PROVE  loc'[s] = r /\ \A t \in Senders : t # s => loc'[t] = loc[t]
  <1> HIDE DEF LocalType
  <1> QED BY DEF TypeInv, Goto

\* A step that leaves caches, cls->cache and the list alone keeps LiveInv if
\* the sender's retired cache stays behind the current one.
LEMMA QuietLive ==
  ASSUME TypeInv, LiveInv, NEW s \in Senders, NEW label, NEW r, Goto(s, label, r),
         UNCHANGED <<caches, current, toFree>>, r.old = 0 \/ r.old = loc[s].old
  PROVE  LiveInv'
  <1>1. loc'[s] = r /\ \A t \in Senders : t # s => loc'[t] = loc[t]
    BY GotoLocals
  <1>2. current \in Nat \ {0}
    BY SenderFacts
  <1> QED BY <1>1, <1>2 DEF LiveInv

\* The same when a cache that is not the current one changes.
LEMMA MemoryLive ==
  ASSUME TypeInv, LiveInv, NEW s \in Senders, NEW label, Goto(s, label, loc[s]),
         UNCHANGED <<current, toFree>>, caches'[current].freed = caches[current].freed
  PROVE  LiveInv'
  <1>1. loc'[s] = loc[s] /\ \A t \in Senders : t # s => loc'[t] = loc[t]
    BY GotoLocals
  <1> QED BY <1>1 DEF LiveInv

LEMMA LookupLive ==
  ASSUME TypeInv, LiveInv, NEW s \in Senders,
         \/ \E n \in Names : Send(s, n)
         \/ Load(s) \/ ProbeOn(s) \/ ProbeStop(s) \/ Hit(s) \/ Miss(s) \/ Scan(s)
         \/ NoGrowth(s) \/ RetireLater(s) \/ Find(s) \/ Signal(s) \/ LoadOccupied(s)
         \/ Call(s) \/ ReturnNil(s)
  PROVE  LiveInv'
  <1>0. loc[s] \in LocalType
    BY SenderFacts
  <1>1. UNCHANGED <<caches, current, toFree>>
    BY DEF Send, Load, ProbeOn, ProbeStop, Hit, Miss, Scan, NoGrowth, RetireLater,
           Find, Signal, LoadOccupied, Call, ReturnNil, UNCHANGED_shared
  <1>2. \E label, r : Goto(s, label, r) /\ (r.old = 0 \/ r.old = loc[s].old)
    <2>1. NoLocals.old = 0
      BY DEF NoLocals
    <2>2. CASE \E n \in Names : Send(s, n)
      <3> PICK n \in Names : Send(s, n)
        BY <2>2
      <3>1. \A f, p : /\ [NoLocals EXCEPT !.name = n, !.fn = f].old = 0
                      /\ [NoLocals EXCEPT !.name = n, !.ptr = p].old = 0
        BY DEF NoLocals
      <3> HIDE DEF NoLocals
      <3>2. \E label, r : Goto(s, label, r) /\ r.old = 0
        <4>1. CASE Has(objHandlers, n)
          BY <3>1, <4>1 DEF Send
        <4>2. CASE ~Has(objHandlers, n)
          BY <3>1, <4>2 DEF Send
        <4> QED BY <4>1, <4>2
      <3> QED BY <3>2
    <2>3. CASE ProbeStop(s) \/ RetireLater(s) \/ Signal(s)
      BY <2>3 DEF ProbeStop, RetireLater, Signal
    <2>4. CASE Call(s) \/ ReturnNil(s)
      BY <2>1, <2>4 DEF Call, ReturnNil
    <2>5. \A i, c, f, p : /\ [loc[s] EXCEPT !.idx = i].old = loc[s].old
                          /\ [loc[s] EXCEPT !.cache = c, !.idx = i].old = loc[s].old
                          /\ [loc[s] EXCEPT !.fn = f, !.ptr = p].old = loc[s].old
                          /\ [loc[s] EXCEPT !.ptr = p].old = loc[s].old
                          /\ [loc[s] EXCEPT !.fn = f].old = loc[s].old
      BY <1>0 DEF LocalType
    <2>6. CASE Load(s) \/ ProbeOn(s) \/ Hit(s) \/ Miss(s) \/ NoGrowth(s)
      <3>1. CASE Load(s)
        <4> DEFINE i == Home(loc[s].name, current)
                   r == [loc[s] EXCEPT !.cache = current, !.idx = i]
        <4>1. Goto(s, "probe", r)
          BY <3>1 DEF Load
        <4> HIDE DEF i
        <4>2. r.old = loc[s].old
          BY <1>0 DEF LocalType
        <4> HIDE DEF r
        <4> QED BY <4>1, <4>2
      <3>2. CASE ProbeOn(s)
        <4> DEFINE i == After(loc[s].idx, loc[s].cache)
                   r == [loc[s] EXCEPT !.idx = i]
        <4>1. Goto(s, "probe", r)
          BY <3>2 DEF ProbeOn
        <4> HIDE DEF i
        <4>2. r.old = loc[s].old
          BY <1>0 DEF LocalType
        <4> HIDE DEF r
        <4> QED BY <4>1, <4>2
      <3>3. CASE Hit(s)
        <4> DEFINE f == Entry(s).fn
                   r == [loc[s] EXCEPT !.fn = f, !.ptr = current]
        <4>1. Goto(s, "leaveHit", r)
          BY <3>3 DEF Hit
        <4> HIDE DEF f
        <4>2. r.old = loc[s].old
          BY <1>0 DEF LocalType
        <4> HIDE DEF r
        <4> QED BY <4>1, <4>2
      <3>4. CASE Miss(s)
        BY <2>5, <3>4 DEF Miss
      <3>5. CASE NoGrowth(s)
        BY <2>5, <3>5 DEF NoGrowth
      <3> QED BY <2>6, <3>1, <3>2, <3>3, <3>4, <3>5
    <2>7. CASE Scan(s)
      BY <2>5, <2>7 DEF Scan
    <2>8. CASE Find(s)
      <3> DEFINE i == After(loc[s].idx, loc[s].cache)
                 r == [loc[s] EXCEPT !.idx = i]
                 label == IF i = Home(loc[s].name, loc[s].cache) THEN "done" ELSE "find"
      <3>1. Goto(s, "name", loc[s]) \/ Goto(s, label, r)
        BY <2>8 DEF Find
      <3> HIDE DEF i, label
      <3>2. r.old = loc[s].old
        BY <1>0 DEF LocalType
      <3> HIDE DEF r
      <3> QED BY <3>1, <3>2
    <2>9. CASE LoadOccupied(s)
      <3> DEFINE n == caches[loc[s].cache].occupied
                 r == [loc[s] EXCEPT !.count = n]
      <3>1. Goto(s, "occupy", r)
        BY <2>9 DEF LoadOccupied
      <3> HIDE DEF n
      <3>2. r.old = loc[s].old
        BY <1>0 DEF LocalType
      <3> HIDE DEF r
      <3> QED BY <3>1, <3>2
    <2> QED BY <2>2, <2>3, <2>4, <2>6, <2>7, <2>8, <2>9
  <1> QED BY <1>1, <1>2, QuietLive

\* The steps that change a cache or the list.
LEMMA MemoryStepLive ==
  ASSUME TypeInv, LiveInv, NEW s \in Senders,
         \/ Enter(s) \/ Leave(s) \/ Done(s) \/ WriteName(s) \/ WriteEntry(s)
         \/ StoreOccupied(s) \/ RetireFree(s) \/ AppendToFree(s) \/ Grow(s)
  PROVE  LiveInv'
  <1> DEFINE L == loc[s]
  <1>0. /\ L \in LocalType /\ LocalsFit(caches, pc[s], L)
        /\ current \in Nat \ {0} /\ current <= Len(caches)
        /\ Len(caches) \in Nat /\ current \in DOMAIN caches
        /\ DOMAIN caches = 1 .. Len(caches)
        /\ pc[s] \in InCache => L.cache \in DOMAIN caches
        /\ pc[s] \in {"enter", "leaveHit", "leaveMiss"} => L.ptr \in DOMAIN caches
        /\ pc[s] # "idle" => L.name \in Names
    BY SenderFacts DEF TypeInv
  <1>1. ASSUME NEW c \in DOMAIN caches, NEW k \in Nat, AddAccessors(c, k)
        PROVE  caches'[current].freed = caches[current].freed
    BY <1>0, <1>1, CountStep DEF OnlyCache
  <1>d. CountMod - 1 \in Nat
    BY DispatchAssumption
  <1>2. CASE Enter(s)
    <2>1. /\ pc[s] = "enter" /\ Goto(s, "load", L) /\ AddAccessors(L.ptr, 1)
          /\ UNCHANGED <<current, toFree>>
      BY <1>2 DEF Enter, At
    <2> QED BY <1>0, <1>1, <2>1, MemoryLive
  <1>3. CASE Leave(s)
    <2>1. /\ pc[s] \in {"leaveHit", "leaveMiss"} /\ AddAccessors(L.ptr, CountMod - 1)
          /\ Goto(s, "call", L) \/ Goto(s, "scan", L)
          /\ UNCHANGED <<current, toFree>>
      BY <1>3 DEF Leave, At
    <2> QED BY <1>0, <1>1, <1>d, <2>1, MemoryLive
  <1>4. CASE Done(s)
    <2>1. /\ pc[s] = "done" /\ AddAccessors(L.cache, CountMod - 1)
          /\ Goto(s, "call", L) /\ UNCHANGED <<current, toFree>>
      BY <1>4 DEF Done, At
    <2>2. L.cache \in DOMAIN caches
      BY <1>0, <2>1 DEF InCache
    <2> QED BY <1>1, <1>d, <2>1, <2>2, MemoryLive
  <1>5. CASE WriteName(s)
    <2>1. /\ pc[s] = "name" /\ Goto(s, "entry", L) /\ UNCHANGED <<current, toFree>>
          /\ caches' = [caches EXCEPT ![L.cache].bucket[L.idx].name = L.name]
      BY <1>5 DEF WriteName, At
    <2>2. /\ L.cache \in DOMAIN caches /\ L.idx \in DOMAIN caches[L.cache].bucket
          /\ L.name \in Names
      BY <1>0, <2>1, EntryInRange DEF LocalsFit, InCache
    <2>3. caches'[current].freed = caches[current].freed
      BY <1>0, <2>1, <2>2, NameStep DEF OnlyCache
    <2> QED BY <2>1, <2>3, MemoryLive
  <1>6. CASE WriteEntry(s)
    <2>1. /\ pc[s] = "entry" /\ Goto(s, "count", L) /\ UNCHANGED <<current, toFree>>
          /\ caches' = [caches EXCEPT ![L.cache].bucket[L.idx].fn = L.fn]
      BY <1>6 DEF WriteEntry, At
    <2>2. /\ L.cache \in DOMAIN caches /\ L.idx \in DOMAIN caches[L.cache].bucket
          /\ L.fn \in Fns \cup {NULL}
      BY <1>0, <2>1, EntryInRange DEF LocalsFit, InCache, LocalType
    <2>3. caches'[current].freed = caches[current].freed
      BY <1>0, <2>1, <2>2, EntryStep DEF OnlyCache
    <2> QED BY <2>1, <2>3, MemoryLive
  <1>10. CASE StoreOccupied(s)
    <2>1. /\ pc[s] = "occupy" /\ Goto(s, "done", L) /\ UNCHANGED <<current, toFree>>
          /\ caches' = [caches EXCEPT ![L.cache].occupied = L.count + 1]
      BY <1>10 DEF StoreOccupied, At
    <2>2. L.cache \in DOMAIN caches /\ L.count + 1 \in Nat
      BY <1>0, <2>1 DEF InCache, LocalType
    <2>3. caches'[current].freed = caches[current].freed
      BY <1>0, <2>1, <2>2, OccupiedStep DEF OnlyCache
    <2> QED BY <2>1, <2>3, MemoryLive
  <1>7. CASE RetireFree(s)
    <2>1. /\ pc[s] = "retire" /\ Goto(s, "find", L) /\ UNCHANGED <<current, toFree>>
          /\ caches' = [caches EXCEPT ![L.old].freed = TRUE]
      BY <1>7 DEF RetireFree, At
    <2>2. L.old \in DOMAIN caches /\ L.old < current
      BY <1>0, <2>1 DEF LocalsFit, LocalType, LiveInv
    <2>3. caches'[current] = caches[current]
      BY <1>0, <2>1, <2>2, FreeStep DEF OnlyCache
    <2> QED BY <2>1, <2>3, MemoryLive
  <1>8. CASE AppendToFree(s)
    <2>1. /\ pc[s] = "append" /\ Goto(s, "signal", L)
          /\ UNCHANGED <<caches, current>>
          /\ toFree' = Append(toFree, L.old)
      BY <1>8 DEF AppendToFree, At
    <2>2. L.old \in 1 .. current - 1 /\ L.old \in Nat
      BY <1>0, <2>1 DEF LocalsFit, LocalType, LiveInv
    <2>3. loc'[s] = L /\ \A t \in Senders : t # s => loc'[t] = loc[t]
      BY <2>1, GotoLocals
    <2>4. /\ DOMAIN toFree' = DOMAIN toFree \cup {Len(toFree) + 1}
          /\ toFree'[Len(toFree) + 1] = L.old
          /\ \A k \in DOMAIN toFree : toFree'[k] = toFree[k]
      <3> HIDE DEF L
      <3> QED BY <2>1, <2>2 DEF TypeInv
    <2> QED BY <2>1, <2>2, <2>3, <2>4 DEF LiveInv
  <1>9. CASE Grow(s)
    <2> DEFINE b == NewCap(L.cache)
    <2>1. /\ pc[s] = "space" /\ Mask(b) < MaxAddr
          /\ current' = Len(caches') /\ UNCHANGED toFree
          /\ \E i : Goto(s, "retire", [L EXCEPT !.old = L.cache, !.cache = current', !.idx = i])
      BY <1>9 DEF Grow, At, RoomToGrow
    <2>2. PICK dirty \in SUBSET DirtyBuckets : caches' = Append(caches, NewCache(b, 1, dirty))
      BY <1>9 DEF Grow
    <2>3. L.cache \in DOMAIN caches
      BY <1>0, <2>1 DEF InCache
    <2>4. b \in Nat \ {0}
      BY <2>3, MaskedInRange DEF NewCap
    <2>5. PICK i : Goto(s, "retire", [L EXCEPT !.old = L.cache, !.cache = current', !.idx = i])
      BY <2>1
    <2> HIDE DEF b
    <2>6. /\ Len(caches') = Len(caches) + 1
          /\ caches'[Len(caches) + 1] = NewCache(b, 1, dirty)
      BY <2>1, <2>2, <2>4, GrowStep
    <2>7. current' = Len(caches) + 1 /\ current' \in Nat
      BY <1>0, <2>1, <2>6
    <2>8. ~caches'[current'].freed
      BY <2>4, <2>6, <2>7, NewCacheType
    <2>9. [L EXCEPT !.old = L.cache, !.cache = current', !.idx = i].old = L.cache
      <3> HIDE DEF L
      <3> QED BY <1>0 DEF LocalType
    <2>10. loc'[s].old = L.cache /\ \A t \in Senders : t # s => loc'[t] = loc[t]
      <3> DEFINE r == [L EXCEPT !.old = L.cache, !.cache = current', !.idx = i]
      <3>1. Goto(s, "retire", r) /\ r.old = L.cache
        BY <2>5, <2>9
      <3> HIDE DEF r
      <3> QED BY <3>1, GotoLocals
    <2>11. \A t \in Senders : loc'[t].old < current'
      <3>1. /\ Len(caches) \in Nat /\ L.cache \in Nat /\ L.cache <= Len(caches)
            /\ \A t \in Senders : loc[t] \in LocalType /\ LocalsFit(caches, pc[t], loc[t])
        BY <1>0, <2>3, SenderFacts
      <3>2. \A t \in Senders : loc[t].old \in Nat /\ loc[t].old <= Len(caches)
        BY <3>1 DEF LocalType, LocalsFit
      <3> HIDE DEF L
      <3> QED BY <2>7, <2>10, <3>1, <3>2
    <2>12. \A k \in DOMAIN toFree : toFree[k] \in 1 .. current' - 1
      BY <1>0, <2>7 DEF LiveInv
    <2> QED BY <2>1, <2>8, <2>11, <2>12 DEF LiveInv
  <1> QED BY <1>2, <1>3, <1>4, <1>5, <1>6, <1>7, <1>8, <1>9, <1>10

LEMMA OtherLive ==
  ASSUME TypeInv, LiveInv,
         \/ \E n \in Names, f \in Fns : AddMsgHandler(n, f) \/ AddHandler(n, f)
         \/ CleanerStep
         \/ \E s \in Senders : Misstep(s)
         \/ UNCHANGED vars
  PROVE  LiveInv'
  <1>1. UNCHANGED <<caches, current, loc>>
    BY DEF AddMsgHandler, AddHandler, CleanerStep, Wait, WakeSpuriously, LockList,
           ScanMisstep, ScanBusy, ScanPop, UNCHANGED_senders, Misstep, vars
  <1>2. UNCHANGED toFree \/ (toFree # <<>> /\ toFree' = SubSeq(toFree, 1, Len(toFree) - 1))
    BY DEF AddMsgHandler, AddHandler, CleanerStep, Wait, WakeSpuriously, LockList,
           ScanMisstep, ScanBusy, ScanPop, UNCHANGED_senders, Misstep, vars
  <1>3. \A k \in DOMAIN toFree' : k \in DOMAIN toFree /\ toFree'[k] = toFree[k]
    BY <1>2, SeqDropLast DEF TypeInv
  <1> QED BY <1>1, <1>3 DEF LiveInv

LEMMA LiveInit == Init => LiveInv
  <1> SUFFICES ASSUME Init PROVE LiveInv
    OBVIOUS
  <1>1. PICK b \in InitialBuckets, dirty \in SUBSET DirtyBuckets :
          caches = <<NewCache(b, 0, dirty)>>
    BY DEF Init
  <1>2. caches[1].freed = FALSE
    BY <1>1, NewCacheType, DispatchAssumption
  <1>3. /\ current = 1 /\ toFree = <<>>
        /\ \A s \in Senders : loc[s].old = 0
    BY DEF Init, NoLocals
  <1> QED BY <1>2, <1>3 DEF LiveInv

LEMMA LiveNext == TypeInv /\ LiveInv /\ [Next]_vars => LiveInv'
  <1> SUFFICES ASSUME TypeInv, LiveInv, [Next]_vars PROVE LiveInv'
    OBVIOUS
  <1>1. CASE \E s \in Senders : SenderStep(s)
    <2> PICK s \in Senders : SenderStep(s)
      BY <1>1
    <2> QED BY LookupLive, MemoryStepLive, OtherLive DEF SenderStep
  <1>2. CASE \E s \in Senders, n \in Names : Send(s, n)
    BY <1>2, LookupLive
  <1> QED BY <1>1, <1>2, OtherLive DEF Next

\* TypeInv and LiveInv hold always.
LEMMA TypeAndLive == Spec => [](TypeInv /\ LiveInv)
  BY TypeInit, TypeNext, LiveInit, LiveNext, PTL DEF Spec

\* The invariant behind the proofs gives the type correctness of the module.
LEMMA TypeInvGivesTypeOK == TypeInv /\ LiveInv => TypeOK
  <1> SUFFICES ASSUME TypeInv, LiveInv PROVE TypeOK
    OBVIOUS
  <1>1. \A c \in DOMAIN caches : CacheType(caches[c])
    <2> SUFFICES ASSUME NEW c \in DOMAIN caches PROVE CacheType(caches[c])
      OBVIOUS
    <2> DEFINE r == caches[c]
    <2>1. r \in CacheRec
      BY IsCache
    <2>2. PICK b \in Nat : r.bucket \in [0 .. b - 1 -> EntryType]
      BY <2>1 DEF CacheRec, Buckets
    <2>3. 0 .. r.mask \subseteq DOMAIN r.bucket
      BY DEF TypeInv, Addressable
    <2>4. \A i \in DOMAIN r.bucket : r.bucket[i] \in EntryType
      <3> HIDE DEF r, EntryType
      <3> QED BY <2>2
    <2> HIDE DEF r
    <2>5. r.mask \in Nat /\ r.mask \in DOMAIN r.bucket
      BY <2>1, <2>3 DEF CacheRec
    <2>6. /\ r.occupied \in Nat /\ r.accessors \in 0 .. CountMod - 1
          /\ r.freed \in BOOLEAN
      BY <2>1 DEF CacheRec
    <2>7. CacheType(r)
      BY <2>4, <2>5, <2>6 DEF CacheType, EntryType
    <2> QED BY <2>7 DEF r
  <1>2. toFree \in Seq(DOMAIN caches)
    <2>1. toFree \in Seq(Nat) /\ current \in Nat /\ current <= Len(caches)
          /\ DOMAIN caches = 1 .. Len(caches) /\ Len(caches) \in Nat
      BY DEF TypeInv
    <2>2. \A k \in 1 .. Len(toFree) : toFree[k] \in DOMAIN caches
      BY <2>1 DEF LiveInv
    <2> QED BY <2>1, <2>2
  <1>3. ASSUME NEW s \in Senders
        PROVE  /\ loc[s].name \in Names \cup {NULL}
               /\ {loc[s].ptr, loc[s].cache, loc[s].old} \subseteq {0} \cup DOMAIN caches
               /\ loc[s].fn \in Fns \cup {NULL}
               /\ loc[s].count \in Nat
               /\ loc[s].cache # 0 => loc[s].idx \in DOMAIN caches[loc[s].cache].bucket
    <2>1. /\ loc[s] \in LocalType /\ LocalsFit(caches, pc[s], loc[s])
          /\ DOMAIN caches = 1 .. Len(caches) /\ Len(caches) \in Nat
      BY SenderFacts
    <2>2. loc[s].cache # 0 => loc[s].idx \in DOMAIN caches[loc[s].cache].bucket
      BY EntryInRange
    <2> QED BY <2>1, <2>2 DEF LocalType, LocalsFit
  <1> HIDE DEF HandlerType, Labels, CacheType
  <1> QED BY <1>1, <1>2, <1>3 DEF TypeInv, TypeOK, CleanerType

\* Type correctness: a sender never looks at a bucket outside of the memory
\* of its cache, and every cache it has a pointer to is one that was made
\* (Ft_object.c:90-189).
THEOREM DispatchTypeCorrect == Spec => []TypeOK
  BY TypeAndLive, TypeInvGivesTypeOK, PTL

\* However many threads send, and whatever the cleanup thread does, cls->cache
\* is neither freed nor in the list of caches to free: a thread that has just
\* loaded it holds a pointer to live memory (Ft_object.c:98, 152-160).
THEOREM DispatchCurrentCacheLive == Spec => []CurrentCacheLive
  <1>1. TypeInv /\ LiveInv => CurrentCacheLive
    BY SenderFacts DEF TypeInv, LiveInv, CurrentCacheLive
  <1> QED BY <1>1, TypeAndLive, PTL

------------------------------------------------------------------------------
(* One sender                                                               *)

\* A set of buckets that holds where a message belongs and, with every bucket
\* that has another name, the next one; none of them is empty.  A lookup of
\* the message stays in it.
Trail(n, c, P) ==
  /\ Home(n, c) \in P
  /\ \A j \in P : /\ caches[c].bucket[j].name # NULL
                  /\ caches[c].bucket[j].name = n \/ After(j, c) \in P

BucketSets(c) == SUBSET (0 .. caches[c].mask)

NoTrail(n, c) == \A P \in BucketSets(c) : ~Trail(n, c, P)

\* The buckets an insertion has passed, all taken.
Passed(n, c, i, V) ==
  /\ Home(n, c) \in V \cup {i}
  /\ \A j \in V : /\ caches[c].bucket[j].name # NULL
                  /\ After(j, c) \in V \cup {i}

\* The buckets of cache c that hold the name of a message.
Named(c) == { i \in DOMAIN caches[c].bucket : caches[c].bucket[i].name \in Names }

\* Where a sender makes an entry.
Makes == {"entry", "count", "occupy"}

\* Those whose entry is made.
Cached(c) == { i \in Named(c) : ~InTheMaking(c, i) }

\* The cache agrees with the tables, and the message in a bucket can be found.
CacheInv(c) ==
  /\ Named(c) \subseteq 0 .. caches[c].mask
  /\ \A i \in Cached(c) :
       /\ Has(handlers, caches[c].bucket[i].name)
       /\ caches[c].bucket[i].fn = First(handlers, caches[c].bucket[i].name)
  /\ \A i, j \in Named(c) :
       caches[c].bucket[i].name = caches[c].bucket[j].name => i = j
  /\ \A i \in Named(c) :
       \E P \in BucketSets(c) : Trail(caches[c].bucket[i].name, c, P)
  /\ caches[c].occupied = Cardinality(Cached(c))

BucketsInv == \A c \in DOMAIN caches : CacheInv(c)

\* What a sender at this label, which looks for message n and is at bucket i
\* of cache c, has found out about the cache.
Knows(label, n, c, i) ==
  /\ label \in {"probe", "check"} =>
       \A P \in BucketSets(c) : Trail(n, c, P) => i \in P
  /\ label = "check" => caches[c].bucket[i].name \in {NULL, n}
  /\ label \in {"leaveMiss", "scan", "space", "find", "name"} => NoTrail(n, c)
  /\ label \in {"find", "name"} => \E V \in BucketSets(c) : Passed(n, c, i, V)
  /\ label = "name" => caches[c].bucket[i].name = NULL
  /\ label \in Makes => caches[c].bucket[i].name = n

Searched(s) == Knows(pc[s], loc[s].name, loc[s].cache, loc[s].idx)

\* What it has written of the entry it makes.
Written(s) ==
  /\ pc[s] \in {"count", "occupy"} => Entry(s).fn = loc[s].fn
  /\ pc[s] = "occupy" => loc[s].count = caches[loc[s].cache].occupied

\* Where a sender has the function, and has not called it yet.
HasFn == {"leaveHit", "space", "find", "name", "entry", "count", "occupy", "done"}

Found(s) ==
  LET n == loc[s].name
  IN /\ pc[s] \notin {"idle", "call"} => ~Has(objHandlers, n)
     /\ pc[s] \in HasFn =>
          Has(handlers, n) /\ loc[s].fn = First(handlers, n)
     /\ pc[s] = "call" =>
          IF Has(objHandlers, n)
          THEN loc[s].fn = First(objHandlers, n)
          ELSE Has(handlers, n) /\ loc[s].fn = First(handlers, n)
     /\ pc[s] = "nil" => ~Has(handlers, n) \/ err

\* Nothing has been retired.
OneCache(s) == Len(caches) = 1 /\ pc[s] \notin {"retire", "append", "signal"}

\* The accessors of a cache and its entries together.
Excess(c) == (caches[c].accessors + caches[c].occupied) % CountMod

\* Where a sender is counted in the cache.
Counted == {"load", "probe", "check", "leaveHit", "leaveMiss", "done"}

Due(s) == IF pc[s] \in Counted THEN 1 ELSE 0

Accounts(s) == Excess(current) = Due(s)

------------------------------------------------------------------------------
(* What each step of the only sender does                                   *)

Moves(s, from, to) == pc[s] = from /\ pc'[s] = to

\* The caches keep their buckets.
BucketsFixed ==
  /\ DOMAIN caches' = DOMAIN caches
  /\ \A c \in DOMAIN caches : /\ caches'[c].mask = caches[c].mask
                              /\ caches'[c].bucket = caches[c].bucket
                              /\ caches'[c].occupied = caches[c].occupied

LEMMA GotoAt ==
  ASSUME TypeInv, NEW s \in Senders, NEW label, NEW r, Goto(s, label, r)
  PROVE  pc'[s] = label /\ loc'[s] = r
  <1> HIDE DEF LocalType, Labels
  <1> QED BY DEF TypeInv, Goto

LEMMA SendShape ==
  ASSUME TypeInv, NEW s \in Senders, NEW n \in Names, Send(s, n)
  PROVE  /\ pc[s] = "idle" /\ UNCHANGED_shared /\ loc'[s].name = n
         /\ Has(objHandlers, n) =>
              pc'[s] = "call" /\ loc'[s].fn = First(objHandlers, n)
         /\ ~Has(objHandlers, n) => pc'[s] = "enter" /\ loc'[s].ptr = current
  <1> DEFINE a == [NoLocals EXCEPT !.name = n, !.fn = First(objHandlers, n)]
             b == [NoLocals EXCEPT !.name = n, !.ptr = current]
  <1>1. /\ pc[s] = "idle" /\ UNCHANGED_shared
        /\ Has(objHandlers, n) => Goto(s, "call", a)
        /\ ~Has(objHandlers, n) => Goto(s, "enter", b)
    BY DEF Send, At
  <1>2. a.name = n /\ a.fn = First(objHandlers, n) /\ b.name = n /\ b.ptr = current
    BY DEF NoLocals
  <1> HIDE DEF a, b
  <1> QED BY <1>1, <1>2, GotoAt

LEMMA LoadShape ==
  ASSUME TypeInv, NEW s \in Senders, Load(s)
  PROVE  /\ Moves(s, "load", "probe") /\ UNCHANGED_shared
         /\ loc'[s].name = loc[s].name /\ loc'[s].cache = current
         /\ loc'[s].idx = Home(loc[s].name, current)
  <1> DEFINE i == Home(loc[s].name, current)
             r == [loc[s] EXCEPT !.cache = current, !.idx = i]
  <1>1. pc[s] = "load" /\ UNCHANGED_shared /\ Goto(s, "probe", r)
    BY DEF Load, At
  <1> HIDE DEF i
  <1>2. r.name = loc[s].name /\ r.cache = current /\ r.idx = i
    BY SenderFacts DEF LocalType
  <1> HIDE DEF r
  <1> QED BY <1>1, <1>2, GotoAt DEF i, Moves

LEMMA ProbeOnShape ==
  ASSUME TypeInv, NEW s \in Senders, ProbeOn(s)
  PROVE  /\ Moves(s, "probe", "probe") /\ UNCHANGED_shared
         /\ Entry(s).name \notin {NULL, loc[s].name}
         /\ loc'[s].name = loc[s].name /\ loc'[s].cache = loc[s].cache
         /\ loc'[s].idx = After(loc[s].idx, loc[s].cache)
  <1> DEFINE i == After(loc[s].idx, loc[s].cache)
             r == [loc[s] EXCEPT !.idx = i]
  <1>1. /\ pc[s] = "probe" /\ UNCHANGED_shared /\ Goto(s, "probe", r)
        /\ Entry(s).name \notin {NULL, loc[s].name}
    BY DEF ProbeOn, At
  <1> HIDE DEF i
  <1>2. r.name = loc[s].name /\ r.cache = loc[s].cache /\ r.idx = i
    BY SenderFacts DEF LocalType
  <1> HIDE DEF r
  <1> QED BY <1>1, <1>2, GotoAt DEF i, Moves

LEMMA ProbeStopShape ==
  ASSUME TypeInv, NEW s \in Senders, ProbeStop(s)
  PROVE  /\ Moves(s, "probe", "check") /\ UNCHANGED_shared
         /\ Entry(s).name \in {NULL, loc[s].name} /\ loc'[s] = loc[s]
  BY GotoAt DEF ProbeStop, At, Moves

LEMMA HitShape ==
  ASSUME TypeInv, NEW s \in Senders, Hit(s)
  PROVE  /\ Moves(s, "check", "leaveHit") /\ UNCHANGED_shared
         /\ Entry(s).name # NULL
         /\ loc'[s].name = loc[s].name /\ loc'[s].cache = loc[s].cache
         /\ loc'[s].fn = Entry(s).fn /\ loc'[s].ptr = current
  <1> DEFINE f == Entry(s).fn
             r == [loc[s] EXCEPT !.fn = f, !.ptr = current]
  <1>1. /\ pc[s] = "check" /\ UNCHANGED_shared /\ Goto(s, "leaveHit", r)
        /\ Entry(s).name # NULL
    BY DEF Hit, At
  <1> HIDE DEF f
  <1>2. /\ r.name = loc[s].name /\ r.cache = loc[s].cache
        /\ r.fn = f /\ r.ptr = current
    BY SenderFacts DEF LocalType
  <1> HIDE DEF r
  <1> QED BY <1>1, <1>2, GotoAt DEF f, Moves

LEMMA MissShape ==
  ASSUME TypeInv, NEW s \in Senders, Miss(s)
  PROVE  /\ Moves(s, "check", "leaveMiss") /\ UNCHANGED_shared
         /\ Entry(s).name = NULL
         /\ loc'[s].name = loc[s].name /\ loc'[s].cache = loc[s].cache
         /\ loc'[s].ptr = current
  <1> DEFINE r == [loc[s] EXCEPT !.ptr = current]
  <1>1. /\ pc[s] = "check" /\ UNCHANGED_shared /\ Goto(s, "leaveMiss", r)
        /\ Entry(s).name = NULL
    BY DEF Miss, At
  <1>2. r.name = loc[s].name /\ r.cache = loc[s].cache /\ r.ptr = current
    BY SenderFacts DEF LocalType
  <1> HIDE DEF r
  <1> QED BY <1>1, <1>2, GotoAt DEF Moves

\* The counted steps change one accessor count and nothing else of the caches.
LEMMA CountShape ==
  ASSUME TypeInv, NEW s \in Senders, Enter(s) \/ Leave(s) \/ Done(s)
  PROVE  /\ BucketsFixed /\ loc'[s] = loc[s]
         /\ UNCHANGED <<handlers, objHandlers, err, current, toFree, cleaner, undefined>>
         /\ Enter(s) => Moves(s, "enter", "load")
         /\ Leave(s) => Moves(s, "leaveHit", "call") \/ Moves(s, "leaveMiss", "scan")
         /\ Done(s) => Moves(s, "done", "call")
         /\ \E c \in DOMAIN caches, k \in {1, CountMod - 1} :
              /\ c = IF pc[s] = "done" THEN loc[s].cache ELSE loc[s].ptr
              /\ k = IF pc[s] = "enter" THEN 1 ELSE CountMod - 1
              /\ OnlyCache(c) /\ caches'[c].freed = caches[c].freed
              /\ caches'[c].accessors = (caches[c].accessors + k) % CountMod
  <1> DEFINE c == IF pc[s] = "done" THEN loc[s].cache ELSE loc[s].ptr
             k == IF pc[s] = "enter" THEN 1 ELSE CountMod - 1
  <1>1. /\ loc'[s] = loc[s]
        /\ UNCHANGED <<handlers, objHandlers, err, current, toFree, cleaner, undefined>>
        /\ Enter(s) => Moves(s, "enter", "load")
        /\ Leave(s) => Moves(s, "leaveHit", "call") \/ Moves(s, "leaveMiss", "scan")
        /\ Done(s) => Moves(s, "done", "call")
        /\ AddAccessors(c, k)
        /\ pc[s] \in {"enter", "leaveHit", "leaveMiss", "done"}
    BY GotoAt DEF Enter, Leave, Done, At, Moves
  <1>2. c \in DOMAIN caches
    BY <1>1, SenderFacts DEF InCache
  <1>3. k \in Nat /\ k \in {1, CountMod - 1}
    BY DispatchAssumption
  <1> HIDE DEF c, k
  <1>4. /\ OnlyCache(c) /\ caches'[c].freed = caches[c].freed
        /\ caches'[c].bucket = caches[c].bucket
        /\ caches'[c].occupied = caches[c].occupied
        /\ caches'[c].accessors = (caches[c].accessors + k) % CountMod
        /\ MemoryKept
    BY <1>1, <1>2, <1>3, CountStep
  <1>5. BucketsFixed
    BY <1>4 DEF BucketsFixed, OnlyCache, MemoryKept
  <1> QED BY <1>1, <1>2, <1>3, <1>4, <1>5 DEF c, k

LEMMA ScanShape ==
  ASSUME TypeInv, NEW s \in Senders, Scan(s)
  PROVE  /\ pc[s] = "scan" /\ UNCHANGED_shared
         /\ loc'[s].name = loc[s].name /\ loc'[s].cache = loc[s].cache
         /\ \/ /\ Has(handlers, loc[s].name) /\ ~err /\ pc'[s] = "space"
               /\ loc'[s].fn = First(handlers, loc[s].name)
            \/ (~Has(handlers, loc[s].name) \/ err) /\ pc'[s] = "nil"
  <1> DEFINE f == First(handlers, loc[s].name)
             r == [loc[s] EXCEPT !.fn = f]
             found == Has(handlers, loc[s].name) /\ ~err
  <1>1. /\ pc[s] = "scan" /\ UNCHANGED_shared
        /\ found => Goto(s, "space", r)
        /\ ~found => Goto(s, "nil", loc[s])
    BY DEF Scan, At
  <1> HIDE DEF f
  <1>2. r.name = loc[s].name /\ r.cache = loc[s].cache /\ r.fn = f
    BY SenderFacts DEF LocalType
  <1> HIDE DEF r
  <1>3. CASE found
    BY <1>1, <1>2, <1>3, GotoAt DEF f
  <1>4. CASE ~found
    BY <1>1, <1>4, GotoAt
  <1> QED BY <1>3, <1>4

LEMMA NoGrowthShape ==
  ASSUME TypeInv, NEW s \in Senders, NoGrowth(s)
  PROVE  /\ Moves(s, "space", "find") /\ UNCHANGED_shared
         /\ loc'[s].name = loc[s].name /\ loc'[s].cache = loc[s].cache
         /\ loc'[s].fn = loc[s].fn
         /\ loc'[s].idx = Home(loc[s].name, loc[s].cache)
  <1> DEFINE i == Home(loc[s].name, loc[s].cache)
             r == [loc[s] EXCEPT !.idx = i]
  <1>1. pc[s] = "space" /\ UNCHANGED_shared /\ Goto(s, "find", r)
    BY DEF NoGrowth, At
  <1> HIDE DEF i
  <1>2. r.name = loc[s].name /\ r.cache = loc[s].cache /\ r.idx = i /\ r.fn = loc[s].fn
    BY SenderFacts DEF LocalType
  <1> HIDE DEF r
  <1> QED BY <1>1, <1>2, GotoAt DEF i, Moves

LEMMA FindShape ==
  ASSUME TypeInv, NEW s \in Senders, Find(s)
  PROVE  /\ pc[s] = "find" /\ UNCHANGED_shared
         /\ loc'[s].name = loc[s].name /\ loc'[s].cache = loc[s].cache
         /\ loc'[s].fn = loc[s].fn
         /\ \/ Entry(s).name = NULL /\ pc'[s] = "name" /\ loc'[s].idx = loc[s].idx
            \/ /\ Entry(s).name # NULL
               /\ loc'[s].idx = After(loc[s].idx, loc[s].cache)
               /\ \/ /\ pc'[s] = "done"
                     /\ After(loc[s].idx, loc[s].cache) = Home(loc[s].name, loc[s].cache)
                  \/ pc'[s] = "find"
  <1> DEFINE i == After(loc[s].idx, loc[s].cache)
             r == [loc[s] EXCEPT !.idx = i]
             around == i = Home(loc[s].name, loc[s].cache)
  <1>1. /\ pc[s] = "find" /\ UNCHANGED_shared
        /\ Entry(s).name = NULL => Goto(s, "name", loc[s])
        /\ Entry(s).name # NULL => Goto(s, IF around THEN "done" ELSE "find", r)
    BY DEF Find, At
  <1> HIDE DEF i
  <1>2. r.name = loc[s].name /\ r.cache = loc[s].cache /\ r.idx = i /\ r.fn = loc[s].fn
    BY SenderFacts DEF LocalType
  <1> HIDE DEF r
  <1>3. CASE Entry(s).name = NULL
    BY <1>1, <1>3, GotoAt
  <1>4. CASE Entry(s).name # NULL
    <2>1. pc'[s] = (IF around THEN "done" ELSE "find") /\ loc'[s] = r
      BY <1>1, <1>4, GotoAt
    <2> QED BY <1>1, <1>2, <1>4, <2>1 DEF i
  <1> QED BY <1>3, <1>4

LEMMA WriteNameShape ==
  ASSUME TypeInv, NEW s \in Senders, WriteName(s)
  PROVE  LET c == loc[s].cache
             i == loc[s].idx
         IN /\ Moves(s, "name", "entry") /\ loc'[s] = loc[s]
            /\ UNCHANGED <<handlers, objHandlers, err, current, toFree, cleaner, undefined>>
            /\ c \in DOMAIN caches /\ i \in DOMAIN caches[c].bucket
            /\ loc[s].name \in Names /\ OnlyCache(c) /\ MemoryKept
            /\ DOMAIN caches'[c].bucket = DOMAIN caches[c].bucket
            /\ \A j \in DOMAIN caches[c].bucket :
                 j # i => caches'[c].bucket[j] = caches[c].bucket[j]
            /\ caches'[c].bucket[i].name = loc[s].name
            /\ caches'[c].occupied = caches[c].occupied
            /\ caches'[c].accessors = caches[c].accessors
            /\ caches'[c].freed = caches[c].freed
  <1>1. /\ pc[s] = "name" /\ Goto(s, "entry", loc[s])
        /\ caches' = [caches EXCEPT ![loc[s].cache].bucket[loc[s].idx].name = loc[s].name]
        /\ UNCHANGED <<handlers, objHandlers, err, current, toFree, cleaner, undefined>>
    BY DEF WriteName, At
  <1>2. /\ loc[s].cache \in DOMAIN caches
        /\ loc[s].idx \in DOMAIN caches[loc[s].cache].bucket
        /\ loc[s].name \in Names
    BY <1>1, SenderFacts, EntryInRange DEF LocalsFit, InCache
  <1>3. pc'[s] = "entry" /\ loc'[s] = loc[s]
    BY <1>1, GotoAt
  <1> QED BY <1>1, <1>2, <1>3, NameStep DEF Moves

LEMMA WriteEntryShape ==
  ASSUME TypeInv, NEW s \in Senders, WriteEntry(s)
  PROVE  LET c == loc[s].cache
             i == loc[s].idx
         IN /\ Moves(s, "entry", "count") /\ loc'[s] = loc[s]
            /\ UNCHANGED <<handlers, objHandlers, err, current, toFree, cleaner, undefined>>
            /\ c \in DOMAIN caches /\ i \in DOMAIN caches[c].bucket
            /\ OnlyCache(c) /\ MemoryKept
            /\ DOMAIN caches'[c].bucket = DOMAIN caches[c].bucket
            /\ \A j \in DOMAIN caches[c].bucket :
                 j # i => caches'[c].bucket[j] = caches[c].bucket[j]
            /\ caches'[c].bucket[i].name = caches[c].bucket[i].name
            /\ caches'[c].bucket[i].fn = loc[s].fn
            /\ caches'[c].occupied = caches[c].occupied
            /\ caches'[c].accessors = caches[c].accessors
            /\ caches'[c].freed = caches[c].freed
  <1>1. /\ pc[s] = "entry" /\ Goto(s, "count", loc[s])
        /\ caches' = [caches EXCEPT ![loc[s].cache].bucket[loc[s].idx].fn = loc[s].fn]
        /\ UNCHANGED <<handlers, objHandlers, err, current, toFree, cleaner, undefined>>
    BY DEF WriteEntry, At
  <1>2. /\ loc[s].cache \in DOMAIN caches
        /\ loc[s].idx \in DOMAIN caches[loc[s].cache].bucket
        /\ loc[s].fn \in Fns \cup {NULL}
    BY <1>1, SenderFacts, EntryInRange DEF LocalsFit, InCache, LocalType
  <1>3. pc'[s] = "count" /\ loc'[s] = loc[s]
    BY <1>1, GotoAt
  <1> DEFINE c == loc[s].cache
             i == loc[s].idx
             f == loc[s].fn
  <1>4. /\ c \in DOMAIN caches /\ i \in DOMAIN caches[c].bucket /\ f \in Fns \cup {NULL}
        /\ caches' = [caches EXCEPT ![c].bucket[i].fn = f]
    BY <1>1, <1>2
  <1> HIDE DEF c, i, f
  <1>5. /\ MemoryKept /\ OnlyCache(c)
        /\ DOMAIN caches'[c].bucket = DOMAIN caches[c].bucket
        /\ \A j \in DOMAIN caches[c].bucket :
             j # i => caches'[c].bucket[j] = caches[c].bucket[j]
        /\ caches'[c].bucket[i].name = caches[c].bucket[i].name
        /\ caches'[c].bucket[i].fn = f
        /\ caches'[c].occupied = caches[c].occupied
        /\ caches'[c].accessors = caches[c].accessors
        /\ caches'[c].freed = caches[c].freed
    BY <1>4, EntryStep, ZenonT(60)
  <1> QED BY <1>1, <1>2, <1>3, <1>5 DEF Moves, c, i, f

LEMMA LoadOccupiedShape ==
  ASSUME TypeInv, NEW s \in Senders, LoadOccupied(s)
  PROVE  /\ Moves(s, "count", "occupy") /\ UNCHANGED_shared
         /\ loc'[s].name = loc[s].name /\ loc'[s].cache = loc[s].cache
         /\ loc'[s].idx = loc[s].idx /\ loc'[s].fn = loc[s].fn
         /\ loc'[s].count = caches[loc[s].cache].occupied
  <1> DEFINE k == caches[loc[s].cache].occupied
             r == [loc[s] EXCEPT !.count = k]
  <1>1. pc[s] = "count" /\ UNCHANGED_shared /\ Goto(s, "occupy", r)
    BY DEF LoadOccupied, At
  <1> HIDE DEF k
  <1>2. /\ r.name = loc[s].name /\ r.cache = loc[s].cache
        /\ r.idx = loc[s].idx /\ r.fn = loc[s].fn /\ r.count = k
    BY SenderFacts DEF LocalType
  <1> HIDE DEF r
  <1> QED BY <1>1, <1>2, GotoAt DEF k, Moves

LEMMA StoreOccupiedShape ==
  ASSUME TypeInv, NEW s \in Senders, StoreOccupied(s)
  PROVE  LET c == loc[s].cache
         IN /\ Moves(s, "occupy", "done") /\ loc'[s] = loc[s]
            /\ UNCHANGED <<handlers, objHandlers, err, current, toFree, cleaner, undefined>>
            /\ c \in DOMAIN caches /\ OnlyCache(c) /\ MemoryKept
            /\ caches'[c].bucket = caches[c].bucket
            /\ caches'[c].occupied = loc[s].count + 1
            /\ caches'[c].accessors = caches[c].accessors
            /\ caches'[c].freed = caches[c].freed
  <1> DEFINE k == loc[s].count + 1
  <1>1. /\ pc[s] = "occupy" /\ Goto(s, "done", loc[s])
        /\ caches' = [caches EXCEPT ![loc[s].cache].occupied = k]
        /\ UNCHANGED <<handlers, objHandlers, err, current, toFree, cleaner, undefined>>
    BY DEF StoreOccupied, At
  <1>2. loc[s].cache \in DOMAIN caches /\ loc[s].count \in Nat
    BY <1>1, SenderFacts DEF InCache, LocalType
  <1>3. k \in Nat
    BY <1>2
  <1>4. pc'[s] = "done" /\ loc'[s] = loc[s]
    BY <1>1, GotoAt
  <1> HIDE DEF k
  <1>5. /\ MemoryKept /\ OnlyCache(loc[s].cache)
        /\ caches'[loc[s].cache].bucket = caches[loc[s].cache].bucket
        /\ caches'[loc[s].cache].occupied = k
        /\ caches'[loc[s].cache].accessors = caches[loc[s].cache].accessors
        /\ caches'[loc[s].cache].freed = caches[loc[s].cache].freed
    BY <1>1, <1>2, <1>3, OccupiedStep
  <1> QED BY <1>1, <1>2, <1>4, <1>5 DEF Moves, k

LEMMA EndShape ==
  ASSUME TypeInv, NEW s \in Senders, Call(s) \/ ReturnNil(s)
  PROVE  /\ pc[s] \in {"call", "nil"} /\ pc'[s] = "idle"
         /\ UNCHANGED <<handlers, objHandlers, caches, current, toFree, cleaner, undefined>>
  BY GotoAt DEF Call, ReturnNil, At, UNCHANGED_shared

\* What the other steps leave alone.
LEMMA OtherShape ==
  ASSUME \/ \E n \in Names, f \in Fns : AddMsgHandler(n, f) \/ AddHandler(n, f)
         \/ CleanerStep
         \/ \E s \in Senders : Misstep(s)
         \/ UNCHANGED vars
  PROVE  /\ UNCHANGED <<err, caches, current, pc, loc>>
         /\ \/ UNCHANGED <<handlers, objHandlers>>
            \/ AllIdle
  BY DEF AddMsgHandler, AddHandler, CleanerStep, Wait, WakeSpuriously, LockList,
         ScanMisstep, ScanBusy, ScanPop, UNCHANGED_senders, Misstep, vars

------------------------------------------------------------------------------
(* The cache agrees with the tables                                         *)

\* The entry in the making is the only sender's.
LEMMA MakingIsMine ==
  ASSUME NEW s, Senders = {s}, NEW c, NEW i
  PROVE  InTheMaking(c, i) <=> pc[s] \in Makes /\ loc[s].cache = c /\ loc[s].idx = i
  BY DEF InTheMaking, Makes

\* A cache is a finite number of buckets.
LEMMA CachedFinite ==
  ASSUME TypeInv, NEW c \in DOMAIN caches
  PROVE  /\ IsFiniteSet(Cached(c))
         /\ caches[c].mask \in Nat /\ 0 .. caches[c].mask \subseteq DOMAIN caches[c].bucket
         /\ caches[c].occupied \in Nat /\ caches[c].accessors \in 0 .. CountMod - 1
  <1>1. caches[c] \in CacheRec
    BY IsCache
  <1>2. PICK b \in Nat : caches[c].bucket \in [0 .. b - 1 -> EntryType]
    BY <1>1 DEF CacheRec, Buckets
  <1>3. IsFiniteSet(0 .. b - 1)
    BY FS_Interval
  <1>4. Cached(c) \subseteq 0 .. b - 1
    BY <1>2 DEF Cached, Named
  <1>5. IsFiniteSet(Cached(c))
    BY <1>3, <1>4, FS_Subset
  <1> QED BY <1>1, <1>5 DEF CacheRec, TypeInv, Addressable

\* Nothing is said of a cache but by its buckets.
LEMMA SameBuckets ==
  ASSUME NEW c, caches'[c].mask = caches[c].mask,
         caches'[c].bucket = caches[c].bucket
  PROVE  /\ BucketSets(c)' = BucketSets(c) /\ Named(c)' = Named(c)
         /\ \A n : Home(n, c)' = Home(n, c) /\ NoTrail(n, c)' = NoTrail(n, c)
         /\ \A i : After(i, c)' = After(i, c)
         /\ \A n, P : Trail(n, c, P)' <=> Trail(n, c, P)
         /\ \A n, i, V : Passed(n, c, i, V)' <=> Passed(n, c, i, V)
  <1>1. BucketSets(c)' = BucketSets(c) /\ Named(c)' = Named(c)
    BY DEF BucketSets, Named
  <1>2. \A n : Home(n, c)' = Home(n, c)
    BY DEF Home
  <1>3. \A i : After(i, c)' = After(i, c)
    BY DEF After
  <1>4. \A n, P : Trail(n, c, P)' <=> Trail(n, c, P)
    BY <1>2, <1>3 DEF Trail
  <1>5. \A n, i, V : Passed(n, c, i, V)' <=> Passed(n, c, i, V)
    BY <1>2, <1>3 DEF Passed
  <1>6. \A n : NoTrail(n, c)' = NoTrail(n, c)
    BY <1>1, <1>4 DEF NoTrail
  <1> QED BY <1>1, <1>2, <1>3, <1>4, <1>5, <1>6

\* A cache whose buckets stay agrees with tables that keep what they found.
LEMMA CacheKept ==
  ASSUME NEW c, CacheInv(c), caches'[c].mask = caches[c].mask,
         caches'[c].bucket = caches[c].bucket,
         caches'[c].occupied = caches[c].occupied,
         \A i : InTheMaking(c, i)' <=> InTheMaking(c, i),
         \A n : Has(handlers, n) =>
           Has(handlers', n) /\ First(handlers', n) = First(handlers, n)
  PROVE  CacheInv(c)'
  <1>1. /\ BucketSets(c)' = BucketSets(c) /\ Named(c)' = Named(c)
        /\ \A n, P : Trail(n, c, P)' <=> Trail(n, c, P)
    BY SameBuckets
  <1>2. Cached(c)' = Cached(c)
    BY <1>1 DEF Cached
  <1>3. \A i \in Cached(c) :
          /\ Has(handlers', caches[c].bucket[i].name)
          /\ caches[c].bucket[i].fn = First(handlers', caches[c].bucket[i].name)
    BY DEF CacheInv
  <1>4. \A i \in Named(c) :
          \E P \in BucketSets(c) : Trail(caches[c].bucket[i].name, c, P)'
    BY <1>1 DEF CacheInv
  <1>5. Named(c)' \subseteq 0 .. caches'[c].mask
    BY <1>1 DEF CacheInv
  <1> QED BY <1>1, <1>2, <1>3, <1>4, <1>5 DEF CacheInv

\* A message that no trail leads to is in no bucket.
LEMMA NoTrailNoName ==
  ASSUME BucketsInv, NEW c \in DOMAIN caches, NEW n, NoTrail(n, c)
  PROVE  \A j \in Named(c) : caches[c].bucket[j].name # n
  BY DEF BucketsInv, CacheInv, NoTrail

\* Steps that write no bucket and add no handler.
LEMMA BucketsKept ==
  ASSUME TypeInv, BucketsInv, NEW s, Senders = {s}, BucketsFixed,
         UNCHANGED handlers, pc[s] \notin Makes, pc'[s] \notin Makes
  PROVE  BucketsInv'
  <1> SUFFICES ASSUME NEW c \in DOMAIN caches' PROVE CacheInv(c)'
    BY DEF BucketsInv
  <1>1. \A i : InTheMaking(c, i)' <=> InTheMaking(c, i)
    BY DEF InTheMaking, Makes
  <1>2. c \in DOMAIN caches /\ CacheInv(c)
    BY DEF BucketsFixed, BucketsInv
  <1> QED BY <1>1, <1>2, CacheKept DEF BucketsFixed

\* A cache that is not written to while another is.
LEMMA BucketsElsewhere ==
  ASSUME TypeInv, BucketsInv, NEW s, Senders = {s}, NEW d \in DOMAIN caches,
         caches'[d] = caches[d], UNCHANGED handlers,
         loc[s].cache # d, loc'[s] = loc[s]
  PROVE  CacheInv(d)'
  <1>1. \A i : InTheMaking(d, i)' <=> InTheMaking(d, i)
    BY DEF InTheMaking
  <1> QED BY <1>1, CacheKept DEF BucketsInv

LEMMA BucketsWriteName ==
  ASSUME TypeInv, BucketsInv, NEW s, Senders = {s}, Searched(s), WriteName(s)
  PROVE  BucketsInv'
  <1> PICK c, i, n : c = loc[s].cache /\ i = loc[s].idx /\ n = loc[s].name
    OBVIOUS
  <1> DEFINE B == caches[c].bucket
  <1>0. NULL \notin Names
    BY DispatchAssumption
  <1>1. /\ Moves(s, "name", "entry") /\ loc'[s] = loc[s] /\ UNCHANGED handlers
        /\ c \in DOMAIN caches /\ i \in DOMAIN B /\ n \in Names
        /\ OnlyCache(c) /\ MemoryKept
        /\ DOMAIN caches'[c].bucket = DOMAIN B
        /\ \A j \in DOMAIN B : j # i => caches'[c].bucket[j] = B[j]
        /\ caches'[c].bucket[i].name = n
        /\ caches'[c].occupied = caches[c].occupied
    BY WriteNameShape
  <1>2. B[i].name = NULL
    BY <1>1 DEF Searched, Knows, Moves
  <1>3. /\ \A j \in Named(c) : B[j].name # n
        /\ \E V \in BucketSets(c) : Passed(n, c, i, V)
    <2>1. NoTrail(n, c) /\ \E V \in BucketSets(c) : Passed(n, c, i, V)
      BY <1>1 DEF Searched, Knows, Moves
    <2> QED BY <1>1, <2>1, NoTrailNoName
  <1>4. CacheInv(c)
    BY <1>1 DEF BucketsInv
  <1>5. ASSUME NEW d \in DOMAIN caches', d # c PROVE CacheInv(d)'
    BY <1>1, <1>5, BucketsElsewhere DEF OnlyCache
  <1>6. caches'[c].mask = caches[c].mask
    BY <1>1 DEF MemoryKept
  <1>a. i \in 0 .. caches[c].mask /\ 0 .. caches[c].mask \subseteq DOMAIN B
    BY <1>1, SenderFacts, CachedFinite DEF LocalsFit
  <1>7. /\ BucketSets(c)' = BucketSets(c)
        /\ \A m : Home(m, c)' = Home(m, c)
        /\ \A j : After(j, c)' = After(j, c)
    BY <1>6 DEF BucketSets, Home, After
  <1>8. Named(c)' = Named(c) \cup {i} /\ i \notin Named(c)
    <2>1. i \notin Named(c)
      BY <1>0, <1>2 DEF Named
    <2>2. Named(c)' = { j \in DOMAIN caches'[c].bucket : caches'[c].bucket[j].name \in Names }
      BY <1>1 DEF Named
    <2> DEFINE C == caches'[c].bucket
    <2>3. Named(c)' = { j \in DOMAIN B : C[j].name \in Names }
      BY <1>1, <2>2
    <2>4. /\ i \in DOMAIN B /\ C[i].name \in Names
          /\ \A j \in DOMAIN B : j # i => C[j].name = B[j].name
      BY <1>1
    <2>5. Named(c) = { j \in DOMAIN B : B[j].name \in Names }
      BY DEF Named
    <2> HIDE DEF C, B
    <2>6. \A j : j \in Named(c)' <=> j \in Named(c) \/ j = i
      BY <2>3, <2>4, <2>5
    <2> QED BY <2>1, <2>6
  <1>9. Cached(c) = Named(c) /\ Cached(c)' = Named(c)
    <2>1. \A j : ~InTheMaking(c, j)
      BY <1>1, MakingIsMine DEF Moves, Makes
    <2>2. \A j : InTheMaking(c, j)' <=> j = i
      BY <1>1 DEF InTheMaking, Moves
    <2>3. Cached(c)' = { j \in Named(c)' : ~InTheMaking(c, j)' }
      BY <1>1 DEF Cached
    <2> QED BY <1>8, <2>1, <2>2, <2>3 DEF Cached
  <1>10. ASSUME NEW m, NEW P \in BucketSets(c), Trail(m, c, P)
         PROVE  Trail(m, c, P)'
    <2>1. i \notin P
      BY <1>2, <1>10 DEF Trail
    <2>2. \A j \in P : caches'[c].bucket[j] = B[j]
      BY <1>1, <1>a, <2>1 DEF BucketSets
    <2>3. Home(m, c)' \in P
      BY <1>7, <1>10 DEF Trail
    <2>4. \A j \in P : /\ caches'[c].bucket[j].name # NULL
                       /\ caches'[c].bucket[j].name = m \/ After(j, c)' \in P
      BY <1>7, <1>10, <2>2 DEF Trail
    <2> QED BY <2>3, <2>4 DEF Trail
  <1>11. \E P \in BucketSets(c) : Trail(n, c, P)'
    <2>1. PICK V \in BucketSets(c) : Passed(n, c, i, V)
      BY <1>3
    <2> DEFINE P == V \cup {i}
    <2>2. i \notin V
      BY <1>2, <2>1 DEF Passed
    <2>3. P \in BucketSets(c)
      BY <1>a DEF BucketSets
    <2>4. \A j \in V : caches'[c].bucket[j] = B[j]
      BY <1>1, <1>a, <2>2 DEF BucketSets
    <2>5. Trail(n, c, P)'
      <3> DEFINE C == caches'[c].bucket
      <3>1. C[i].name = n /\ n # NULL
        BY <1>0, <1>1
      <3>2. Home(n, c) \in P /\ \A j \in V : B[j].name # NULL /\ After(j, c) \in P
        BY <2>1 DEF Passed
      <3>3. Home(n, c)' \in P
        BY <1>7, <3>2
      <3>4. ASSUME NEW j \in P
            PROVE  C[j].name # NULL /\ (C[j].name = n \/ After(j, c)' \in P)
        <4>1. CASE j = i
          BY <3>1, <4>1
        <4>2. CASE j \in V
          <5>1. C[j] = B[j]
            BY <2>4, <4>2
          <5> HIDE DEF B, C
          <5> QED BY <1>7, <3>2, <4>2, <5>1
        <4> QED BY <4>1, <4>2
      <3> HIDE DEF P
      <3> QED BY <3>3, <3>4 DEF Trail
    <2> QED BY <2>3, <2>5
  <1>12. CacheInv(c)'
    <2> DEFINE C == caches'[c].bucket
    <2>1. \A j \in Named(c) : C[j] = B[j]
      BY <1>1, <1>8 DEF Named
    <2>2. \A j \in Cached(c)' : /\ Has(handlers', C[j].name)
                                /\ C[j].fn = First(handlers', C[j].name)
      <3>1. \A j \in Cached(c) : Has(handlers, B[j].name) /\ B[j].fn = First(handlers, B[j].name)
        BY <1>4 DEF CacheInv
      <3>2. handlers' = handlers /\ Cached(c)' = Cached(c) /\ \A j \in Cached(c) : C[j] = B[j]
        BY <1>1, <1>9, <2>1
      <3> HIDE DEF B, C
      <3> QED BY <3>1, <3>2
    <2>3. \A j, k \in Named(c)' : C[j].name = C[k].name => j = k
      <3>1. \A j \in Named(c) : C[j].name # n
        BY <1>3, <2>1
      <3>2. C[i].name = n
        BY <1>1
      <3>3. \A j, k \in Named(c) : C[j].name = C[k].name => j = k
        <4>1. \A j, k \in Named(c) : B[j].name = B[k].name => j = k
          BY <1>4 DEF CacheInv
        <4> HIDE DEF B, C
        <4> QED BY <2>1, <4>1
      <3> HIDE DEF C
      <3> QED BY <1>8, <3>1, <3>2, <3>3
    <2>4. ASSUME NEW j \in Named(c)'
          PROVE  \E P \in BucketSets(c)' : Trail(caches[c].bucket[j].name, c, P)'
      <3>1. PICK m : m = C[j].name
        OBVIOUS
      <3>2. CASE j = i
        <4>1. PICK P \in BucketSets(c) : Trail(n, c, P)'
          BY <1>11
        <4> QED BY <1>1, <1>7, <3>2, <4>1 DEF Trail, Home
      <3>3. CASE j \in Named(c)
        <4>1. m = B[j].name
          BY <2>1, <3>1, <3>3
        <4>2. PICK P \in BucketSets(c) : Trail(m, c, P)
          BY <1>4, <3>3, <4>1 DEF CacheInv
        <4>3. Trail(m, c, P)'
          BY <1>10, <4>2
        <4> QED BY <1>7, <3>1, <4>3 DEF Trail, Home
      <3> QED BY <1>8, <3>2, <3>3
    <2>5. caches'[c].occupied = Cardinality(Cached(c)')
      BY <1>1, <1>4, <1>9 DEF CacheInv
    <2>6. Named(c)' \subseteq 0 .. caches'[c].mask
      BY <1>4, <1>6, <1>8, <1>a DEF CacheInv
    <2> QED BY <1>1, <2>2, <2>3, <2>4, <2>5, <2>6 DEF CacheInv
  <1>13. DOMAIN caches' = DOMAIN caches
    BY <1>1 DEF OnlyCache
  <1> QED BY <1>5, <1>12, <1>13 DEF BucketsInv

LEMMA BucketsWriteEntry ==
  ASSUME TypeInv, BucketsInv, NEW s, Senders = {s}, Searched(s), WriteEntry(s)
  PROVE  BucketsInv'
  <1> PICK c, i, n : c = loc[s].cache /\ i = loc[s].idx /\ n = loc[s].name
    OBVIOUS
  <1> DEFINE B == caches[c].bucket
             C == caches'[c].bucket
  <1>1. /\ Moves(s, "entry", "count") /\ loc'[s] = loc[s] /\ UNCHANGED handlers
        /\ c \in DOMAIN caches /\ i \in DOMAIN B
        /\ OnlyCache(c) /\ MemoryKept
        /\ DOMAIN C = DOMAIN B
        /\ \A j \in DOMAIN B : j # i => C[j] = B[j]
        /\ C[i].name = B[i].name
        /\ caches'[c].occupied = caches[c].occupied
    BY WriteEntryShape
  <1>2. B[i].name = n /\ n \in Names
    BY <1>1, SenderFacts DEF Searched, Knows, Moves, LocalsFit, Makes
  <1>4. CacheInv(c)
    BY <1>1 DEF BucketsInv
  <1>5. ASSUME NEW d \in DOMAIN caches', d # c PROVE CacheInv(d)'
    BY <1>1, <1>5, BucketsElsewhere DEF OnlyCache
  <1>6. caches'[c].mask = caches[c].mask /\ caches[c].mask \in Nat
        /\ 0 .. caches[c].mask \subseteq DOMAIN B
    BY <1>1, CachedFinite DEF MemoryKept
  <1>7. /\ BucketSets(c)' = BucketSets(c)
        /\ \A m : Home(m, c)' = Home(m, c)
        /\ \A j : After(j, c)' = After(j, c)
    BY <1>6 DEF BucketSets, Home, After
  <1>8. /\ Named(c)' = Named(c) /\ i \in Named(c)
        /\ \A j \in DOMAIN B : C[j].name = B[j].name
    <2>1. \A j \in DOMAIN B : C[j].name = B[j].name
      BY <1>1
    <2>2. Named(c)' = { j \in DOMAIN C : C[j].name \in Names }
      BY <1>1 DEF Named
    <2> QED BY <1>1, <1>2, <2>1, <2>2 DEF Named
  <1>9. Cached(c) = Named(c) \ {i} /\ Cached(c)' = Cached(c)
    <2>1. \A j : InTheMaking(c, j) <=> j = i
      BY <1>1, MakingIsMine DEF Moves, Makes
    <2>2. \A j : InTheMaking(c, j)' <=> j = i
      BY <1>1 DEF InTheMaking, Moves
    <2>3. Cached(c)' = { j \in Named(c)' : ~InTheMaking(c, j)' }
      BY <1>1 DEF Cached
    <2> QED BY <1>8, <2>1, <2>2, <2>3 DEF Cached
  <1>10. \A j \in Cached(c)' :
           Has(handlers', C[j].name) /\ C[j].fn = First(handlers', C[j].name)
    <2> SUFFICES ASSUME NEW j \in Cached(c)
                 PROVE  Has(handlers, C[j].name) /\ C[j].fn = First(handlers, C[j].name)
      BY <1>1, <1>9
    <2>1. j # i /\ j \in DOMAIN B
      BY <1>9 DEF Named
    <2>2. C[j] = B[j]
      BY <1>1, <2>1
    <2> QED BY <1>4, <2>2 DEF CacheInv
  <1>11. \A j, k \in Named(c)' : C[j].name = C[k].name => j = k
    <2>1. \A j \in Named(c) : C[j].name = B[j].name
      BY <1>8 DEF Named
    <2>2. \A j, k \in Named(c) : B[j].name = B[k].name => j = k
      BY <1>4 DEF CacheInv
    <2> QED BY <1>8, <2>1, <2>2
  <1>12. ASSUME NEW j \in Named(c)'
         PROVE  \E P \in BucketSets(c)' : Trail(caches[c].bucket[j].name, c, P)'
    <2>1. PICK m : m = C[j].name
      OBVIOUS
    <2>2. m = B[j].name /\ j \in Named(c)
      BY <1>8, <2>1 DEF Named
    <2>3. PICK P \in BucketSets(c) : Trail(m, c, P)
      BY <1>4, <2>2 DEF CacheInv
    <2>4. \A k \in P : C[k].name = B[k].name
      BY <1>6, <1>8 DEF BucketSets
    <2>5. /\ Home(m, c)' \in P
          /\ \A k \in P : C[k].name # NULL /\ (C[k].name = m \/ After(k, c)' \in P)
      BY <1>7, <2>3, <2>4 DEF Trail
    <2> QED BY <1>7, <2>1, <2>5 DEF Trail, Home
  <1>13. caches'[c].occupied = Cardinality(Cached(c)')
    BY <1>1, <1>4, <1>9 DEF CacheInv
  <1>14. CacheInv(c)'
    <2>1. Named(c)' \subseteq 0 .. caches'[c].mask
      BY <1>4, <1>6, <1>8 DEF CacheInv
    <2> QED BY <1>1, <1>10, <1>11, <1>12, <1>13, <2>1 DEF CacheInv
  <1>15. DOMAIN caches' = DOMAIN caches
    BY <1>1 DEF OnlyCache
  <1> QED BY <1>5, <1>14, <1>15 DEF BucketsInv

\* Reading `occupied` makes nothing of the entry.
LEMMA BucketsLoadOccupied ==
  ASSUME TypeInv, BucketsInv, NEW s, Senders = {s}, LoadOccupied(s)
  PROVE  BucketsInv'
  <1>1. /\ pc[s] = "count" /\ pc'[s] = "occupy" /\ UNCHANGED <<handlers, caches>>
        /\ loc'[s].cache = loc[s].cache /\ loc'[s].idx = loc[s].idx
    BY LoadOccupiedShape DEF Moves, UNCHANGED_shared
  <1>2. \A c, i : InTheMaking(c, i)' <=> InTheMaking(c, i)
    BY <1>1 DEF InTheMaking
  <1> SUFFICES ASSUME NEW c \in DOMAIN caches' PROVE CacheInv(c)'
    BY DEF BucketsInv
  <1>3. CacheInv(c)
    BY <1>1 DEF BucketsInv
  <1> QED BY <1>1, <1>2, <1>3, CacheKept

LEMMA BucketsStoreOccupied ==
  ASSUME TypeInv, BucketsInv, NEW s, Senders = {s}, Searched(s), Found(s),
         Written(s), StoreOccupied(s)
  PROVE  BucketsInv'
  <1> PICK c, i, n : c = loc[s].cache /\ i = loc[s].idx /\ n = loc[s].name
    OBVIOUS
  <1> DEFINE B == caches[c].bucket
  <1>1. /\ pc[s] = "occupy" /\ pc'[s] = "done" /\ loc'[s] = loc[s]
        /\ UNCHANGED handlers /\ c \in DOMAIN caches /\ OnlyCache(c) /\ MemoryKept
        /\ caches'[c].bucket = B /\ caches'[c].occupied = loc[s].count + 1
    BY StoreOccupiedShape DEF Moves
  <1>2. CacheInv(c) /\ loc[s].count = caches[c].occupied
    BY <1>1 DEF BucketsInv, Written
  <1>3. /\ n \in Names /\ i \in DOMAIN B /\ B[i].name = n
        /\ Has(handlers, n) /\ B[i].fn = First(handlers, n)
    <2>1. B[i].name = n
      BY <1>1 DEF Searched, Knows, Makes
    <2>2. B[i].fn = loc[s].fn
      BY <1>1 DEF Written, Entry
    <2>3. Has(handlers, n) /\ loc[s].fn = First(handlers, n)
      BY <1>1 DEF Found, HasFn
    <2>4. n \in Names /\ loc[s].cache # 0
      BY <1>1, SenderFacts DEF InCache, LocalsFit
    <2> QED BY <2>1, <2>2, <2>3, <2>4, EntryInRange
  <1>4. caches'[c].mask = caches[c].mask
    BY <1>1 DEF MemoryKept
  <1>5. /\ BucketSets(c)' = BucketSets(c) /\ Named(c)' = Named(c)
        /\ \A m, P : Trail(m, c, P)' <=> Trail(m, c, P)
    BY <1>1, <1>4, SameBuckets
  <1>6. Cached(c) = Named(c) \ {i} /\ Cached(c)' = Named(c) /\ i \in Named(c)
    <2>1. \A j : InTheMaking(c, j) <=> j = i
      BY <1>1, MakingIsMine DEF Makes
    <2>2. \A j : ~InTheMaking(c, j)'
      BY <1>1 DEF InTheMaking
    <2>3. Cached(c)' = { j \in Named(c)' : ~InTheMaking(c, j)' }
      BY DEF Cached
    <2>4. i \in Named(c)
      BY <1>3 DEF Named
    <2> QED BY <1>5, <2>1, <2>2, <2>3, <2>4 DEF Cached
  <1>7. \A j \in Cached(c)' :
          Has(handlers', B[j].name) /\ B[j].fn = First(handlers', B[j].name)
    <2> SUFFICES ASSUME NEW j \in Named(c)
                 PROVE  Has(handlers, B[j].name) /\ B[j].fn = First(handlers, B[j].name)
      BY <1>1, <1>6
    <2> QED BY <1>2, <1>3, <1>6 DEF CacheInv
  <1>8. caches'[c].occupied = Cardinality(Cached(c)')
    <2>1. IsFiniteSet(Cached(c)) /\ caches[c].occupied = Cardinality(Cached(c))
      BY <1>1, <1>2, CachedFinite DEF CacheInv
    <2>2. i \notin Cached(c) /\ Cached(c)' = Cached(c) \cup {i}
      BY <1>6
    <2>3. Cardinality(Cached(c) \cup {i}) = Cardinality(Cached(c)) + 1
      BY <2>1, <2>2, FS_AddElement
    <2> QED BY <1>1, <1>2, <2>1, <2>2, <2>3
  <1>9. CacheInv(c)'
    <2>1. Named(c)' \subseteq 0 .. caches'[c].mask
      BY <1>2, <1>4, <1>5 DEF CacheInv
    <2>2. \A j, k \in Named(c)' : B[j].name = B[k].name => j = k
      BY <1>2, <1>5 DEF CacheInv
    <2>3. ASSUME NEW j \in Named(c)'
          PROVE  \E P \in BucketSets(c)' : Trail(caches[c].bucket[j].name, c, P)'
      <3>1. PICK m : m = B[j].name
        OBVIOUS
      <3>2. PICK P \in BucketSets(c) : Trail(m, c, P)
        BY <1>2, <1>5, <3>1 DEF CacheInv
      <3>3. Trail(m, c, P)' /\ P \in BucketSets(c)' /\ m = caches'[c].bucket[j].name
        BY <1>1, <1>5, <3>1, <3>2
      <3> QED BY <3>3 DEF Trail, Home
    <2> QED BY <1>1, <1>7, <1>8, <2>1, <2>2, <2>3 DEF CacheInv
  <1>10. ASSUME NEW d \in DOMAIN caches', d # c PROVE CacheInv(d)'
    BY <1>1, <1>10, BucketsElsewhere DEF OnlyCache
  <1> QED BY <1>9, <1>10 DEF BucketsInv

\* A new cache has no message in it, whatever malloc left there.
LEMMA NewCacheInv ==
  ASSUME NEW c, NEW b \in Nat \ {0}, NEW a \in {0, 1}, NEW dirty,
         caches[c] = NewCache(b, a, dirty)
  PROVE  CacheInv(c) /\ Named(c) = {}
  <1>1. /\ caches[c].occupied = 0 /\ DOMAIN caches[c].bucket = 0 .. b - 1
        /\ \A i \in 0 .. b - 1 : caches[c].bucket[i].name \in {NULL, Junk}
    <2> DEFINE r == NewCache(b, a, dirty)
    <2>1. /\ r.occupied = 0 /\ DOMAIN r.bucket = 0 .. b - 1
          /\ \A i \in 0 .. b - 1 : r.bucket[i].name \in {NULL, Junk}
      BY NewCacheType
    <2> QED BY <2>1
  <1>2. Named(c) = {}
    BY <1>1, DispatchAssumption DEF Named
  <1>3. Cached(c) = {}
    BY <1>2 DEF Cached
  <1>4. Cardinality(Cached(c)) = 0
    BY <1>3, FS_EmptySet
  <1> QED BY <1>1, <1>2, <1>3, <1>4 DEF CacheInv

\* Handlers are only added after those that are there.
LEMMA BucketsOther ==
  ASSUME TypeInv, BucketsInv, UNCHANGED <<caches, pc, loc>>,
         \/ UNCHANGED handlers
         \/ \E h \in HandlerType : handlers' = Append(handlers, h)
  PROVE  BucketsInv'
  <1>1. \A c, i : InTheMaking(c, i)' <=> InTheMaking(c, i)
    BY DEF InTheMaking
  <1>2. \A n : Has(handlers, n) =>
          Has(handlers', n) /\ First(handlers', n) = First(handlers, n)
    BY FirstAppend DEF TypeInv
  <1> SUFFICES ASSUME NEW c \in DOMAIN caches' PROVE CacheInv(c)'
    BY DEF BucketsInv
  <1>3. CacheInv(c)
    BY DEF BucketsInv
  <1> QED BY <1>1, <1>2, <1>3, CacheKept

LEMMA BucketsInit == Init => BucketsInv
  <1> SUFFICES ASSUME Init, NEW c \in DOMAIN caches PROVE CacheInv(c)
    BY DEF BucketsInv
  <1>1. PICK b \in InitialBuckets, dirty \in SUBSET DirtyBuckets :
          caches = <<NewCache(b, 0, dirty)>>
    BY DEF Init
  <1>2. b \in Nat \ {0}
    BY DispatchAssumption
  <1>3. caches[c] = NewCache(b, 0, dirty)
    BY <1>1
  <1> QED BY <1>2, <1>3, NewCacheInv

------------------------------------------------------------------------------
(* What a sender finds out                                                  *)

\* The buckets of a cache stay, so what is known of them does.
LEMMA KnowsKept ==
  ASSUME NEW s, NEW label, NEW n, NEW c, NEW i,
         pc'[s] = label, loc'[s].name = n, loc'[s].cache = c, loc'[s].idx = i,
         caches'[c].mask = caches[c].mask,
         caches'[c].bucket = caches[c].bucket, Knows(label, n, c, i)
  PROVE  Searched(s)'
  <1>1. Searched(s)' <=> Knows(label, n, c, i)'
    BY DEF Searched, Knows, Entry, NoTrail, Trail, Passed, Home, After, BucketSets, Named
  <1>2. /\ BucketSets(c)' = BucketSets(c) /\ Named(c)' = Named(c)
        /\ NoTrail(n, c)' = NoTrail(n, c)
        /\ \A P : Trail(n, c, P)' <=> Trail(n, c, P)
        /\ \A V : Passed(n, c, i, V)' <=> Passed(n, c, i, V)
    BY SameBuckets
  <1>3. Knows(label, n, c, i)'
    BY <1>2 DEF Knows
  <1> QED BY <1>1, <1>3

\* At these labels nothing is claimed.
LEMMA KnowsNothing ==
  ASSUME NEW s, pc'[s] \in {"idle", "enter", "load", "leaveHit", "done", "call", "nil"}
  PROVE  Searched(s)'
  BY DEF Searched, Knows, Makes

LEMMA SearchedLookup ==
  ASSUME TypeInv, BucketsInv, NEW s, Senders = {s}, Searched(s),
         \/ \E n \in Names : Send(s, n)
         \/ Load(s) \/ ProbeOn(s) \/ ProbeStop(s) \/ Hit(s) \/ Miss(s)
  PROVE  Searched(s)'
  <1> s \in Senders
    OBVIOUS
  <1> PICK n, c, i : n = loc[s].name /\ c = loc[s].cache /\ i = loc[s].idx
    OBVIOUS
  <1>1. CASE \E m \in Names : Send(s, m)
    BY <1>1, SendShape, KnowsNothing
  <1>2. CASE Load(s)
    <2> PICK d, h : d = current /\ h = Home(n, d)
      OBVIOUS
    <2>1. /\ pc'[s] = "probe" /\ loc'[s].name = n /\ loc'[s].cache = d
          /\ loc'[s].idx = h /\ caches' = caches
      BY <1>2, LoadShape DEF Moves, UNCHANGED_shared
    <2>2. Knows("probe", n, d, h)
      BY DEF Knows, Makes, Trail
    <2> QED BY <2>1, <2>2, KnowsKept
  <1>3. CASE ProbeOn(s)
    <2> PICK h : h = After(i, c)
      OBVIOUS
    <2>1. /\ pc[s] = "probe" /\ pc'[s] = "probe" /\ loc'[s].name = n
          /\ loc'[s].cache = c /\ loc'[s].idx = h /\ caches' = caches
          /\ caches[c].bucket[i].name \notin {NULL, n}
      BY <1>3, ProbeOnShape DEF Moves, UNCHANGED_shared, Entry
    <2>2. Knows("probe", n, c, h)
      BY <2>1 DEF Searched, Knows, Makes, Trail
    <2> QED BY <2>1, <2>2, KnowsKept
  <1>4. CASE ProbeStop(s)
    <2>1. /\ pc[s] = "probe" /\ pc'[s] = "check" /\ loc'[s].name = n
          /\ loc'[s].cache = c /\ loc'[s].idx = i /\ caches' = caches
          /\ caches[c].bucket[i].name \in {NULL, n}
      BY <1>4, ProbeStopShape DEF Moves, UNCHANGED_shared, Entry
    <2>2. Knows("check", n, c, i)
      BY <2>1 DEF Searched, Knows, Makes
    <2> QED BY <2>1, <2>2, KnowsKept
  <1>5. CASE Hit(s)
    BY <1>5, HitShape, KnowsNothing DEF Moves
  <1>6. CASE Miss(s)
    <2> PICK h : h = loc'[s].idx
      OBVIOUS
    <2>1. /\ pc[s] = "check" /\ pc'[s] = "leaveMiss" /\ loc'[s].name = n
          /\ loc'[s].cache = c /\ caches' = caches
          /\ caches[c].bucket[i].name = NULL
      BY <1>6, MissShape DEF Moves, UNCHANGED_shared, Entry
    <2>2. NoTrail(n, c)
      BY <2>1 DEF Searched, Knows, NoTrail, Trail
    <2>3. Knows("leaveMiss", n, c, h)
      BY <2>2 DEF Knows, Makes
    <2> QED BY <2>1, <2>3, KnowsKept
  <1> QED BY <1>1, <1>2, <1>3, <1>4, <1>5, <1>6

\* An insertion does not come round: the buckets it passed would be a trail.
LEMMA NotAround ==
  ASSUME NEW c, NEW n, NEW i \in 0 .. caches[c].mask, NEW V \in BucketSets(c),
         NoTrail(n, c), Passed(n, c, i, V), caches[c].bucket[i].name # NULL
  PROVE  After(i, c) # Home(n, c)
  <1> SUFFICES ASSUME After(i, c) = Home(n, c) PROVE FALSE
    OBVIOUS
  <1>1. V \cup {i} \in BucketSets(c)
    BY DEF BucketSets
  <1>2. Trail(n, c, V \cup {i})
    BY DEF Passed, Trail
  <1> QED BY <1>1, <1>2 DEF NoTrail

\* A cache is not full while a message has no trail in it: all of its buckets
\* would be one.
LEMMA SpaceLeft ==
  ASSUME TypeInv, BucketsInv, NEW s, Senders = {s}, Searched(s), pc[s] = "space"
  PROVE  ~Full(loc[s].cache)
  <1> PICK c, n : c = loc[s].cache /\ n = loc[s].name
    OBVIOUS
  <1> DEFINE All == 0 .. caches[c].mask
  <1> SUFFICES ASSUME Full(c) PROVE FALSE
    OBVIOUS
  <1>1. c \in DOMAIN caches /\ n \in Names /\ NoTrail(n, c)
    BY SenderFacts DEF InCache, Searched, Knows
  <1>2. CacheInv(c) /\ caches[c].mask \in Nat /\ NULL \notin Names
    BY <1>1, MaskedInRange, DispatchAssumption DEF BucketsInv
  <1>3. Cached(c) = All
    <2>1. IsFiniteSet(All) /\ Cardinality(All) = caches[c].mask + 1
      <3> PICK m : m = caches[c].mask
        OBVIOUS
      <3>1. m \in Nat
        BY <1>2
      <3>2. /\ IsFiniteSet(0 .. m)
            /\ Cardinality(0 .. m) = IF 0 > m THEN 0 ELSE m - 0 + 1
        <4>1. 0 \in Int /\ m \in Int
          BY <3>1
        <4> QED BY ONLY <4>1, FS_Interval
      <3>3. (IF 0 > m THEN 0 ELSE m - 0 + 1) = m + 1
        BY <3>1
      <3> QED BY <3>2, <3>3
    <2>2. Cached(c) \subseteq All
      BY <1>2 DEF CacheInv, Cached
    <2>3. Cardinality(Cached(c)) = Cardinality(All)
      BY <1>2, <2>1 DEF CacheInv, Full
    <2> QED BY <2>1, <2>2, <2>3, FS_Subset
  <1>4. All \in BucketSets(c)
    BY DEF BucketSets
  <1>5. Trail(n, c, All)
    <2>1. Home(n, c) \in All /\ \A j \in All : After(j, c) \in All
      BY <1>1, MaskedInRange
    <2>2. \A j \in All : caches[c].bucket[j].name # NULL
      BY <1>2, <1>3 DEF Cached, Named
    <2> QED BY <2>1, <2>2 DEF Trail
  <1> QED BY <1>1, <1>4, <1>5 DEF NoTrail

LEMMA SearchedInsert ==
  ASSUME TypeInv, BucketsInv, NEW s, Senders = {s}, Searched(s),
         \/ Scan(s) \/ NoGrowth(s) \/ Find(s) \/ WriteName(s) \/ WriteEntry(s)
         \/ LoadOccupied(s) \/ StoreOccupied(s)
  PROVE  Searched(s)'
  <1> s \in Senders
    OBVIOUS
  <1> PICK n, c, i : n = loc[s].name /\ c = loc[s].cache /\ i = loc[s].idx
    OBVIOUS
  <1> PICK h, l : h = loc'[s].idx /\ l = pc'[s]
    OBVIOUS
  <1>1. CASE Scan(s)
    <2>1. /\ pc[s] = "scan" /\ l \in {"space", "nil"} /\ loc'[s].name = n
          /\ loc'[s].cache = c /\ caches' = caches
      BY <1>1, ScanShape DEF UNCHANGED_shared
    <2>2. NoTrail(n, c)
      BY <2>1 DEF Searched, Knows
    <2>3. Knows(l, n, c, h)
      BY <2>1, <2>2 DEF Knows, Makes
    <2> QED BY <2>1, <2>3, KnowsKept
  <1>2. CASE NoGrowth(s)
    <2>1. /\ pc[s] = "space" /\ l = "find" /\ loc'[s].name = n /\ h = Home(n, c)
          /\ loc'[s].cache = c /\ caches' = caches
      BY <1>2, NoGrowthShape DEF Moves, UNCHANGED_shared
    <2>2. NoTrail(n, c)
      BY <2>1 DEF Searched, Knows
    <2>3. {} \in BucketSets(c) /\ Passed(n, c, h, {})
      BY <2>1 DEF BucketSets, Passed
    <2>4. Knows(l, n, c, h)
      BY <2>1, <2>2, <2>3 DEF Knows, Makes
    <2> QED BY <2>1, <2>4, KnowsKept
  <1>3. CASE Find(s)
    <2>1. /\ pc[s] = "find" /\ loc'[s].name = n
          /\ loc'[s].cache = c /\ caches' = caches
          /\ \/ caches[c].bucket[i].name = NULL /\ l = "name" /\ h = i
             \/ /\ caches[c].bucket[i].name # NULL /\ h = After(i, c)
                /\ l \in {"done", "find"}
      BY <1>3, FindShape DEF UNCHANGED_shared, Entry
    <2>2. NoTrail(n, c)
      BY <2>1 DEF Searched, Knows
    <2>3. PICK V \in BucketSets(c) : Passed(n, c, i, V)
      BY <2>1 DEF Searched, Knows
    <2>4. i \in 0 .. caches[c].mask
      BY <2>1, SenderFacts DEF LocalsFit, InCache
    <2>5. CASE l = "find"
      <3>1. V \cup {i} \in BucketSets(c)
        BY <2>4 DEF BucketSets
      <3>2. Passed(n, c, h, V \cup {i})
        BY <2>1, <2>3, <2>5 DEF Passed
      <3>3. Knows(l, n, c, h)
        BY <2>2, <2>5, <3>1, <3>2 DEF Knows, Makes
      <3> QED BY <2>1, <3>3, KnowsKept
    <2>6. CASE l = "name"
      <3>1. h = i /\ caches[c].bucket[i].name = NULL
        BY <2>1, <2>6
      <3>2. Knows(l, n, c, h)
        BY <2>2, <2>3, <2>6, <3>1 DEF Knows, Makes
      <3> QED BY <2>1, <3>2, KnowsKept
    <2>7. CASE l = "done"
      <3>1. pc'[s] = "done"
        BY <2>7
      <3> QED BY <3>1, KnowsNothing
    <2> QED BY <2>1, <2>5, <2>6, <2>7
  <1>4. CASE WriteName(s)
    <2>1. /\ pc'[s] = "entry" /\ loc'[s] = loc[s]
          /\ caches'[c].bucket[i].name = n
      BY <1>4, WriteNameShape DEF Moves
    <2> QED BY <2>1 DEF Searched, Knows, Makes
  <1>5. CASE WriteEntry(s)
    <2>1. /\ pc[s] = "entry" /\ pc'[s] = "count" /\ loc'[s] = loc[s]
          /\ caches'[c].bucket[i].name = caches[c].bucket[i].name
      BY <1>5, WriteEntryShape DEF Moves
    <2> QED BY <2>1 DEF Searched, Knows, Makes
  <1>6. CASE LoadOccupied(s)
    <2>1. /\ pc[s] = "count" /\ pc'[s] = "occupy" /\ UNCHANGED caches
          /\ loc'[s].name = n /\ loc'[s].cache = c /\ loc'[s].idx = i
      BY <1>6, LoadOccupiedShape DEF Moves, UNCHANGED_shared
    <2>2. Knows("occupy", n, c, i)
      BY <2>1 DEF Searched, Knows, Makes
    <2> QED BY <2>1, <2>2, KnowsKept
  <1>7. CASE StoreOccupied(s)
    BY <1>7, StoreOccupiedShape, KnowsNothing DEF Moves
  <1> QED BY <1>1, <1>2, <1>3, <1>4, <1>5, <1>6, <1>7

LEMMA SearchedQuiet ==
  ASSUME TypeInv, NEW s, Senders = {s}, Searched(s),
         \/ Enter(s) \/ Leave(s) \/ Done(s) \/ Call(s) \/ ReturnNil(s)
         \/ UNCHANGED <<caches, pc, loc>>
  PROVE  Searched(s)'
  <1> s \in Senders
    OBVIOUS
  <1> PICK n, c, i : n = loc[s].name /\ c = loc[s].cache /\ i = loc[s].idx
    OBVIOUS
  <1>1. CASE UNCHANGED <<caches, pc, loc>>
    BY <1>1, KnowsKept DEF Searched
  <1>2. CASE Enter(s) \/ Done(s) \/ Call(s) \/ ReturnNil(s)
    BY <1>2, CountShape, EndShape, KnowsNothing DEF Moves
  <1>3. CASE Leave(s)
    <2>1. BucketsFixed /\ loc'[s] = loc[s]
      BY <1>3, CountShape
    <2>2. CASE Moves(s, "leaveHit", "call")
      BY <2>2, KnowsNothing DEF Moves
    <2>3. CASE Moves(s, "leaveMiss", "scan")
      <3>1. c \in DOMAIN caches /\ NoTrail(n, c)
        BY <2>3, SenderFacts DEF Moves, InCache, Searched, Knows
      <3>2. Knows("scan", n, c, i)
        BY <3>1 DEF Knows, Makes
      <3> QED BY <2>1, <2>3, <3>1, <3>2, KnowsKept DEF Moves, BucketsFixed
    <2> QED BY <1>3, <2>2, <2>3, CountShape
  <1> QED BY <1>1, <1>2, <1>3

\* What the sender has written of an entry stays until it is counted.
LEMMA WrittenKept ==
  ASSUME TypeInv, NEW s, Senders = {s}, Written(s),
         SenderStep(s) \/ \E n \in Names : Send(s, n),
         ~Misstep(s), ~Grow(s), OneCache(s)
  PROVE  Written(s)'
  <1> s \in Senders
    OBVIOUS
  <1>1. CASE WriteEntry(s)
    BY <1>1, WriteEntryShape DEF Written, Entry, Moves
  <1>2. CASE LoadOccupied(s)
    BY <1>2, LoadOccupiedShape DEF Written, Entry, Moves, UNCHANGED_shared
  <1>3. CASE \/ \E n \in Names : Send(s, n)
             \/ Enter(s) \/ Load(s) \/ ProbeOn(s) \/ ProbeStop(s) \/ Hit(s) \/ Miss(s)
             \/ Leave(s) \/ Scan(s) \/ NoGrowth(s) \/ Find(s) \/ WriteName(s)
             \/ StoreOccupied(s) \/ Done(s) \/ Call(s) \/ ReturnNil(s)
    <2>1. pc'[s] \notin {"count", "occupy"}
      BY <1>3, SendShape, LoadShape, ProbeOnShape, ProbeStopShape, HitShape, MissShape,
         CountShape, ScanShape, NoGrowthShape, FindShape, WriteNameShape,
         StoreOccupiedShape, EndShape DEF Moves
    <2> QED BY <2>1 DEF Written
  <1>4. ~RetireFree(s) /\ ~RetireLater(s) /\ ~AppendToFree(s) /\ ~Signal(s)
    BY DEF OneCache, RetireFree, RetireLater, AppendToFree, Signal, At
  <1> QED BY <1>1, <1>2, <1>3, <1>4 DEF SenderStep

------------------------------------------------------------------------------
(* The function that runs                                                   *)

\* Between the object's handlers and the call, a sender that has a function
\* keeps it, and no handler is added.
LEMMA FoundKept ==
  ASSUME NEW s, Found(s), loc'[s].name = loc[s].name,
         UNCHANGED <<handlers, objHandlers, err>>, pc[s] \notin {"idle", "call"},
         \/ pc'[s] \in {"load", "probe", "check", "leaveMiss", "scan"}
         \/ /\ pc'[s] \in HasFn \cup {"call"} /\ pc[s] \in HasFn
            /\ loc'[s].fn = loc[s].fn
  PROVE  Found(s)'
  BY DEF Found, HasFn

LEMMA FoundLookup ==
  ASSUME TypeInv, BucketsInv, NEW s, Senders = {s}, Searched(s), Found(s),
         \/ \E n \in Names : Send(s, n)
         \/ Enter(s) \/ Load(s) \/ ProbeOn(s) \/ ProbeStop(s) \/ Hit(s) \/ Miss(s)
         \/ Leave(s) \/ Scan(s)
  PROVE  Found(s)'
  <1> s \in Senders
    OBVIOUS
  <1>1. CASE \E m \in Names : Send(s, m)
    <2> PICK n \in Names : Send(s, n)
      BY <1>1
    <2>1. UNCHANGED <<handlers, objHandlers>> /\ loc'[s].name = n
      BY SendShape DEF UNCHANGED_shared
    <2>2. CASE Has(objHandlers, n)
      <3>1. pc'[s] = "call" /\ loc'[s].fn = First(objHandlers, n)
        BY <2>2, SendShape
      <3> QED BY <2>1, <2>2, <3>1 DEF Found, HasFn
    <2>3. CASE ~Has(objHandlers, n)
      <3>1. pc'[s] = "enter"
        BY <2>3, SendShape
      <3> QED BY <2>1, <2>3, <3>1 DEF Found, HasFn
    <2> QED BY <2>2, <2>3
  <1>2. CASE Enter(s)
    BY <1>2, CountShape, FoundKept DEF HasFn, Moves
  <1>3. CASE Load(s)
    BY <1>3, LoadShape, FoundKept DEF HasFn, Moves, UNCHANGED_shared
  <1>4. CASE ProbeOn(s)
    BY <1>4, ProbeOnShape, FoundKept DEF HasFn, Moves, UNCHANGED_shared
  <1>5. CASE ProbeStop(s)
    BY <1>5, ProbeStopShape, FoundKept DEF HasFn, Moves, UNCHANGED_shared
  <1>6. CASE Miss(s)
    BY <1>6, MissShape, FoundKept DEF HasFn, Moves, UNCHANGED_shared
  <1>7. CASE Hit(s)
    <2> PICK n, c, i : n = loc[s].name /\ c = loc[s].cache /\ i = loc[s].idx
      OBVIOUS
    <2>1. /\ Moves(s, "check", "leaveHit") /\ UNCHANGED <<handlers, objHandlers>>
          /\ caches[c].bucket[i].name # NULL
          /\ loc'[s].name = n /\ loc'[s].fn = caches[c].bucket[i].fn
      BY <1>7, HitShape DEF UNCHANGED_shared, Entry
    <2>2. n \in Names /\ c \in DOMAIN caches /\ i \in DOMAIN caches[c].bucket
      BY <2>1, SenderFacts, EntryInRange DEF Moves, LocalsFit, InCache
    <2>3. caches[c].bucket[i].name = n
      BY <2>1 DEF Searched, Knows, Moves
    <2>4. i \in Named(c)
      BY <2>2, <2>3 DEF Named
    <2>5. ~InTheMaking(c, i)
      BY <2>1, MakingIsMine DEF Moves, Makes
    <2>6. i \in Cached(c)
      BY <2>4, <2>5 DEF Cached
    <2>7. Has(handlers, n) /\ caches[c].bucket[i].fn = First(handlers, n)
      BY <2>2, <2>3, <2>6 DEF BucketsInv, CacheInv
    <2>8. ~Has(objHandlers, n)
      BY <2>1 DEF Found, HasFn, Moves
    <2> QED BY <2>1, <2>7, <2>8 DEF Found, HasFn, Moves
  <1>8. CASE Leave(s)
    BY <1>8, CountShape, FoundKept DEF HasFn, Moves
  <1>9. CASE Scan(s)
    <2>1. ~Has(objHandlers, loc[s].name) /\ loc'[s].name = loc[s].name
          /\ UNCHANGED <<handlers, objHandlers, err>>
      BY <1>9, ScanShape DEF Found, UNCHANGED_shared
    <2>2. \/ /\ Has(handlers, loc[s].name) /\ ~err /\ pc'[s] = "space"
             /\ loc'[s].fn = First(handlers, loc[s].name)
          \/ (~Has(handlers, loc[s].name) \/ err) /\ pc'[s] = "nil"
      BY <1>9, ScanShape
    <2> QED BY <2>1, <2>2 DEF Found, HasFn
  <1> QED BY <1>1, <1>2, <1>3, <1>4, <1>5, <1>6, <1>7, <1>8, <1>9

LEMMA FoundInsert ==
  ASSUME TypeInv, NEW s, Senders = {s}, Found(s),
         \/ NoGrowth(s) \/ Find(s) \/ WriteName(s) \/ WriteEntry(s)
         \/ LoadOccupied(s) \/ StoreOccupied(s) \/ Done(s) \/ Call(s) \/ ReturnNil(s)
  PROVE  Found(s)'
  <1> s \in Senders
    OBVIOUS
  <1>1. CASE NoGrowth(s)
    BY <1>1, NoGrowthShape, FoundKept DEF HasFn, Moves, UNCHANGED_shared
  <1>2. CASE Find(s)
    BY <1>2, FindShape, FoundKept DEF HasFn, UNCHANGED_shared
  <1>3. CASE WriteName(s)
    BY <1>3, WriteNameShape, FoundKept DEF HasFn, Moves
  <1>4. CASE WriteEntry(s)
    BY <1>4, WriteEntryShape, FoundKept DEF HasFn, Moves
  <1>5. CASE LoadOccupied(s)
    BY <1>5, LoadOccupiedShape, FoundKept DEF HasFn, Moves, UNCHANGED_shared
  <1>6. CASE StoreOccupied(s)
    BY <1>6, StoreOccupiedShape, FoundKept DEF HasFn, Moves
  <1>7. CASE Done(s)
    BY <1>7, CountShape, FoundKept DEF HasFn, Moves
  <1>8. CASE Call(s) \/ ReturnNil(s)
    BY <1>8, EndShape DEF Found, HasFn
  <1> QED BY <1>1, <1>2, <1>3, <1>4, <1>5, <1>6, <1>7, <1>8

LEMMA FoundOther ==
  ASSUME NEW s, Senders = {s}, Found(s), UNCHANGED <<err, pc, loc>>,
         UNCHANGED <<handlers, objHandlers>> \/ AllIdle
  PROVE  Found(s)'
  <1>1. CASE AllIdle
    BY <1>1 DEF Found, HasFn, AllIdle
  <1>2. CASE UNCHANGED <<handlers, objHandlers>>
    BY <1>2 DEF Found, HasFn
  <1> QED BY <1>1, <1>2

------------------------------------------------------------------------------
(* One cache                                                                *)

\* The caches a sender points to are the one there is.
LEMMA OnlyCurrent ==
  ASSUME TypeInv, NEW s \in Senders, OneCache(s)
  PROVE  /\ DOMAIN caches = {current} /\ current = 1
         /\ pc[s] \in InCache => loc[s].cache = current
         /\ pc[s] \in {"enter", "leaveHit", "leaveMiss"} => loc[s].ptr = current
  <1>1. DOMAIN caches = {1} /\ current = 1
    BY SenderFacts DEF OneCache
  <1> QED BY <1>1, SenderFacts

\* Nothing is retired, since the sender finds the cache with space left.
LEMMA NothingRetired ==
  ASSUME TypeInv, BucketsInv, NEW s, Senders = {s}, Searched(s), OneCache(s)
  PROVE  /\ ~Grow(s) /\ ~RetireFree(s) /\ ~RetireLater(s)
         /\ ~AppendToFree(s) /\ ~Signal(s)
  <1>1. ~Grow(s)
    BY SpaceLeft DEF Grow, At
  <1> QED
    BY <1>1 DEF OneCache, RetireFree, RetireLater, AppendToFree, Signal, At

LEMMA OneCacheKept ==
  ASSUME TypeInv, BucketsInv, NEW s, Senders = {s}, Searched(s), OneCache(s),
         SenderStep(s) \/ \E n \in Names : Send(s, n), ~Misstep(s)
  PROVE  OneCache(s)'
  <1> s \in Senders
    OBVIOUS
  <1>1. CASE \/ \E n \in Names : Send(s, n)
             \/ Load(s) \/ ProbeOn(s) \/ ProbeStop(s) \/ Hit(s) \/ Miss(s)
             \/ Scan(s) \/ NoGrowth(s) \/ Find(s) \/ LoadOccupied(s)
             \/ Call(s) \/ ReturnNil(s)
    <2>1. /\ UNCHANGED caches
          /\ pc'[s] \notin {"retire", "append", "signal"}
      BY <1>1, SendShape, LoadShape, ProbeOnShape, ProbeStopShape, HitShape, MissShape,
         ScanShape, NoGrowthShape, FindShape, LoadOccupiedShape, EndShape
         DEF Moves, UNCHANGED_shared
    <2> QED BY <2>1 DEF OneCache
  <1>2. CASE Enter(s) \/ Leave(s) \/ Done(s)
    BY <1>2, CountShape DEF OneCache, OnlyCache, Moves
  <1>3. CASE WriteName(s) \/ WriteEntry(s) \/ StoreOccupied(s)
    BY <1>3, WriteNameShape, WriteEntryShape, StoreOccupiedShape
    DEF OneCache, OnlyCache, Moves
  <1> QED BY <1>1, <1>2, <1>3, NothingRetired DEF SenderStep

\* The memory the only sender is about to access is valid.
LEMMA SenderValid ==
  ASSUME TypeInv, LiveInv, NEW s, Senders = {s}, OneCache(s), Found(s)
  PROVE  Valid(s) /\ (pc[s] = "call" => loc[s].fn # NULL)
  <1> s \in Senders
    OBVIOUS
  <1>1. Accessed(s) \in {0, current}
    BY OnlyCurrent DEF Accessed, InCache, OneCache
  <1>2. Valid(s)
    BY <1>1 DEF Valid, LiveInv
  <1>3. ASSUME pc[s] = "call" PROVE loc[s].fn \in Fns
    BY <1>3, FirstFound DEF Found, TypeInv
  <1> QED BY <1>2, <1>3, DispatchAssumption

------------------------------------------------------------------------------
(* The accessor count                                                       *)

\* The numbers Excess is computed from.
LEMMA CountsAreNumbers ==
  ASSUME TypeInv
  PROVE  /\ CountMod \in Nat \ {0} /\ 1 < CountMod
         /\ \A c \in DOMAIN caches :
              caches[c].accessors \in Nat /\ caches[c].occupied \in Nat
  BY CachedFinite, DispatchAssumption

\* Steps that leave the counts and the sender's part in them alone.
LEMMA AccountsKept ==
  ASSUME NEW s, Accounts(s), UNCHANGED current,
         caches'[current].accessors = caches[current].accessors,
         caches'[current].occupied = caches[current].occupied,
         pc'[s] \in Counted <=> pc[s] \in Counted
  PROVE  Accounts(s)'
  BY DEF Accounts, Excess, Due

\* Steps that change one of the counts.
LEMMA AccountsMove ==
  ASSUME TypeInv, NEW s, Accounts(s), UNCHANGED current, NEW k \in Nat,
         Excess(current)' = (Excess(current) + k) % CountMod,
         \/ k = 1 /\ pc[s] \notin Counted /\ pc'[s] \in Counted
         \/ k = CountMod - 1 /\ pc[s] \in Counted /\ pc'[s] \notin Counted
  PROVE  Accounts(s)'
  <1>1. CountMod \in Nat \ {0} /\ 1 < CountMod
    BY CountsAreNumbers
  <1>2. CASE k = 1 /\ pc[s] \notin Counted /\ pc'[s] \in Counted
    <2>1. Excess(current) = 0 /\ Due(s)' = 1
      BY <1>2 DEF Accounts, Due
    <2>2. 1 % CountMod = 1
      BY <1>1, ModSmall
    <2>3. Excess(current)' = 1 % CountMod
      BY <1>2, <2>1
    <2> QED BY <2>1, <2>2, <2>3 DEF Accounts, Excess
  <1>3. CASE k = CountMod - 1 /\ pc[s] \in Counted /\ pc'[s] \notin Counted
    <2>1. Excess(current) = 1 /\ Due(s)' = 0
      BY <1>3 DEF Accounts, Due
    <2>2. 1 + k = 0 + CountMod /\ 0 \in 0 .. CountMod - 1
      BY <1>1, <1>3
    <2>3. (0 + CountMod) % CountMod = 0
      BY <1>1, <2>2, ModSmall
    <2>4. Excess(current)' = (1 + k) % CountMod
      BY <2>1
    <2>5. Excess(current)' = 0
      BY <2>2, <2>3, <2>4
    <2> QED BY <2>1, <2>5 DEF Accounts, Excess
  <1> QED BY <1>2, <1>3

LEMMA AccountsQuiet ==
  ASSUME TypeInv, NEW s, Senders = {s}, Searched(s), Accounts(s), OneCache(s),
         \/ \E n \in Names : Send(s, n)
         \/ Load(s) \/ ProbeOn(s) \/ ProbeStop(s) \/ Hit(s) \/ Miss(s)
         \/ Scan(s) \/ NoGrowth(s) \/ Find(s) \/ LoadOccupied(s)
         \/ Call(s) \/ ReturnNil(s)
         \/ WriteName(s) \/ WriteEntry(s)
  PROVE  Accounts(s)'
  <1> s \in Senders
    OBVIOUS
  <1>1. ~(Find(s) /\ pc'[s] = "done")
    <2> SUFFICES ASSUME Find(s), pc'[s] = "done" PROVE FALSE
      OBVIOUS
    <2> PICK n, c, i : n = loc[s].name /\ c = loc[s].cache /\ i = loc[s].idx
      OBVIOUS
    <2>1. /\ pc[s] = "find" /\ caches[c].bucket[i].name # NULL
          /\ After(i, c) = Home(n, c)
      BY FindShape DEF Entry
    <2>2. i \in 0 .. caches[c].mask
      BY <2>1, SenderFacts DEF LocalsFit, InCache
    <2>3. NoTrail(n, c) /\ \E V \in BucketSets(c) : Passed(n, c, i, V)
      BY <2>1 DEF Searched, Knows
    <2> QED BY <2>1, <2>2, <2>3, NotAround
  <1>2. CASE \/ \E n \in Names : Send(s, n)
             \/ Load(s) \/ ProbeOn(s) \/ ProbeStop(s) \/ Hit(s) \/ Miss(s)
             \/ Scan(s) \/ NoGrowth(s) \/ Find(s) \/ LoadOccupied(s)
             \/ Call(s) \/ ReturnNil(s)
    <2>1. UNCHANGED <<caches, current>>
      BY <1>2, SendShape, LoadShape, ProbeOnShape, ProbeStopShape, HitShape, MissShape,
         ScanShape, NoGrowthShape, FindShape, LoadOccupiedShape, EndShape
         DEF UNCHANGED_shared
    <2>2. pc'[s] \in Counted <=> pc[s] \in Counted
      <3>1. CASE \/ \E n \in Names : Send(s, n)
                 \/ Load(s) \/ ProbeOn(s) \/ ProbeStop(s) \/ Hit(s) \/ Miss(s)
        BY <3>1, SendShape, LoadShape, ProbeOnShape, ProbeStopShape, HitShape, MissShape
           DEF Moves, Counted
      <3>2. CASE Scan(s) \/ NoGrowth(s) \/ LoadOccupied(s) \/ Call(s) \/ ReturnNil(s)
        BY <3>2, ScanShape, NoGrowthShape, LoadOccupiedShape, EndShape DEF Moves, Counted
      <3>3. CASE Find(s)
        BY <1>1, <3>3, FindShape DEF Counted
      <3> QED BY <1>2, <3>1, <3>2, <3>3
    <2> QED BY <2>1, <2>2, AccountsKept
  <1>3. CASE WriteName(s)
    BY <1>3, WriteNameShape, OnlyCurrent, AccountsKept DEF Moves, InCache, Counted
  <1>4. CASE WriteEntry(s)
    BY <1>4, WriteEntryShape, OnlyCurrent, AccountsKept DEF Moves, InCache, Counted
  <1> QED BY <1>2, <1>3, <1>4

LEMMA AccountsCount ==
  ASSUME TypeInv, NEW s, Senders = {s}, Accounts(s), OneCache(s),
         Enter(s) \/ Leave(s) \/ Done(s)
  PROVE  Accounts(s)'
  <1> s \in Senders
    OBVIOUS
  <1> PICK c, k : /\ c = current
                  /\ k = IF pc[s] = "enter" THEN 1 ELSE CountMod - 1
    OBVIOUS
  <1>0. CountMod \in Nat \ {0} /\ 1 < CountMod /\ k \in Nat
    BY CountsAreNumbers
  <1>1. /\ BucketsFixed /\ UNCHANGED current
        /\ \/ pc[s] = "enter" /\ pc'[s] = "load"
           \/ pc[s] \in {"leaveHit", "leaveMiss", "done"} /\ pc'[s] \in {"call", "scan"}
    BY CountShape DEF Moves
  <1>2. c = IF pc[s] = "done" THEN loc[s].cache ELSE loc[s].ptr
    BY <1>1, OnlyCurrent DEF InCache
  <1>3. /\ c \in DOMAIN caches /\ OnlyCache(c)
        /\ caches'[c].accessors = (caches[c].accessors + k) % CountMod
    BY <1>2, CountShape
  <1>4. Excess(c)' = (Excess(c) + k) % CountMod
    <2> PICK a, o : a = caches[c].accessors /\ o = caches[c].occupied
      OBVIOUS
    <2>1. a \in Nat /\ o \in Nat
      BY <1>3, CountsAreNumbers
    <2> DEFINE x == a + o
               y == a + k
    <2>2. x \in Nat /\ y \in Nat /\ x + k = y + o
      BY <1>0, <2>1
    <2>3. Excess(c) = x % CountMod
      BY DEF Excess
    <2>4. Excess(c)' = ((y % CountMod) + o) % CountMod
      BY <1>1, <1>3 DEF Excess, BucketsFixed
    <2> HIDE DEF x, y
    <2>5. ((y % CountMod) + o) % CountMod = (y + o) % CountMod
      BY <1>0, <2>1, <2>2, ModSum
    <2>6. ((x % CountMod) + k) % CountMod = (x + k) % CountMod
      BY <1>0, <2>2, ModSum
    <2> QED BY <2>2, <2>3, <2>4, <2>5, <2>6
  <1>5. \/ k = 1 /\ pc[s] \notin Counted /\ pc'[s] \in Counted
        \/ k = CountMod - 1 /\ pc[s] \in Counted /\ pc'[s] \notin Counted
    BY <1>1 DEF Counted
  <1>6. Excess(current)' = (Excess(current) + k) % CountMod
    BY <1>1, <1>4 DEF Excess
  <1> QED BY <1>0, <1>1, <1>5, <1>6, AccountsMove

LEMMA AccountsOccupied ==
  ASSUME TypeInv, NEW s, Senders = {s}, Accounts(s), OneCache(s),
         Written(s), StoreOccupied(s)
  PROVE  Accounts(s)'
  <1> s \in Senders
    OBVIOUS
  <1> PICK c, one : c = loc[s].cache /\ one = 1
    OBVIOUS
  <1>1. /\ pc[s] = "occupy" /\ pc'[s] = "done" /\ UNCHANGED current
        /\ c \in DOMAIN caches /\ OnlyCache(c)
        /\ caches'[c].occupied = caches[c].occupied + 1
        /\ caches'[c].accessors = caches[c].accessors
    BY StoreOccupiedShape DEF Moves, Written
  <1>2. c = current
    BY <1>1, OnlyCurrent DEF InCache
  <1>3. Excess(c)' = (Excess(c) + one) % CountMod
    <2> DEFINE x == caches[c].accessors + caches[c].occupied
    <2>1. /\ x \in Nat /\ CountMod \in Nat \ {0}
          /\ caches'[c].accessors + caches'[c].occupied = x + one
      BY <1>1, CountsAreNumbers
    <2>2. Excess(c) = x % CountMod /\ Excess(c)' = (x + one) % CountMod
      BY <2>1 DEF Excess
    <2> HIDE DEF x
    <2>3. one \in Nat
      OBVIOUS
    <2> QED BY <2>1, <2>2, <2>3, ModSum
  <1>4. one \in Nat /\ pc[s] \notin Counted /\ pc'[s] \in Counted
    BY <1>1 DEF Counted
  <1>5. Excess(current)' = (Excess(current) + one) % CountMod
    BY <1>1, <1>2, <1>3 DEF Excess
  <1> QED BY <1>1, <1>4, <1>5, AccountsMove

------------------------------------------------------------------------------
(* The theorems about one sender                                            *)

OneInv(s) ==
  BucketsInv /\ Searched(s) /\ Written(s) /\ Found(s) /\ OneCache(s) /\ Accounts(s)

LEMMA BucketsSender ==
  ASSUME TypeInv, NEW s, Senders = {s}, OneInv(s),
         SenderStep(s) \/ \E n \in Names : Send(s, n), ~Misstep(s)
  PROVE  BucketsInv'
  <1> s \in Senders
    OBVIOUS
  <1> USE DEF OneInv
  <1>1. CASE WriteName(s)
    BY <1>1, BucketsWriteName
  <1>2. CASE WriteEntry(s)
    BY <1>2, BucketsWriteEntry
  <1>3. CASE LoadOccupied(s)
    BY <1>3, BucketsLoadOccupied
  <1>4. CASE StoreOccupied(s)
    BY <1>4, BucketsStoreOccupied
  <1>5. CASE \/ \E n \in Names : Send(s, n)
             \/ Load(s) \/ ProbeOn(s) \/ ProbeStop(s) \/ Hit(s) \/ Miss(s)
             \/ Scan(s) \/ NoGrowth(s) \/ Find(s) \/ Call(s) \/ ReturnNil(s)
    <2>1. UNCHANGED <<handlers, caches>> /\ pc[s] \notin Makes /\ pc'[s] \notin Makes
      BY <1>5, SendShape, LoadShape, ProbeOnShape, ProbeStopShape, HitShape, MissShape,
         ScanShape, NoGrowthShape, FindShape, EndShape DEF Moves, Makes, UNCHANGED_shared
    <2>2. BucketsFixed
      BY <2>1 DEF BucketsFixed
    <2> QED BY <2>1, <2>2, BucketsKept
  <1>6. CASE Enter(s) \/ Leave(s) \/ Done(s)
    BY <1>6, CountShape, BucketsKept DEF Moves, Makes
  <1> QED BY <1>1, <1>2, <1>3, <1>4, <1>5, <1>6, NothingRetired DEF SenderStep

LEMMA OneSender ==
  ASSUME TypeInv, LiveInv, NEW s, Senders = {s}, OneInv(s),
         SenderStep(s) \/ \E n \in Names : Send(s, n), ~Misstep(s)
  PROVE  OneInv(s)'
  <1> s \in Senders
    OBVIOUS
  <1> /\ BucketsInv /\ Searched(s) /\ Written(s) /\ Found(s)
      /\ OneCache(s) /\ Accounts(s)
    BY DEF OneInv
  <1>0. /\ ~Grow(s) /\ ~RetireFree(s) /\ ~RetireLater(s)
        /\ ~AppendToFree(s) /\ ~Signal(s)
    BY NothingRetired
  <1>1. BucketsInv'
    BY BucketsSender
  <1>2. Searched(s)'
    BY <1>0, SearchedLookup, SearchedInsert, SearchedQuiet DEF SenderStep
  <1>3. Written(s)'
    BY <1>0, WrittenKept
  <1>4. Found(s)'
    BY <1>0, FoundLookup, FoundInsert DEF SenderStep
  <1>5. OneCache(s)'
    BY OneCacheKept
  <1>6. Accounts(s)'
    BY <1>0, AccountsQuiet, AccountsCount, AccountsOccupied DEF SenderStep
  <1> QED BY <1>1, <1>2, <1>3, <1>4, <1>5, <1>6 DEF OneInv

LEMMA OneOther ==
  ASSUME TypeInv, LiveInv, NEW s, Senders = {s}, OneInv(s),
         \/ \E n \in Names, f \in Fns : AddMsgHandler(n, f) \/ AddHandler(n, f)
         \/ CleanerStep
         \/ \E r \in Senders : Misstep(r)
         \/ UNCHANGED vars
  PROVE  OneInv(s)'
  <1>1. /\ UNCHANGED <<err, caches, current, pc, loc>>
        /\ UNCHANGED <<handlers, objHandlers>> \/ AllIdle
    BY OtherShape
  <1> /\ BucketsInv /\ Searched(s) /\ Written(s) /\ Found(s)
      /\ OneCache(s) /\ Accounts(s)
    BY DEF OneInv
  <1>2. \/ UNCHANGED handlers
        \/ \E h \in HandlerType : handlers' = Append(handlers, h)
    <2>1. CASE \E n \in Names, f \in Fns : AddMsgHandler(n, f)
      <3> PICK n \in Names, f \in Fns : AddMsgHandler(n, f)
        BY <2>1
      <3>1. [name |-> n, fn |-> f] \in HandlerType
        BY DEF HandlerType
      <3> QED BY <3>1 DEF AddMsgHandler
    <2>2. CASE ~(\E n \in Names, f \in Fns : AddMsgHandler(n, f))
      BY <2>2 DEF AddHandler, CleanerStep, Wait, WakeSpuriously, LockList,
         ScanMisstep, ScanBusy, ScanPop, UNCHANGED_senders, Misstep, vars
    <2> QED BY <2>1, <2>2
  <1>3. BucketsInv'
    BY <1>1, <1>2, BucketsOther
  <1>4. Searched(s)'
    BY <1>1, SearchedQuiet
  <1>5. Found(s)'
    BY <1>1, FoundOther
  <1>6. Written(s)' /\ OneCache(s)' /\ Accounts(s)'
    BY <1>1 DEF Written, Entry, OneCache, Accounts, Excess, Due
  <1> QED BY <1>3, <1>4, <1>5, <1>6 DEF OneInv

LEMMA OneInit ==
  ASSUME NEW s, Senders = {s}
  PROVE  Init => OneInv(s)
  <1> SUFFICES ASSUME Init PROVE OneInv(s)
    OBVIOUS
  <1>1. pc[s] = "idle" /\ current = 1
    BY DEF Init
  <1>2. PICK b \in InitialBuckets, dirty \in SUBSET DirtyBuckets :
          caches = <<NewCache(b, 0, dirty)>>
    BY DEF Init
  <1>3. Len(caches) = 1 /\ caches[1].accessors = 0 /\ caches[1].occupied = 0
    <2> DEFINE r == NewCache(b, 0, dirty)
    <2>1. r.accessors = 0 /\ r.occupied = 0
      BY NewCacheType, DispatchAssumption
    <2> HIDE DEF r
    <2> QED BY <1>2, <2>1 DEF r
  <1>4. Searched(s) /\ Written(s) /\ Found(s) /\ OneCache(s)
    BY <1>1, <1>3 DEF Searched, Knows, Makes, Written, Found, HasFn, OneCache
  <1>5. Accounts(s)
    <2>1. 0 % CountMod = 0
      BY DispatchAssumption, ModSmall
    <2>2. Due(s) = 0 /\ Excess(1) = (0 + 0) % CountMod
      BY <1>1, <1>3 DEF Due, Counted, Excess
    <2> QED BY <1>1, <2>1, <2>2 DEF Accounts
  <1> QED BY <1>4, <1>5, BucketsInit DEF OneInv

LEMMA OneNext ==
  ASSUME NEW s, Senders = {s}
  PROVE  TypeInv /\ LiveInv /\ OneInv(s) /\ [Next]_vars => OneInv(s)'
  <1> SUFFICES ASSUME TypeInv, LiveInv, OneInv(s), [Next]_vars PROVE OneInv(s)'
    OBVIOUS
  <1>1. CASE (SenderStep(s) \/ \E n \in Names : Send(s, n)) /\ ~Misstep(s)
    BY <1>1, OneSender
  <1>2. CASE Misstep(s)
    BY <1>2, OneOther
  <1> QED BY <1>1, <1>2, OneOther DEF Next

LEMMA OneSenderInvariant ==
  ASSUME NEW s, Senders = {s}
  PROVE  Spec => [](TypeInv /\ LiveInv /\ OneInv(s))
  BY TypeAndLive, OneInit, OneNext, PTL DEF Spec

\* With one thread that sends, the cache and the tables of handlers agree:
\* every bucket with a message holds the class's first handler for it, no
\* message is in two buckets, and `occupied` counts them (Ft_object.c:90-189).
THEOREM DispatchCacheCoherent ==
  ASSUME NEW s, Senders = {s}
  PROVE  Spec => []CacheCoherent
  <1>1. TypeInv /\ LiveInv /\ OneInv(s) => CacheCoherent
    <2> SUFFICES ASSUME TypeInv, LiveInv, BucketsInv PROVE CacheCoherent
      BY DEF OneInv
    <2>1. TypeOK
      BY TypeInvGivesTypeOK
    <2>2. ASSUME NEW c \in DOMAIN caches
          PROVE  LET cached == { i \in DOMAIN caches[c].bucket :
                         caches[c].bucket[i].name \in Names /\ ~InTheMaking(c, i) }
                     name(i) == caches[c].bucket[i].name
                 IN /\ \A i \in cached :
                         /\ Has(handlers, name(i))
                         /\ caches[c].bucket[i].fn = First(handlers, name(i))
                    /\ \A i, j \in cached : name(i) = name(j) => i = j
                    /\ caches[c].occupied = Cardinality(cached)
      <3> DEFINE cached == { i \in DOMAIN caches[c].bucket :
                         caches[c].bucket[i].name \in Names /\ ~InTheMaking(c, i) }
      <3>1. cached = Cached(c) /\ Cached(c) \subseteq Named(c)
        BY DEF Cached, Named
      <3>2. CacheInv(c)
        BY DEF BucketsInv
      <3> HIDE DEF cached
      <3>3. /\ \A i \in cached :
                 /\ Has(handlers, caches[c].bucket[i].name)
                 /\ caches[c].bucket[i].fn = First(handlers, caches[c].bucket[i].name)
            /\ \A i, j \in cached :
                 caches[c].bucket[i].name = caches[c].bucket[j].name => i = j
            /\ caches[c].occupied = Cardinality(cached)
        BY <3>1, <3>2 DEF CacheInv
      <3> QED BY <3>3 DEF cached
    <2> QED BY <2>1, <2>2 DEF CacheCoherent
  <1> QED BY <1>1, OneSenderInvariant, PTL

\* With one thread that sends, a send runs the first handler the object, or
\* else its class, has for the message, whether it comes from the cache or
\* from the table, and returns nil only if there is none or an error is
\* pending (Ft_object.c:79-189).
THEOREM DispatchRunsFirstHandler ==
  ASSUME NEW s, Senders = {s}
  PROVE  Spec => []SendRunsFirstHandler
  <1>1. OneInv(s) => SendRunsFirstHandler
    BY DEF OneInv, Found, SendRunsFirstHandler
  <1> QED BY <1>1, OneSenderInvariant, PTL

\* With one thread that sends, the cache of a class is never replaced: when a
\* lookup gets to the test of Ft_object.c:146, a bucket is free, whatever the
\* sizes, the addresses of the names and what malloc left in the buckets.  So
\* no send touches freed memory, and none calls a function nobody wrote.
THEOREM DispatchCacheNeverReplaced ==
  ASSUME NEW s, Senders = {s}
  PROVE  Spec => []CacheNeverReplaced
  <1>1. TypeInv /\ LiveInv /\ OneInv(s) => CacheNeverReplaced
    BY SenderValid DEF OneInv, OneCache, CacheNeverReplaced
  <1> QED BY <1>1, OneSenderInvariant, PTL

\* With one thread that sends, the accessors of the cache are as far below
\* zero as it has entries whenever the thread is outside of a send: a send
\* that makes an entry counts itself out twice, all others count themselves
\* right (Ft_object.c:95, 117, 181).
THEOREM DispatchAccessorsLagEntries ==
  ASSUME NEW s, Senders = {s}
  PROVE  Spec => []AccessorsLagEntries
  <1>1. TypeInv /\ OneInv(s) => AccessorsLagEntries
    <2> SUFFICES ASSUME TypeInv, OneCache(s), Accounts(s), AllIdle,
                        NEW c \in DOMAIN caches
                 PROVE  Excess(c) = 0
      BY DEF OneInv, AccessorsLagEntries, Excess
    <2>1. Due(s) = 0
      BY DEF AllIdle, Due, Counted
    <2>2. c = current
      BY OnlyCurrent
    <2> QED BY <2>1, <2>2 DEF Accounts
  <1> QED BY <1>1, OneSenderInvariant, PTL
==============================================================================
