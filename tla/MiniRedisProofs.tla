--------------------------- MODULE MiniRedisProofs ---------------------------
(***************************************************************************)
(* Proofs about MiniRedis, for any keys, values, times to live, capacity   *)
(* and bounds.  All of them rest on what makes a table sound: its entries  *)
(* are entries, there are no more of them than the capacity, and their     *)
(* insertion numbers are distinct and none is above the counter.           *)
(***************************************************************************)
EXTENDS MiniRedis, FiniteSetTheorems, WellFoundedInduction, TLAPS

Sound(m, s) ==
  /\ DOMAIN m \subseteq Keys
  /\ m \in [DOMAIN m -> Entry]
  /\ IsFiniteSet(DOMAIN m)
  /\ Cardinality(DOMAIN m) <= capacity
  /\ \A k \in DOMAIN m : m[k].inserted <= s
  /\ \A j, k \in DOMAIN m : m[j].inserted = m[k].inserted => j = k

IInv ==
  /\ Sound(items, seq)
  /\ seq \in 0..MaxSeq
  /\ clock \in 1..MaxTime

(* NewDB raises a capacity below one to one.                               *)
LEMMA CapacityPositive == capacity \in Int /\ capacity >= 1
BY RedisAssumption DEF capacity

(* Dropping keys leaves a table sound.                                     *)
LEMMA WithoutSound ==
  ASSUME NEW m, NEW s, NEW D, Sound(m, s)
  PROVE  /\ Sound(Without(m, D), s)
         /\ DOMAIN Without(m, D) = DOMAIN m \ D
<1> DEFINE r == Without(m, D)
<1>1. DOMAIN r = DOMAIN m \ D /\ \A k \in DOMAIN m \ D : r[k] = m[k]
  BY DEF Without, Restrict
<1>2. r \in [DOMAIN r -> Entry]
  BY DEF Without, Restrict, Sound
<1>3. IsFiniteSet(DOMAIN m) /\ DOMAIN r \in SUBSET DOMAIN m
  BY <1>1 DEF Sound
<1>4. IsFiniteSet(DOMAIN r) /\ Cardinality(DOMAIN r) <= Cardinality(DOMAIN m)
  BY <1>3, FS_Subset
<1>5. Cardinality(DOMAIN r) \in Nat /\ Cardinality(DOMAIN m) \in Nat
  BY <1>3, <1>4, FS_CardinalityType
<1>6. Cardinality(DOMAIN r) <= capacity
  BY <1>4, <1>5, CapacityPositive DEF Sound
<1> HIDE DEF r
<1>7. Sound(r, s)
  BY <1>1, <1>2, <1>4, <1>6 DEF Sound
<1> QED BY <1>1, <1>7 DEF r

(* Cleaning leaves a table sound.                                          *)
LEMMA CleanedSound ==
  ASSUME NEW m, NEW s, NEW t, Sound(m, s)
  PROVE  Sound(Cleaned(m, t), s)
BY WithoutSound DEF Cleaned

(* A table from which a victim went is sound, and has room if it was full. *)
LEMMA EvictSound ==
  ASSUME NEW m, NEW s, Sound(m, s), NEW r \in EvictOne(m)
  PROVE  /\ Sound(r, s)
         /\ DOMAIN r \subseteq DOMAIN m
         /\ Full(m) => ~Full(r)
<1>1. CASE DOMAIN m = {}
  <2>1. r = m
    BY <1>1 DEF EvictOne
  <2>2. ~Full(m)
    BY <1>1, FS_EmptySet, CapacityPositive DEF Full
  <2> QED BY <2>1, <2>2
<1>2. CASE DOMAIN m # {}
  <2>1. PICK k \in DOMAIN m : r = Without(m, {k})
    BY <1>2 DEF EvictOne, Victims
  <2>2. Sound(r, s) /\ DOMAIN r = DOMAIN m \ {k}
    BY <2>1, WithoutSound
  <2>3. IsFiniteSet(DOMAIN m) /\ Cardinality(DOMAIN m) <= capacity
    BY DEF Sound
  <2>4. Cardinality(DOMAIN r) = Cardinality(DOMAIN m) - 1 /\ Cardinality(DOMAIN m) \in Nat
    BY <2>2, <2>3, FS_RemoveElement, FS_CardinalityType
  <2>5. ~Full(r)
    BY <2>3, <2>4, CapacityPositive DEF Full
  <2> QED BY <2>2, <2>5
<1> QED BY <1>1, <1>2

(* A new entry with the next insertion number leaves a table with room     *)
(* sound.                                                                  *)
LEMMA InsertedSound ==
  ASSUME NEW m, NEW s \in Nat, Sound(m, s), ~Full(m),
         NEW k \in Keys \ DOMAIN m, NEW e \in Entry, e.inserted = s + 1
  PROVE  Sound(Inserted(m, k, e), s + 1)
<1> DEFINE r == Inserted(m, k, e)
<1>1. DOMAIN r = DOMAIN m \cup {k} /\ r[k] = e /\ \A j \in DOMAIN m : r[j] = m[j]
  BY DEF Inserted
<1>2. r \in [DOMAIN r -> Entry]
  BY DEF Inserted, Sound
<1>3. IsFiniteSet(DOMAIN m) /\ Cardinality(DOMAIN m) \in Nat
  BY FS_CardinalityType DEF Sound
<1>4. IsFiniteSet(DOMAIN r) /\ Cardinality(DOMAIN r) = Cardinality(DOMAIN m) + 1
  BY <1>1, <1>3, FS_AddElement
<1>5. Cardinality(DOMAIN r) <= capacity
  BY <1>3, <1>4, CapacityPositive DEF Full
<1> HIDE DEF r
<1>6. \A j \in DOMAIN m : m[j].inserted \in Int /\ m[j].inserted <= s
  BY DEF Sound, Entry
<1>7. DOMAIN r \subseteq Keys
  BY <1>1 DEF Sound
<1>8. \A j \in DOMAIN r : r[j].inserted <= s + 1
  BY <1>1, <1>6
<1>9. \A i, j \in DOMAIN r : r[i].inserted = r[j].inserted => i = j
  BY <1>1, <1>6 DEF Sound
<1>10. Sound(r, s + 1)
  BY <1>2, <1>4, <1>5, <1>7, <1>8, <1>9 DEF Sound
<1> QED BY <1>10 DEF r

(* Replacing an entry by one with the same insertion number leaves a table *)
(* sound.                                                                  *)
LEMMA ReplacedSound ==
  ASSUME NEW m, NEW s, Sound(m, s), NEW k \in DOMAIN m,
         NEW e \in Entry, e.inserted = m[k].inserted
  PROVE  Sound([m EXCEPT ![k] = e], s)
<1> DEFINE r == [m EXCEPT ![k] = e]
<1>1. m \in [DOMAIN m -> Entry]
  BY DEF Sound
<1>2. DOMAIN r = DOMAIN m /\ r \in [DOMAIN m -> Entry]
  BY <1>1
<1>3. \A j \in DOMAIN m : r[j].inserted = m[j].inserted
  BY <1>1
<1> HIDE DEF r
<1>4. Sound(r, s)
  BY <1>2, <1>3 DEF Sound
<1> QED BY <1>4 DEF r

LEMMA InitIInv == Init => IInv
<1> SUFFICES ASSUME Init PROVE IInv
  OBVIOUS
<1>1. DOMAIN items = {}
  BY DEF Init
<1>2. items \in [DOMAIN items -> Entry]
  BY DEF Init
<1>3. IsFiniteSet(DOMAIN items) /\ Cardinality(DOMAIN items) <= capacity
  BY <1>1, FS_EmptySet, CapacityPositive
<1>4. Sound(items, seq)
  BY <1>1, <1>2, <1>3 DEF Sound
<1> QED BY <1>4, RedisAssumption DEF Init, IInv

(* A Get that hits changes one count.                                      *)
LEMMA GetHitIInv ==
  ASSUME IInv, NEW k \in Keys, GetHit(k)
  PROVE  IInv'
<1> DEFINE e == [items[k] EXCEPT !.gets = @ + 1]
<1>1. items[k] \in Entry /\ k \in DOMAIN items /\ items[k].gets < MaxGets
  BY DEF IInv, Sound, GetHit
<1>2. e \in Entry /\ e.inserted = items[k].inserted
  BY <1>1, RedisAssumption DEF Entry
<1>3. items' = [items EXCEPT ![k] = e]
  BY DEF GetHit
<1> HIDE DEF e
<1>4. Sound(items', seq)
  BY <1>1, <1>2, <1>3, ReplacedSound DEF IInv
<1> QED BY <1>4 DEF IInv, GetHit

(* A Set rewrites the entry of its key, or inserts one where there is room *)
(* or a victim made room.                                                  *)
LEMMA SetIInv ==
  ASSUME IInv, NEW k \in Keys, NEW v \in Values, NEW ttl \in TTLs, Set(k, v, ttl)
  PROVE  IInv'
<1> DEFINE m == Cleaned(items, clock)
<1>1. Sound(m, seq) /\ seq \in 0..MaxSeq /\ clock \in 1..MaxTime
  BY CleanedSound DEF IInv
<1>2. PICK later \in clock..MaxTime :
        /\ clock' = later
        /\ \/ /\ k \in DOMAIN m
              /\ items' = Rewritten(m, k, v, ttl, later)
              /\ UNCHANGED seq
           \/ /\ k \notin DOMAIN m
              /\ seq < MaxSeq
              /\ seq' = seq + 1
              /\ \E r \in IF Full(m) THEN EvictOne(m) ELSE {m} :
                   items' = Inserted(r, k, [value |-> v, expireAt |-> Deadline(ttl, later),
                                            gets |-> 0, inserted |-> Stamp])
  BY DEF Set
<1> HIDE DEF m
<1>3. clock' \in 1..MaxTime /\ Deadline(ttl, later) \in Int
  BY <1>1, <1>2, RedisAssumption DEF Deadline, Never
<1>4. CASE k \in DOMAIN m /\ items' = Rewritten(m, k, v, ttl, later) /\ UNCHANGED seq
  <2> DEFINE e == Updated(m[k], v, ttl, later)
  <2>1. m[k] \in Entry
    BY <1>1, <1>4 DEF Sound
  <2>2. e \in Entry /\ e.inserted = m[k].inserted
    BY <2>1, <1>3 DEF Updated, Entry
  <2>3. items' = [m EXCEPT ![k] = e]
    BY <1>4 DEF Rewritten
  <2> HIDE DEF e
  <2>4. Sound(m, seq) /\ k \in DOMAIN m
    BY <1>1, <1>4
  <2>5. Sound([m EXCEPT ![k] = e], seq)
    BY <2>2, <2>4, ReplacedSound
  <2>6. seq' = seq
    BY <1>4
  <2> QED BY <1>1, <1>3, <2>3, <2>5, <2>6 DEF IInv
<1>5. CASE /\ k \notin DOMAIN m
           /\ seq < MaxSeq
           /\ seq' = seq + 1
           /\ \E r \in IF Full(m) THEN EvictOne(m) ELSE {m} :
                items' = Inserted(r, k, [value |-> v, expireAt |-> Deadline(ttl, later),
                                         gets |-> 0, inserted |-> Stamp])
  <2> DEFINE e == [value |-> v, expireAt |-> Deadline(ttl, later), gets |-> 0, inserted |-> Stamp]
  <2>1. PICK r \in IF Full(m) THEN EvictOne(m) ELSE {m} : items' = Inserted(r, k, e)
    BY <1>5
  <2>2. e \in Entry /\ e.inserted = seq + 1
    BY <1>1, <1>3, <1>5, RedisAssumption DEF Stamp, Entry
  <2> HIDE DEF e
  <2>3. Sound(r, seq) /\ ~Full(r) /\ DOMAIN r \subseteq DOMAIN m
    BY <1>1, <2>1, EvictSound
  <2>4. Sound(items', seq + 1)
    BY <1>1, <1>5, <2>1, <2>2, <2>3, InsertedSound
  <2>5. seq' = seq + 1 /\ seq' \in 0..MaxSeq
    BY <1>1, <1>5, RedisAssumption
  <2> QED BY <1>3, <2>4, <2>5 DEF IInv
<1> QED BY <1>2, <1>4, <1>5

LEMMA NextIInv == IInv /\ [Next]_vars => IInv'
<1> SUFFICES ASSUME IInv, [Next]_vars PROVE IInv'
  OBVIOUS
<1>1. ASSUME NEW k \in Keys, GetMissing(k) PROVE IInv'
  BY <1>1 DEF GetMissing, IInv
<1>2. ASSUME NEW k \in Keys, GetExpired(k) PROVE IInv'
  BY <1>2, WithoutSound DEF GetExpired, IInv
<1>3. ASSUME NEW k \in Keys, GetHit(k) PROVE IInv'
  BY <1>3, GetHitIInv
<1>4. ASSUME NEW k \in Keys, NEW v \in Values, NEW ttl \in TTLs, Set(k, v, ttl) PROVE IInv'
  BY <1>4, SetIInv
<1>5. CASE Size
  BY <1>5, CleanedSound DEF Size, IInv
<1>6. CASE Clear
  <2>1. DOMAIN items' = {} /\ items' \in [DOMAIN items' -> Entry]
    BY <1>6 DEF Clear, ClearedItems
  <2>2. IsFiniteSet(DOMAIN items') /\ Cardinality(DOMAIN items') <= capacity
    BY <2>1, FS_EmptySet, CapacityPositive
  <2>3. Sound(items', 0)
    BY <2>1, <2>2 DEF Sound
  <2> QED BY <1>6, <2>3, RedisAssumption DEF Clear, IInv
<1>7. CASE Evict
  <2>1. Sound(Cleaned(items, clock), seq)
    BY CleanedSound DEF IInv
  <2>2. Sound(items', seq)
    BY <1>7, <2>1, EvictSound DEF Evict
  <2> QED BY <1>7, <2>2 DEF Evict, IInv
<1>8. CASE Tick
  BY <1>8, RedisAssumption DEF Tick, IInv
<1>9. CASE UNCHANGED vars
  BY <1>9 DEF vars, IInv
<1> QED BY <1>1, <1>2, <1>3, <1>4, <1>5, <1>6, <1>7, <1>8, <1>9 DEF Next

(* The inductive invariant holds in every reachable state.                 *)
LEMMA Invariant == Spec => []IInv
BY InitIInv, NextIInv, PTL DEF Spec

(* Every variable of the cache keeps its type, in every interleaving of    *)
(* Get, Set, Size, Clear, Evict and the clock (mini-redis/main.go).        *)
THEOREM TypeCorrect == Spec => []TypeOK
<1>1. IInv => TypeOK
  BY DEF IInv, Sound, TypeOK
<1> QED BY <1>1, Invariant, PTL

(* Set never lets the table grow over the capacity NewDB was given, or     *)
(* over one if that was below one.                                         *)
THEOREM CapacityKept == Spec => []WithinCapacity
<1>1. IInv => WithinCapacity
  BY DEF IInv, Sound, WithinCapacity
<1> QED BY <1>1, Invariant, PTL

(* The insertion numbers that break ties between equal Get counts are      *)
(* distinct, although Clear starts them again.                             *)
THEOREM InsertionDistinct == Spec => []DistinctInsertion
<1>1. IInv => DistinctInsertion
  BY DEF IInv, Sound, DistinctInsertion
<1> QED BY <1>1, Invariant, PTL

(* A set of naturals that is not empty has a least element.                *)
LEMMA Least ==
  ASSUME NEW T \in SUBSET Nat, T # {}
  PROVE  \E x \in T : \A y \in T : x <= y
<1> DEFINE R == OpToRel(<, Nat)
<1>1. IsWellFoundedOn(R, Nat)
  BY NatLessThanWellFounded
<1>2. \A x, y \in Nat : y < x => <<y, x>> \in R
  BY DEF OpToRel
<1> HIDE DEF R
<1>3. PICK x \in T : \A y \in T : ~(<<y, x>> \in R)
  BY <1>1, WFMin
<1>4. x \in Nat /\ \A y \in T : y \in Nat /\ ~(y < x)
  BY <1>2, <1>3
<1> QED BY <1>4

(* A sound table that is not empty has exactly one coldest entry: among    *)
(* the least read ones, the first inserted.                                *)
LEMMA OneVictim ==
  ASSUME NEW m, NEW s, Sound(m, s), DOMAIN m # {}
  PROVE  \E k \in Keys : Victims(m) = {k}
<1>1. \A k \in DOMAIN m : m[k].gets \in Nat /\ m[k].inserted \in Nat
  BY RedisAssumption DEF Sound, Entry
<1>2. PICK a \in DOMAIN m : \A j \in DOMAIN m : m[a].gets <= m[j].gets
  <2> DEFINE T == {m[j].gets : j \in DOMAIN m}
  <2>1. T \in SUBSET Nat /\ T # {}
    BY <1>1
  <2>2. PICK x \in T : \A y \in T : x <= y
    BY <2>1, Least
  <2> QED BY <2>2
<1> DEFINE L == {j \in DOMAIN m : m[j].gets = m[a].gets}
<1>3. PICK k \in L : \A j \in L : m[k].inserted <= m[j].inserted
  <2> DEFINE T == {m[j].inserted : j \in L}
  <2>1. T \in SUBSET Nat /\ T # {}
    BY <1>1
  <2>2. PICK x \in T : \A y \in T : x <= y
    BY <2>1, Least
  <2> QED BY <2>2
<1>4. \A j \in DOMAIN m : ~Colder(m[j], m[k])
  BY <1>1, <1>2, <1>3 DEF Colder
<1>5. \A j \in DOMAIN m \ {k} : Colder(m[k], m[j])
  <2> SUFFICES ASSUME NEW j \in DOMAIN m, j # k PROVE Colder(m[k], m[j])
    OBVIOUS
  <2>1. m[j].inserted # m[k].inserted
    BY DEF Sound
  <2>2. CASE j \in L
    BY <1>1, <1>3, <2>1, <2>2 DEF Colder
  <2>3. CASE j \notin L
    BY <1>1, <1>2, <1>3, <2>3 DEF Colder
  <2> QED BY <2>2, <2>3
<1>6. Victims(m) = {k}
  BY <1>4, <1>5 DEF Victims
<1> QED BY <1>6 DEF Sound

(* evictOneLocked has exactly one entry to choose, whatever the order in   *)
(* which Go ranges over the map.                                           *)
THEOREM VictimUnique == Spec => []UniqueVictim
<1>1. IInv => UniqueVictim
  BY OneVictim DEF IInv, UniqueVictim
<1> QED BY <1>1, Invariant, PTL

(* The invariant of the cache, its parts together: whatever Set, Get,      *)
(* Evict, Clear and the clock do.                                          *)
THEOREM CacheInvariant == Spec => []Inv
BY TypeCorrect, CapacityKept, InsertionDistinct, VictimUnique, PTL DEF Inv

-----------------------------------------------------------------------------
(* What an entry holds is what the last Set of its key stored.             *)
Agree(m, last) ==
  \A k \in DOMAIN m :
    /\ k \in DOMAIN last
    /\ m[k].value = last[k].value
    /\ m[k].expireAt = last[k].expireAt

(* How a step that is not an insertion treats entries: an entry that is    *)
(* still there is as it was.                                               *)
Keeps(m, n) == DOMAIN n \subseteq DOMAIN m /\ \A k \in DOMAIN n : n[k] = m[k]

LEMMA CleanedKeeps == ASSUME NEW m, NEW t PROVE Keeps(m, Cleaned(m, t))
BY DEF Cleaned, Without, Restrict, Keeps

LEMMA EvictKeeps == ASSUME NEW m, NEW r \in EvictOne(m) PROVE Keeps(m, r)
<1>1. CASE DOMAIN m = {}
  BY <1>1 DEF EvictOne, Keeps
<1>2. CASE DOMAIN m # {}
  <2>1. PICK k \in Victims(m) : r = Without(m, {k})
    BY <1>2 DEF EvictOne
  <2> QED BY <2>1 DEF Without, Restrict, Keeps
<1> QED BY <1>1, <1>2

(* Every step but a hit and a Set drops entries and changes none.          *)
LEMMA OtherKeeps ==
  ASSUME Size \/ Clear \/ Evict \/ Tick \/ (\E k \in Keys : GetMissing(k) \/ GetExpired(k))
  PROVE  Keeps(items, items')
<1>1. CASE Size
  BY <1>1, CleanedKeeps DEF Size
<1>2. CASE Clear
  BY <1>2 DEF Clear, ClearedItems, Keeps
<1>3. CASE Evict
  <2>1. Keeps(Cleaned(items, clock), items')
    BY <1>3, EvictKeeps DEF Evict
  <2>2. Keeps(items, Cleaned(items, clock))
    BY CleanedKeeps
  <2> QED BY <2>1, <2>2 DEF Keeps
<1>4. CASE Tick
  BY <1>4 DEF Tick, Keeps
<1>5. ASSUME NEW k \in Keys, GetMissing(k) PROVE Keeps(items, items')
  BY <1>5 DEF GetMissing, Keeps
<1>6. ASSUME NEW k \in Keys, GetExpired(k) PROVE Keeps(items, items')
  BY <1>6 DEF GetExpired, Without, Restrict, Keeps
<1> QED BY <1>1, <1>2, <1>3, <1>4, <1>5, <1>6

(* What a Set of k leaves: the entry of k as stored, with the old Get      *)
(* count or none, and the other entries as they were.                      *)
LEMMA SetEffect ==
  ASSUME IInv, NEW k \in Keys, NEW v \in Values, NEW ttl \in TTLs, Set(k, v, ttl)
  PROVE  /\ k \in DOMAIN lastSet' /\ k \in DOMAIN items'
         /\ items'[k].value = lastSet'[k].value
         /\ items'[k].expireAt = lastSet'[k].expireAt
         /\ items'[k].gets = 0 \/ (k \in DOMAIN items /\ items'[k].gets = items[k].gets)
         /\ \A j \in DOMAIN items' \ {k} : j \in DOMAIN items /\ items'[j] = items[j]
         /\ \A j \in DOMAIN lastSet \ {k} : j \in DOMAIN lastSet' /\ lastSet'[j] = lastSet[j]
<1> DEFINE m == Cleaned(items, clock)
<1>1. Keeps(items, m) /\ Sound(m, seq)
  BY CleanedKeeps, CleanedSound DEF IInv
<1> HIDE DEF m
<1>2. PICK later \in clock..MaxTime :
        /\ lastSet' = Inserted(lastSet, k, [value |-> v, expireAt |-> Deadline(ttl, later)])
        /\ \/ k \in DOMAIN m /\ items' = Rewritten(m, k, v, ttl, later)
           \/ /\ k \notin DOMAIN m
              /\ \E r \in IF Full(m) THEN EvictOne(m) ELSE {m} :
                   items' = Inserted(r, k, [value |-> v, expireAt |-> Deadline(ttl, later),
                                            gets |-> 0, inserted |-> Stamp])
  BY DEF Set, m
<1>3. /\ k \in DOMAIN lastSet'
      /\ lastSet'[k].value = v /\ lastSet'[k].expireAt = Deadline(ttl, later)
      /\ \A j \in DOMAIN lastSet \ {k} : j \in DOMAIN lastSet' /\ lastSet'[j] = lastSet[j]
  BY <1>2 DEF Inserted
<1>4. CASE k \in DOMAIN m /\ items' = Rewritten(m, k, v, ttl, later)
  <2> DEFINE e == Updated(m[k], v, ttl, later)
  <2>1. m[k] \in Entry /\ m \in [DOMAIN m -> Entry] /\ m[k] = items[k] /\ k \in DOMAIN items
    BY <1>1, <1>4 DEF Sound, Keeps
  <2>2. e.value = v /\ e.expireAt = Deadline(ttl, later) /\ e.gets = items[k].gets
    BY <2>1 DEF Updated, Entry
  <2> HIDE DEF e
  <2>3. DOMAIN items' = DOMAIN m /\ items'[k] = e /\ \A j \in DOMAIN m \ {k} : items'[j] = m[j]
    BY <1>4, <2>1 DEF Rewritten, e
  <2>4. k \in DOMAIN items' /\ k \in DOMAIN items /\ items'[k].gets = items[k].gets
    BY <1>4, <2>1, <2>2, <2>3
  <2>5. items'[k].value = lastSet'[k].value /\ items'[k].expireAt = lastSet'[k].expireAt
    BY <1>3, <2>2, <2>3
  <2>6. \A j \in DOMAIN items' \ {k} : j \in DOMAIN items /\ items'[j] = items[j]
    BY <1>1, <2>3 DEF Keeps
  <2> QED BY <1>3, <2>4, <2>5, <2>6
<1>5. CASE \E r \in IF Full(m) THEN EvictOne(m) ELSE {m} :
             items' = Inserted(r, k, [value |-> v, expireAt |-> Deadline(ttl, later),
                                      gets |-> 0, inserted |-> Stamp])
  <2> DEFINE e == [value |-> v, expireAt |-> Deadline(ttl, later), gets |-> 0, inserted |-> Stamp]
  <2>1. PICK r \in IF Full(m) THEN EvictOne(m) ELSE {m} : items' = Inserted(r, k, e)
    BY <1>5
  <2>2. e.value = v /\ e.expireAt = Deadline(ttl, later) /\ e.gets = 0
    OBVIOUS
  <2> HIDE DEF e
  <2>3. Keeps(m, r)
    BY <2>1, EvictKeeps DEF Keeps
  <2>4. DOMAIN items' = DOMAIN r \cup {k} /\ items'[k] = e /\ \A j \in DOMAIN r \ {k} : items'[j] = r[j]
    BY <2>1 DEF Inserted
  <2> QED BY <1>1, <1>3, <2>2, <2>3, <2>4 DEF Keeps
<1> QED BY <1>2, <1>4, <1>5

LEMMA NextAgree == IInv /\ Agree(items, lastSet) /\ [Next]_vars => Agree(items, lastSet)'
<1> SUFFICES ASSUME IInv, Agree(items, lastSet), [Next]_vars
             PROVE  Agree(items', lastSet')
  OBVIOUS
<1>1. ASSUME NEW k \in Keys, GetHit(k) PROVE Agree(items', lastSet')
  <2>1. items[k] \in Entry /\ k \in DOMAIN items
    BY <1>1 DEF GetHit, IInv, Sound
  <2>2. items' = [items EXCEPT ![k] = [items[k] EXCEPT !.gets = @ + 1]] /\ lastSet' = lastSet
    BY <1>1 DEF GetHit
  <2>3. /\ DOMAIN items' = DOMAIN items
        /\ \A j \in DOMAIN items : items'[j].value = items[j].value
                                    /\ items'[j].expireAt = items[j].expireAt
    BY <2>1, <2>2 DEF IInv, Sound, Entry
  <2> QED BY <2>2, <2>3 DEF Agree
<1>2. ASSUME NEW k \in Keys, NEW v \in Values, NEW ttl \in TTLs, Set(k, v, ttl)
      PROVE  Agree(items', lastSet')
  BY <1>2, SetEffect DEF Agree
<1>3. CASE Clear
  BY <1>3 DEF Clear, ClearedItems, Agree
<1>4. CASE Size \/ Evict \/ Tick \/ (\E k \in Keys : GetMissing(k) \/ GetExpired(k))
  <2>1. Keeps(items, items')
    BY <1>4, OtherKeeps
  <2>2. lastSet' = lastSet
    BY <1>4 DEF Size, Evict, Tick, GetMissing, GetExpired
  <2> QED BY <2>1, <2>2 DEF Keeps, Agree
<1>5. CASE UNCHANGED vars
  BY <1>5 DEF vars, Agree
<1> QED BY <1>1, <1>2, <1>3, <1>4, <1>5 DEF Next

(* A Get returns the value the last Set of its key stored, and only before *)
(* the deadline that Set gave it, whatever was evicted, expired, cleared   *)
(* or stored again in between (main.go, Get and Set).                      *)
THEOREM ReadsFresh == Spec => FreshRead
<1> DEFINE Fresh ==
      \A k \in Keys : Hit(k) =>
        /\ k \in DOMAIN lastSet
        /\ ret' = [key |-> k, value |-> lastSet[k].value]
        /\ ~Expired(lastSet[k], clock)
<1>1. Init => Agree(items, lastSet)
  BY DEF Init, Agree
<1>2. IInv /\ Agree(items, lastSet) /\ [Next]_vars => [Fresh]_vars
  <2> SUFFICES ASSUME IInv, Agree(items, lastSet), Next, NEW k \in Keys, Hit(k)
               PROVE  /\ k \in DOMAIN lastSet
                      /\ ret' = [key |-> k, value |-> lastSet[k].value]
                      /\ ~Expired(lastSet[k], clock)
    OBVIOUS
  <2>1. /\ k \in DOMAIN items /\ k \in DOMAIN items'
        /\ items'[k].gets = items[k].gets + 1
        /\ items[k].gets \in Nat
    BY RedisAssumption DEF Hit, IInv, Sound, Entry
  <2>2. ~Keeps(items, items')
    BY <2>1 DEF Keeps
  <2>3. ASSUME NEW j \in Keys, NEW v \in Values, NEW ttl \in TTLs, Set(j, v, ttl) PROVE FALSE
    <3>1. CASE j = k
      BY <2>1, <2>3, <3>1, SetEffect
    <3>2. CASE j # k
      BY <2>1, <2>3, <3>2, SetEffect
    <3> QED BY <3>1, <3>2
  <2>4. PICK j \in Keys : GetHit(j)
    BY <2>2, <2>3, OtherKeeps DEF Next
  <2>5. j = k
    BY <2>1, <2>4 DEF GetHit, IInv, Sound
  <2>6. /\ ret' = [key |-> k, value |-> items[k].value]
        /\ ~Expired(items[k], clock)
    BY <2>4, <2>5 DEF GetHit
  <2>7. /\ k \in DOMAIN lastSet
        /\ items[k].value = lastSet[k].value
        /\ items[k].expireAt = lastSet[k].expireAt
    BY <2>1 DEF Agree
  <2> QED BY <2>6, <2>7 DEF Expired
<1> QED BY <1>1, <1>2, InitIInv, NextIInv, NextAgree, PTL DEF Spec, FreshRead

-----------------------------------------------------------------------------
(* Cleaning leaves exactly the entries that have not expired.              *)
LEMMA CleanedIsLive ==
  ASSUME NEW m, m = Cleaned(items, clock)
  PROVE  DOMAIN m = LiveNow /\ \A j \in LiveNow : m[j] = items[j]
BY DEF Cleaned, Without, Restrict, LiveNow

(* Evicting from the entries that have not expired drops one, the coldest. *)
LEMMA EvictsColdest ==
  ASSUME NEW r \in EvictOne(Cleaned(items, clock)), NEW k \in LiveNow
  PROVE  \E q \in LiveNow : /\ DOMAIN r = LiveNow \ {q}
                           /\ \A j \in LiveNow : ~Colder(items[j], items[q])
<1> DEFINE m == Cleaned(items, clock)
<1>1. DOMAIN m = LiveNow /\ \A j \in LiveNow : m[j] = items[j]
  BY CleanedIsLive
<1> HIDE DEF m
<1>2. PICK q \in Victims(m) : r = Without(m, {q})
  BY <1>1 DEF EvictOne, m
<1>3. DOMAIN r = LiveNow \ {q}
  BY <1>1, <1>2 DEF Without, Restrict
<1>4. q \in LiveNow /\ \A j \in LiveNow : ~Colder(items[j], items[q])
  BY <1>1 DEF Victims
<1> QED BY <1>3, <1>4

(* A valid entry gives way to no expired one: it is dropped only by Clear, *)
(* or as the coldest of the valid entries, by Evict or by a Set that finds *)
(* all slots taken by valid entries (main.go, Set and evictOneLocked).     *)
THEOREM ColdestDropped == Spec => DropsOnlyColdest
<1> DEFINE Justified(k) ==
      \/ items' = ClearedItems /\ seq' = 0
      \/ /\ \A j \in LiveNow : ~Colder(items[j], items[k])
         /\ LiveNow \ DOMAIN items' = {k}
         /\ seq' # seq => Cardinality(LiveNow) = capacity
    Only == \A k \in LiveNow : k \notin DOMAIN items' => Justified(k)
<1>1. IInv /\ [Next]_vars => [Only]_vars
  <2> SUFFICES ASSUME IInv, Next, NEW k \in LiveNow, k \notin DOMAIN items'
               PROVE  Justified(k)
    OBVIOUS
  <2> DEFINE m == Cleaned(items, clock)
  <2>1. k \in DOMAIN items /\ ~Expired(items[k], clock)
    BY DEF LiveNow
  <2>2. DOMAIN m = LiveNow
    BY CleanedIsLive
  <2> HIDE DEF m
  <2>3. ASSUME NEW j \in Keys, GetMissing(j) \/ GetExpired(j) \/ GetHit(j) PROVE FALSE
    BY <2>1, <2>3 DEF GetMissing, GetExpired, GetHit, Without, Restrict
  <2>4. ASSUME NEW j \in Keys, NEW v \in Values, NEW ttl \in TTLs, Set(j, v, ttl)
        PROVE  Justified(k)
    <3>1. PICK later \in clock..MaxTime :
            \/ j \in DOMAIN m /\ items' = Rewritten(m, j, v, ttl, later)
            \/ /\ j \notin DOMAIN m
               /\ \E r \in IF Full(m) THEN EvictOne(m) ELSE {m} :
                    items' = Inserted(r, j, [value |-> v, expireAt |-> Deadline(ttl, later),
                                             gets |-> 0, inserted |-> Stamp])
      BY <2>4 DEF Set, m
    <3>2. ~(items' = Rewritten(m, j, v, ttl, later))
      BY <2>2 DEF Rewritten
    <3>3. PICK r \in IF Full(m) THEN EvictOne(m) ELSE {m} : DOMAIN items' = DOMAIN r \cup {j}
      BY <3>1, <3>2 DEF Inserted
    <3>4. Full(m) /\ r \in EvictOne(m)
      BY <2>2, <3>3
    <3>5. PICK q \in LiveNow : /\ DOMAIN r = LiveNow \ {q}
                               /\ \A i \in LiveNow : ~Colder(items[i], items[q])
      BY <3>4, EvictsColdest DEF m
    <3>6. q = k /\ j \notin LiveNow /\ LiveNow \ DOMAIN items' = {k}
      BY <2>2, <3>1, <3>2, <3>3, <3>5
    <3>7. Cardinality(LiveNow) = capacity
      <4>1. IsFiniteSet(LiveNow) /\ Cardinality(LiveNow) <= capacity
        BY <2>2, CleanedSound DEF IInv, Sound, m
      <4>2. Cardinality(LiveNow) \in Nat
        BY <4>1, FS_CardinalityType
      <4> QED BY <2>2, <3>4, <4>1, <4>2, CapacityPositive DEF Full
    <3> QED BY <3>5, <3>6, <3>7
  <2>5. CASE Size
    BY <2>2, <2>5 DEF Size, m
  <2>6. CASE Clear
    BY <2>6 DEF Clear
  <2>7. CASE Evict
    <3>1. seq' = seq /\ items' \in EvictOne(Cleaned(items, clock))
      BY <2>7 DEF Evict
    <3>2. PICK q \in LiveNow : /\ DOMAIN items' = LiveNow \ {q}
                               /\ \A i \in LiveNow : ~Colder(items[i], items[q])
      BY <3>1, EvictsColdest
    <3> QED BY <3>1, <3>2
  <2>8. CASE Tick
    BY <2>1, <2>8 DEF Tick
  <2> QED BY <2>3, <2>4, <2>5, <2>6, <2>7, <2>8 DEF Next
<1> QED BY <1>1, Invariant, PTL DEF Spec, DropsOnlyColdest
=============================================================================
