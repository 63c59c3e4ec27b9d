------------------------------ MODULE MiniRedis -----------------------------
(***************************************************************************)
(* The in-memory cache of mini-redis/main.go: keys with a time to live, a  *)
(* fixed capacity and eviction of the key with the fewest successful Gets. *)
(* DB.mu is held through every method, so a method is one step; but the    *)
(* clock is read again inside Set, and may have moved on by then.          *)
(***************************************************************************)
EXTENDS Integers, FiniteSets, Functions

CONSTANTS
  Keys, Values,
  Capacity,    (* the argument of NewDB                                    *)
  TTLs,        (* arguments of Set, in seconds                             *)
  MaxTime,     (* bound on the clock                                       *)
  MaxGets,     (* bound on the Gets counted for one entry                  *)
  MaxSeq       (* bound on the insertions between two Clears               *)

ASSUME RedisAssumption ==
  /\ Capacity \in Int
  /\ TTLs \subseteq Int
  /\ MaxTime \in Nat \ {0} /\ MaxGets \in Nat /\ MaxSeq \in Nat

VARIABLES
  items,    (* DB.items                                                    *)
  seq,      (* DB.seq                                                      *)
  clock,    (* time.Now()                                                  *)
  ret,      (* what the last Get returned                                  *)
  lastSet   (* history: value and deadline given by the last Set of a key  *)

vars == <<items, seq, clock, ret, lastSet>>

Never == 0                       (* the zero time.Time: no expiry          *)
Miss == [key |-> "none"]         (* an error, or no Get yet                *)

capacity == IF Capacity < 1 THEN 1 ELSE Capacity  (* NewDB                 *)

Entry == [value : Values, expireAt : Int, gets : 0..MaxGets, inserted : 1..MaxSeq]

Expired(e, t) == e.expireAt # Never /\ t > e.expireAt
Deadline(ttl, t) == IF ttl <= 0 THEN Never ELSE t + ttl

Without(m, D) == Restrict(m, DOMAIN m \ D)

(* cleanupExpiredLocked.                                                   *)
NotCleaned(m, t) == m
Cleaned(m, t) == Without(m, {k \in DOMAIN m : Expired(m[k], t)})

(* evictOneLocked ranges over a Go map, in any order, and keeps the first  *)
(* entry that no later one beats: with a tie any of them could go.         *)
ColderByGets(e, f) == e.gets < f.gets
Colder(e, f) == e.gets < f.gets \/ (e.gets = f.gets /\ e.inserted < f.inserted)
Victims(m) == {k \in DOMAIN m : \A j \in DOMAIN m : ~Colder(m[j], m[k])}
EvictOne(m) ==
  IF DOMAIN m = {} THEN {m} ELSE {Without(m, {k}) : k \in Victims(m)}

Full(m) == Cardinality(DOMAIN m) >= capacity

Init ==
  /\ items = [k \in {} |-> 0]
  /\ seq = 0
  /\ clock = 1
  /\ ret = Miss
  /\ lastSet = [k \in {} |-> 0]

-----------------------------------------------------------------------------
(* Get: an expired entry is deleted, a hit is counted.                     *)
GetMissing(k) ==
  /\ k \notin DOMAIN items
  /\ ret' = Miss
  /\ UNCHANGED <<items, seq, clock, lastSet>>

GetExpired(k) ==
  /\ k \in DOMAIN items
  /\ Expired(items[k], clock)
  /\ items' = Without(items, {k})
  /\ ret' = Miss
  /\ UNCHANGED <<seq, clock, lastSet>>

GetHit(k) ==
  /\ k \in DOMAIN items
  /\ ~Expired(items[k], clock)
  /\ items[k].gets < MaxGets
  /\ items' = [items EXCEPT ![k].gets = @ + 1]
  /\ ret' = [key |-> k, value |-> items[k].value]
  /\ UNCHANGED <<seq, clock, lastSet>>

(* Set of a key that is there: value and deadline change, the Get count    *)
(* and the place in the insertion order do not.                            *)
UpdatedKeepTTL(e, v, ttl, t) == [e EXCEPT !.value = v]
Updated(e, v, ttl, t) ==
  [e EXCEPT !.value = v, !.expireAt = Deadline(ttl, t)]
Rewritten(m, k, v, ttl, t) == [m EXCEPT ![k] = Updated(@, v, ttl, t)]

(* The insertion number of a new entry: seq, once it has been incremented. *)
Stamp == seq + 1

Inserted(m, k, e) == [j \in DOMAIN m \cup {k} |-> IF j = k THEN e ELSE m[j]]

Set(k, v, ttl) ==
  \E later \in clock..MaxTime :
    LET m == Cleaned(items, clock) IN
    /\ clock' = later
    /\ \/ /\ k \in DOMAIN m
          /\ items' = Rewritten(m, k, v, ttl, later)
          /\ UNCHANGED seq
       \/ /\ k \notin DOMAIN m
          /\ seq < MaxSeq
          /\ seq' = seq + 1
          /\ \E r \in IF Full(m) THEN EvictOne(m) ELSE {m} :
               items' = Inserted(r, k, [value |-> v, expireAt |-> Deadline(ttl, later),
                                        gets |-> 0, inserted |-> Stamp])
    /\ lastSet' = Inserted(lastSet, k, [value |-> v, expireAt |-> Deadline(ttl, later)])
    /\ UNCHANGED ret

Size ==
  /\ items' = Cleaned(items, clock)
  /\ UNCHANGED <<seq, clock, ret, lastSet>>

ClearedItems == [k \in {} |-> 0]
Clear ==
  /\ items' = ClearedItems
  /\ seq' = 0
  /\ lastSet' = [k \in {} |-> 0]
  /\ UNCHANGED <<clock, ret>>

Evict ==
  /\ items' \in EvictOne(Cleaned(items, clock))
  /\ UNCHANGED <<seq, clock, ret, lastSet>>

Tick ==
  /\ clock < MaxTime
  /\ clock' = clock + 1
  /\ UNCHANGED <<items, seq, ret, lastSet>>

Next ==
  \/ \E k \in Keys :
       \/ GetMissing(k) \/ GetExpired(k) \/ GetHit(k)
       \/ \E v \in Values, ttl \in TTLs : Set(k, v, ttl)
  \/ Size \/ Clear \/ Evict \/ Tick

Spec == Init /\ [][Next]_vars

-----------------------------------------------------------------------------
(* Properties.                                                             *)

(* Every variable stays in its type: an entry has an insertion number from *)
(* 1 on, and its Get count is a count.                                     *)
TypeOK ==
  /\ DOMAIN items \subseteq Keys
  /\ items \in [DOMAIN items -> Entry]
  /\ seq \in 0..MaxSeq
  /\ clock \in 1..MaxTime

(* The cache never holds more than its capacity, however Set, expiry,      *)
(* Evict and Clear are interleaved.                                        *)
WithinCapacity ==
  IsFiniteSet(DOMAIN items) /\ Cardinality(DOMAIN items) <= capacity

(* No two entries share an insertion number, and none is ahead of seq,     *)
(* although Clear starts the numbers again.                                *)
DistinctInsertion ==
  /\ \A k \in DOMAIN items : items[k].inserted <= seq
  /\ \A j, k \in DOMAIN items : items[j].inserted = items[k].inserted => j = k

(* Eviction is deterministic although it ranges over a Go map, in an order *)
(* that changes from run to run: there is exactly one victim.              *)
UniqueVictim == DOMAIN items # {} => \E k \in Keys : Victims(items) = {k}

(* The invariant of the cache: typed entries, no more of them than its     *)
(* capacity, with distinct insertion numbers and so one victim.            *)
Inv == TypeOK /\ WithinCapacity /\ DistinctInsertion /\ UniqueVictim

Hit(k) ==
  k \in DOMAIN items /\ k \in DOMAIN items' /\ items'[k].gets = items[k].gets + 1

(* A Get returns what the last Set of the key stored, and never after the  *)
(* deadline that Set gave it.                                              *)
FreshRead ==
  [][\A k \in Keys : Hit(k) =>
       /\ k \in DOMAIN lastSet
       /\ ret' = [key |-> k, value |-> lastSet[k].value]
       /\ ~Expired(lastSet[k], clock)]_vars

LiveNow == {k \in DOMAIN items : ~Expired(items[k], clock)}

(* An unexpired entry is dropped only by Clear, or as the coldest of the   *)
(* unexpired entries by Evict or by a Set that finds all slots taken by    *)
(* unexpired entries: expired keys never cost a valid one its place.       *)
DropsOnlyColdest ==
  [][\A k \in LiveNow : k \notin DOMAIN items' =>
       \/ items' = ClearedItems /\ seq' = 0
       \/ /\ \A j \in LiveNow : ~Colder(items[j], items[k])
          /\ LiveNow \ DOMAIN items' = {k}
          /\ seq' # seq => Cardinality(LiveNow) = capacity]_vars
=============================================================================
