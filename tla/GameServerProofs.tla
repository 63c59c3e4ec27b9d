-------------------------- MODULE GameServerProofs --------------------------
(***************************************************************************)
(* Proofs about game-server, for any players, maps, callers and channel    *)
(* capacities: a map's registry holds the players who are there, and a     *)
(* message reaches only players of the map it was sent in.                 *)
(***************************************************************************)
EXTENDS GameServer, SequenceTheorems, TLAPS

PacketOf(m) == [from : Players, map : {m}]

(* What a fan-out still has to offer the packet to are members of its map: *)
(* that they stay members until it is done is what the map's lock is for.  *)
FanShape ==
  fan \in [Maps -> [at : {"recv"}]
                   \cup [at : {"lock"}, packet : Packet]
                   \cup [at : {"send"}, packet : Packet, todo : SUBSET Players]]

FanInv == \A m \in Maps : /\ fan[m].at # "recv" => fan[m].packet.map = m
                          /\ fan[m].at = "send" => fan[m].todo \subseteq members[m]

\* The packets in a map's channel are that map's.
ChannelInv ==
  /\ channel \in [Maps -> Seq(Packet)] /\ inbox \in [Players -> Seq(Packet)]
  /\ \A m \in Maps : channel[m] \in Seq(PacketOf(m))

CallerShape ==
  caller \in [Callers -> [at : {"idle"}]
                         \cup [at : {"switch"}, player : Players, to : Maps, locks : Seq(Maps)]
                         \cup [at : {"put"}, player : Players, map : Maps]]

\* The maps a switch changes.
Touched(c) == {zone[caller[c].player], caller[c].to} \ {NoMap}

(* A switch holds the game's lock from its first step to its last, and of  *)
(* the maps it changes those it has not got to yet are in its list.        *)
SwitchInv ==
  \A c \in Callers : caller[c].at = "switch" =>
    /\ gameLock = c /\ caller[c].player \in connected
    /\ zone[caller[c].player] # caller[c].to
    /\ \A m \in Touched(c) :
         mapLock[m] = c \/ \E i \in 1..Len(caller[c].locks) : caller[c].locks[i] = m

PutInv == \A c \in Callers : caller[c].at = "put" => zone[caller[c].player] # NoMap

\* Not only when a map is free: the move itself is one step.
Registered == \A m \in Maps : members[m] = {p \in Players : zone[p] = m}

IInv == /\ TypeOK /\ FanShape /\ FanInv /\ ChannelInv /\ CallerShape
        /\ SwitchInv /\ PutInv /\ Registered

-----------------------------------------------------------------------------
LEMMA InitOK == Init => IInv
BY GameAssumption, EmptySeq
DEF GameAssumption, Init, IInv, TypeOK, Idle, Waiting, FanShape, FanInv, ChannelInv,
    CallerShape, SwitchInv, PutInv, Registered

LEMMA ConnectOK ==
  ASSUME IInv, NEW c \in Callers, NEW p \in Players, ConnectPlayer(c, p)
  PROVE  IInv'
BY GameAssumption
DEF GameAssumption, ConnectPlayer, IInv, TypeOK, FanShape, FanInv, ChannelInv,
    CallerShape, SwitchInv, PutInv, Registered, Touched

(* A new switch finds the game's lock free: no other is under way.         *)
LEMMA BeginSwitchOK ==
  ASSUME IInv, NEW c \in Callers, NEW p \in Players, NEW m \in Maps, BeginSwitch(c, p, m)
  PROVE  IInv'
<1> DEFINE state == [at |-> "switch", player |-> p, to |-> m, locks |-> Ordered(zone[p], m)]
<1> USE DEF IInv
<1>1. /\ caller[c] = Idle /\ gameLock = NoCaller /\ switches < MaxSwitches
      /\ p \in connected /\ zone[p] # m
      /\ gameLock' = c /\ switches' = switches + 1
      /\ caller' = [caller EXCEPT ![c] = state]
      /\ UNCHANGED <<moves, mapLock, channel, inbox, fan, sent>>
  BY DEF BeginSwitch, Goto
<1>2. /\ Ordered(zone[p], m) \in Seq(Maps)
      /\ \A k \in {zone[p], m} \ {NoMap} :
           \E i \in 1..Len(Ordered(zone[p], m)) : Ordered(zone[p], m)[i] = k
  <2>1. zone[p] \in Maps \cup {NoMap}
    BY DEF TypeOK
  <2>2. CASE zone[p] = NoMap
    BY <2>2 DEF Ordered
  <2>3. CASE zone[p] # NoMap /\ zone[p] < m
    <3>1. Ordered(zone[p], m) = <<zone[p], m>>
      BY <2>3 DEF Ordered
    <3> QED BY <2>1, <2>3, <3>1
  <2>4. CASE zone[p] # NoMap /\ ~(zone[p] < m)
    <3>1. Ordered(zone[p], m) = <<m, zone[p]>>
      BY <2>4 DEF Ordered
    <3> QED BY <2>1, <2>4, <3>1
  <2> QED BY <2>2, <2>3, <2>4
<1>3. TypeOK' /\ Registered'
  BY <1>1, GameAssumption DEF TypeOK, Registered, moves, GameAssumption
<1>4. FanShape' /\ FanInv' /\ ChannelInv'
  BY <1>1 DEF FanShape, FanInv, ChannelInv, moves
<1>5. CallerShape'
  BY <1>1, <1>2 DEF CallerShape
<1>6. SwitchInv'
  <2> SUFFICES ASSUME NEW d \in Callers, caller'[d].at = "switch"
               PROVE  /\ gameLock' = d /\ caller'[d].player \in connected'
                      /\ zone'[caller'[d].player] # caller'[d].to
                      /\ \A k \in Touched(d)' : mapLock'[k] = d
                           \/ \E i \in 1..Len(caller'[d].locks) : caller'[d].locks[i] = k
    BY DEF SwitchInv
  <2>1. d = c
    BY <1>1, GameAssumption DEF SwitchInv, CallerShape, GameAssumption
  <2>2. caller'[d] = state
    BY <1>1, <2>1 DEF CallerShape
  <2>3. Touched(d)' = {zone[p], m} \ {NoMap}
    BY <1>1, <2>2 DEF Touched, moves
  <2>4. caller'[d].locks = Ordered(zone[p], m)
    BY <2>2
  <2>6. \A k \in Touched(d)' : \E i \in 1..Len(caller'[d].locks) : caller'[d].locks[i] = k
    <3> HIDE DEF IInv
    <3> QED BY <1>2, <2>3, <2>4
  <2>5. /\ gameLock' = d /\ caller'[d].player \in connected'
        /\ zone'[caller'[d].player] # caller'[d].to
    BY <1>1, <2>1, <2>2 DEF moves
  <2> QED BY <2>5, <2>6
<1>7. PutInv'
  BY <1>1 DEF PutInv, CallerShape, moves
<1> QED BY <1>3, <1>4, <1>5, <1>6, <1>7

(* The lock taken is the first of the list.                                *)
LEMMA LockMapOK ==
  ASSUME IInv, NEW c \in Callers, LockMap(c)
  PROVE  IInv'
<1> DEFINE s == caller[c].locks
<1> USE DEF IInv
<1>1. /\ caller[c].at = "switch" /\ s # <<>> /\ mapLock[Head(s)] = NoCaller
      /\ mapLock' = [mapLock EXCEPT ![Head(s)] = c]
      /\ caller' = [caller EXCEPT ![c] = [caller[c] EXCEPT !.locks = Tail(s)]]
      /\ UNCHANGED <<moves, gameLock, channel, inbox, fan, sent, switches>>
  BY DEF LockMap, Goto
<1>2. /\ caller[c] \in [at : {"switch"}, player : Players, to : Maps, locks : Seq(Maps)]
      /\ s \in Seq(Maps) /\ Head(s) \in Maps /\ Tail(s) \in Seq(Maps)
      /\ \A i \in 1..Len(s) : \/ s[i] = Head(s)
                              \/ i - 1 \in 1..Len(Tail(s)) /\ Tail(s)[i - 1] = s[i]
  <2>1. caller[c] \in [at : {"switch"}, player : Players, to : Maps, locks : Seq(Maps)]
    BY <1>1 DEF CallerShape
  <2>2. s \in Seq(Maps) /\ s # <<>>
    BY <2>1, <1>1
  <2> HIDE DEF s, IInv
  <2>3. Len(s) \in Nat /\ Head(s) = s[1] /\ Head(s) \in Maps
    BY <2>2, HeadTailProperties, LenProperties
  <2>4. Tail(s) \in Seq(Maps) /\ Len(Tail(s)) = Len(s) - 1
        /\ \A i \in 1..Len(Tail(s)) : Tail(s)[i] = s[i + 1]
    BY <2>2, HeadTailProperties
  <2>5. ASSUME NEW i \in 1..Len(s)
        PROVE  \/ s[i] = Head(s)
               \/ i - 1 \in 1..Len(Tail(s)) /\ Tail(s)[i - 1] = s[i]
    <3>1. CASE i = 1
      <4>1. s[i] = s[1]
        BY <3>1
      <4>2. s[i] = Head(s)
        BY <2>3, <4>1
      <4> QED BY <4>2
    <3>2. CASE i # 1
      <4>1. i - 1 \in 1..Len(Tail(s)) /\ (i - 1) + 1 = i
        BY <2>3, <2>4, <3>2
      <4> QED BY <2>4, <4>1
    <3> QED BY <3>1, <3>2
  <2> QED BY <2>1, <2>2, <2>3, <2>4, <2>5
<1>3. TypeOK'
  <2>1. \A m \in Maps : (mapLock'[m] = m) <=> (fan'[m].at = "send")
    BY <1>1, <1>2, GameAssumption DEF TypeOK, GameAssumption
  <2> QED BY <1>1, <1>2, <2>1 DEF TypeOK, moves
<1>4. FanShape' /\ FanInv' /\ ChannelInv' /\ Registered'
  BY <1>1 DEF FanShape, FanInv, ChannelInv, Registered, moves
<1>5. CallerShape'
  BY <1>1, <1>2 DEF CallerShape
<1>6. SwitchInv'
  <2> SUFFICES ASSUME NEW d \in Callers, caller'[d].at = "switch"
               PROVE  /\ gameLock' = d /\ caller'[d].player \in connected'
                      /\ zone'[caller'[d].player] # caller'[d].to
                      /\ \A k \in Touched(d)' : mapLock'[k] = d
                           \/ \E i \in 1..Len(caller'[d].locks) : caller'[d].locks[i] = k
    BY DEF SwitchInv
  <2>1. d = c
    BY <1>1 DEF SwitchInv, CallerShape
  <2>2. /\ caller'[d].player = caller[c].player /\ caller'[d].to = caller[c].to
        /\ caller'[d].locks = Tail(s)
    BY <1>1, <1>2, <2>1 DEF CallerShape
  <2>3. Touched(d)' = Touched(c) /\ Touched(c) \subseteq Maps
    BY <1>1, <1>2, <2>2 DEF Touched, moves, TypeOK
  <2>4. ASSUME NEW k \in Touched(c)
        PROVE  mapLock'[k] = c \/ \E i \in 1..Len(Tail(s)) : Tail(s)[i] = k
    <3>1. CASE mapLock[k] = c \/ Head(s) = k
      BY <1>1, <2>3, <3>1 DEF TypeOK
    <3>2. CASE mapLock[k] # c /\ Head(s) # k
      <4>1. PICK i \in 1..Len(s) : s[i] = k
        BY <1>1, <3>2 DEF SwitchInv
      <4> QED BY <1>2, <3>2, <4>1
    <3> QED BY <3>1, <3>2
  <2> QED BY <1>1, <2>1, <2>2, <2>3, <2>4 DEF SwitchInv, moves
<1>7. PutInv'
  BY <1>1, <1>2 DEF PutInv, CallerShape, moves
<1> QED BY <1>3, <1>4, <1>5, <1>6, <1>7

(* The move touches only maps whose locks its switch holds: no fan-out is  *)
(* offering a packet there.                                                *)
LEMMA MoveOK ==
  ASSUME IInv, NEW c \in Callers, Move(c)
  PROVE  IInv'
<1> DEFINE p == caller[c].player
           to == caller[c].to
<1>0. TypeOK /\ FanShape /\ FanInv /\ ChannelInv /\ CallerShape /\ SwitchInv /\ PutInv
      /\ Registered
  BY DEF IInv
<1>1. /\ caller[c].at = "switch" /\ caller[c].locks = <<>>
      /\ members' = Moved(p, to)
      /\ zone' = [zone EXCEPT ![p] = to]
      /\ mapLock' = [m \in Maps |-> IF mapLock[m] = c THEN NoCaller ELSE mapLock[m]]
      /\ gameLock' = NoCaller
      /\ caller' = [caller EXCEPT ![c] = [at |-> "idle"]]
      /\ UNCHANGED <<connected, channel, inbox, fan, sent, switches>>
  BY DEF Move, Goto, Idle
<1>2. p \in Players /\ p \in connected /\ to \in Maps /\ zone[p] # to
  BY <1>0, <1>1 DEF CallerShape, SwitchInv
<1>3. \A m \in Maps : m \in {zone[p], to} => mapLock[m] = c
  <2> SUFFICES ASSUME NEW m \in Maps, m \in {zone[p], to}, mapLock[m] # c PROVE FALSE
    OBVIOUS
  <2>1. m \in Touched(c)
    BY GameAssumption DEF Touched, GameAssumption
  <2>2. PICK i \in 1..Len(caller[c].locks) : TRUE
    BY <1>0, <1>1, <2>1 DEF SwitchInv
  <2> QED BY <1>1, <2>2
<1>4. \A m \in Maps : fan[m].at = "send" => m \notin {zone[p], to}
  BY <1>0, <1>3, GameAssumption DEF TypeOK, GameAssumption
<1>5. TypeOK'
  <2>1. members' \in [Maps -> SUBSET connected]
    BY <1>0, <1>1, <1>2 DEF Moved, TypeOK
  <2>2. \A m \in Maps : (mapLock'[m] = m) <=> (fan'[m].at = "send")
    BY <1>0, <1>1, GameAssumption DEF TypeOK, GameAssumption
  <2>3. zone' \in [Players -> Maps \cup {NoMap}]
    BY <1>0, <1>1, <1>2 DEF TypeOK
  <2> QED BY <1>0, <1>1, <2>1, <2>2, <2>3 DEF TypeOK
<1>6. FanShape' /\ ChannelInv'
  BY <1>0, <1>1 DEF FanShape, ChannelInv
<1>7. FanInv'
  BY <1>0, <1>1, <1>4 DEF FanInv, Moved
<1>8. CallerShape'
  BY <1>0, <1>1 DEF CallerShape
<1>9. SwitchInv'
  BY <1>0, <1>1 DEF CallerShape, SwitchInv
<1>10. PutInv'
  <2>1. \A q \in Players : zone[q] # NoMap => zone'[q] # NoMap
    BY <1>0, <1>1, <1>2, GameAssumption DEF TypeOK, GameAssumption
  <2> QED BY <1>0, <1>1, <2>1 DEF PutInv, CallerShape
<1>11. Registered'
  BY <1>0, <1>1, <1>2 DEF Registered, Moved, TypeOK
<1> QED BY <1>5, <1>6, <1>7, <1>8, <1>9, <1>10, <1>11 DEF IInv

-----------------------------------------------------------------------------
LEMMA BeginSendOK ==
  ASSUME IInv, NEW c \in Callers, NEW p \in Players, BeginSend(c, p)
  PROVE  IInv'
<1>1. zone[p] \in Maps
  BY DEF IInv, TypeOK, BeginSend
<1>2. TypeOK' /\ Registered' /\ FanShape' /\ FanInv' /\ ChannelInv'
  BY GameAssumption DEF IInv, BeginSend, TypeOK, Registered, FanShape, FanInv, ChannelInv,
                        moves, GameAssumption
<1>3. CallerShape'
  BY <1>1 DEF IInv, BeginSend, Goto, CallerShape
<1>4. SwitchInv' /\ PutInv'
  BY DEF IInv, BeginSend, Goto, CallerShape, SwitchInv, PutInv, Touched, moves
<1> QED BY <1>2, <1>3, <1>4 DEF IInv

(* Whichever of the two maps it reads, the packet is in the channel of the *)
(* map it names.                                                           *)
LEMMA PutOK ==
  ASSUME IInv, NEW c \in Callers, Put(c)
  PROVE  IInv'
<1>0. TypeOK /\ FanShape /\ FanInv /\ ChannelInv /\ CallerShape /\ SwitchInv /\ PutInv
      /\ Registered
  BY DEF IInv
<1>1. /\ caller[c].at = "put"
      /\ caller' = [caller EXCEPT ![c] = [at |-> "idle"]]
      /\ UNCHANGED <<moves, mapLock, gameLock, inbox, fan, sent, switches>>
  BY DEF Put, Goto, Idle
<1>2. caller[c].player \in Players /\ caller[c].map \in Maps
      /\ zone[caller[c].player] \in Maps
  BY <1>0, <1>1 DEF CallerShape, PutInv, TypeOK
<1>3. /\ channel' \in [Maps -> Seq(Packet)]
      /\ \A k \in Maps : channel'[k] \in Seq(PacketOf(k)) /\ Len(channel'[k]) <= MapBuffer
  <2> DEFINE packet(m) == [from |-> caller[c].player, map |-> m]
  <2>1. PICK m \in Maps :
          \/ UNCHANGED channel
          \/ Len(channel[m]) < MapBuffer
             /\ channel' = [channel EXCEPT ![m] = Append(channel[m], packet(m))]
    BY <1>2 DEF Put
  <2>2. CASE UNCHANGED channel
    BY <1>0, <2>2 DEF ChannelInv, TypeOK
  <2>3. CASE Len(channel[m]) < MapBuffer
             /\ channel' = [channel EXCEPT ![m] = Append(channel[m], packet(m))]
    <3>1. packet(m) \in Packet /\ packet(m) \in PacketOf(m)
      BY <1>2 DEF Packet, PacketOf
    <3>2. channel[m] \in Seq(Packet) /\ channel[m] \in Seq(PacketOf(m))
      BY <1>0 DEF ChannelInv
    <3> HIDE DEF packet
    <3>3. /\ Append(channel[m], packet(m)) \in Seq(Packet)
          /\ Append(channel[m], packet(m)) \in Seq(PacketOf(m))
          /\ Len(Append(channel[m], packet(m))) <= MapBuffer
      BY <2>3, <3>1, <3>2, AppendProperties, LenProperties, GameAssumption DEF GameAssumption
    <3> QED BY <1>0, <2>3, <3>3 DEF ChannelInv, TypeOK
  <2> QED BY <2>1, <2>2, <2>3
<1>4. TypeOK'
  BY <1>0, <1>1, <1>3 DEF TypeOK, moves
<1>5. FanShape' /\ FanInv' /\ ChannelInv' /\ Registered'
  BY <1>0, <1>1, <1>3 DEF FanShape, FanInv, ChannelInv, Registered, moves
<1>6. CallerShape'
  BY <1>0, <1>1 DEF CallerShape
<1>7. SwitchInv' /\ PutInv'
  BY <1>0, <1>1 DEF CallerShape, SwitchInv, PutInv, Touched, moves
<1> QED BY <1>4, <1>5, <1>6, <1>7 DEF IInv

-----------------------------------------------------------------------------
(* What a fan-out changes is its channel, its map's lock or an inbox; the  *)
(* rest of the invariant does not speak of them.                           *)
LEMMA TakeOK ==
  ASSUME IInv, NEW m \in Maps, Take(m)
  PROVE  IInv'
<1>0. TypeOK /\ FanShape /\ FanInv /\ ChannelInv /\ CallerShape /\ SwitchInv /\ PutInv
      /\ Registered
  BY DEF IInv
<1>1. /\ fan[m].at = "recv" /\ channel[m] # <<>>
      /\ fan' = [fan EXCEPT ![m] = [at |-> "lock", packet |-> Head(channel[m])]]
      /\ channel' = [channel EXCEPT ![m] = Tail(channel[m])]
      /\ UNCHANGED <<moves, mapLock, gameLock, inbox, caller, sent, switches>>
  BY DEF Take
<1>2. /\ Head(channel[m]) \in PacketOf(m) /\ Tail(channel[m]) \in Seq(PacketOf(m))
      /\ Head(channel[m]) \in Packet /\ Tail(channel[m]) \in Seq(Packet)
      /\ Len(Tail(channel[m])) <= MapBuffer
  <2>1. /\ channel[m] \in Seq(PacketOf(m)) /\ channel[m] \in Seq(Packet)
        /\ Len(channel[m]) <= MapBuffer
    BY <1>0 DEF ChannelInv, TypeOK
  <2>2. Len(Tail(channel[m])) = Len(channel[m]) - 1
    BY <1>1, <2>1, HeadTailProperties
  <2> QED BY <1>1, <2>1, <2>2, HeadTailProperties, LenProperties, GameAssumption
          DEF GameAssumption
<1>3. TypeOK'
  <2>1. \A k \in Maps : (mapLock'[k] = k) <=> (fan'[k].at = "send")
    BY <1>0, <1>1 DEF TypeOK, FanShape
  <2> QED BY <1>0, <1>1, <1>2, <2>1 DEF TypeOK, ChannelInv, moves
<1>4. FanShape'
  BY <1>0, <1>1, <1>2 DEF FanShape
<1>5. FanInv' /\ ChannelInv'
  BY <1>0, <1>1, <1>2 DEF FanInv, FanShape, ChannelInv, PacketOf, moves
<1>6. CallerShape' /\ SwitchInv' /\ PutInv' /\ Registered'
  BY <1>0, <1>1 DEF CallerShape, SwitchInv, PutInv, Registered, Touched, moves
<1> QED BY <1>3, <1>4, <1>5, <1>6 DEF IInv

LEMMA FanLockOK ==
  ASSUME IInv, NEW m \in Maps, FanLock(m)
  PROVE  IInv'
<1>0. TypeOK /\ FanShape /\ FanInv /\ ChannelInv /\ CallerShape /\ SwitchInv /\ PutInv
      /\ Registered
  BY DEF IInv
<1>1. /\ fan[m].at = "lock" /\ mapLock[m] = NoCaller
      /\ mapLock' = [mapLock EXCEPT ![m] = m]
      /\ fan' = [fan EXCEPT ![m] = [at |-> "send", packet |-> fan[m].packet,
                                    todo |-> members[m]]]
      /\ UNCHANGED <<moves, gameLock, channel, inbox, caller, sent, switches>>
  BY DEF FanLock
<1>2. fan[m].packet \in Packet /\ members[m] \in SUBSET Players
  BY <1>0, <1>1 DEF FanShape, TypeOK
<1>3. TypeOK'
  <2>1. \A k \in Maps : (mapLock'[k] = k) <=> (fan'[k].at = "send")
    BY <1>0, <1>1 DEF TypeOK, FanShape
  <2> QED BY <1>0, <1>1, <2>1 DEF TypeOK, moves
<1>4. FanShape' /\ FanInv'
  BY <1>0, <1>1, <1>2 DEF FanShape, FanInv, moves
<1>5. SwitchInv'
  <2>1. \A d \in Callers, k \in Maps : mapLock[k] = d => mapLock'[k] = d
    BY <1>0, <1>1, GameAssumption DEF TypeOK, FanShape, GameAssumption
  <2>2. \A d \in Callers : caller[d].at = "switch" =>
          Touched(d)' = Touched(d) /\ Touched(d) \subseteq Maps
    BY <1>0, <1>1 DEF Touched, CallerShape, TypeOK, moves
  <2> QED BY <1>0, <1>1, <2>1, <2>2 DEF SwitchInv, moves
<1>6. ChannelInv' /\ CallerShape' /\ PutInv' /\ Registered'
  BY <1>0, <1>1 DEF ChannelInv, CallerShape, PutInv, Registered, moves
<1> QED BY <1>3, <1>4, <1>5, <1>6 DEF IInv

\* One more message in an inbox that had room, or none.
LEMMA OfferAppends ==
  ASSUME TypeOK, ChannelInv, NEW p \in Players, NEW packet \in Packet, Offer(p, packet)
  PROVE  /\ inbox' \in [Players -> Seq(Packet)]
         /\ \A q \in Players :
              /\ Len(inbox'[q]) <= InboxBuffer
              /\ Len(inbox'[q]) > Len(inbox[q]) =>
                   /\ q = p /\ inbox'[q][Len(inbox'[q])] = packet
                   /\ p # packet.from /\ zone[p] = packet.map
<1>1. CASE UNCHANGED inbox
  BY <1>1 DEF ChannelInv, TypeOK
<1>2. CASE ~UNCHANGED inbox
  <2>1. /\ p # packet.from /\ zone[p] = packet.map /\ Len(inbox[p]) < InboxBuffer
        /\ inbox' = [inbox EXCEPT ![p] = Append(inbox[p], packet)]
    BY <1>2 DEF Offer
  <2>2. inbox[p] \in Seq(Packet) /\ Len(inbox[p]) \in Nat
    BY LenProperties DEF ChannelInv
  <2>3. /\ Append(inbox[p], packet) \in Seq(Packet)
        /\ Len(Append(inbox[p], packet)) = Len(inbox[p]) + 1
        /\ Append(inbox[p], packet)[Len(inbox[p]) + 1] = packet
    BY <2>2, AppendProperties
  <2>4. inbox'[p] = Append(inbox[p], packet) /\ inbox' \in [Players -> Seq(Packet)]
        /\ \A q \in Players \ {p} : inbox'[q] = inbox[q]
    BY <2>1, <2>3 DEF ChannelInv
  <2>5. Len(inbox'[p]) <= InboxBuffer
    BY <2>1, <2>2, <2>3, <2>4, GameAssumption DEF GameAssumption
  <2>6. ASSUME NEW q \in Players, q # p
        PROVE  Len(inbox'[q]) <= InboxBuffer /\ ~(Len(inbox'[q]) > Len(inbox[q]))
    <3>1. inbox'[q] = inbox[q] /\ Len(inbox[q]) \in Nat /\ Len(inbox[q]) <= InboxBuffer
      BY <2>4, <2>6, LenProperties DEF TypeOK, ChannelInv
    <3> QED BY <3>1
  <2> QED BY <2>1, <2>3, <2>4, <2>5, <2>6
<1> QED BY <1>1, <1>2

LEMMA FanSendOK ==
  ASSUME IInv, NEW m \in Maps, FanSend(m)
  PROVE  IInv'
<1>0. TypeOK /\ FanShape /\ FanInv /\ ChannelInv /\ CallerShape /\ SwitchInv /\ PutInv
      /\ Registered
  BY DEF IInv
<1>1. PICK p \in fan[m].todo :
        /\ fan[m].at = "send" /\ Offer(p, fan[m].packet)
        /\ fan' = [fan EXCEPT ![m] = [fan[m] EXCEPT !.todo = fan[m].todo \ {p}]]
        /\ UNCHANGED <<moves, mapLock, gameLock, channel, caller, sent, switches>>
  BY DEF FanSend
<1>2. /\ fan[m] \in [at : {"send"}, packet : Packet, todo : SUBSET Players]
      /\ p \in Players /\ fan[m].packet \in Packet
  <2>1. fan[m] \in [at : {"send"}, packet : Packet, todo : SUBSET Players]
    BY <1>0, <1>1 DEF FanShape
  <2> QED BY <2>1
<1>3. /\ inbox' \in [Players -> Seq(Packet)]
      /\ \A q \in Players : Len(inbox'[q]) <= InboxBuffer
  BY <1>0, <1>1, <1>2, OfferAppends
<1>4. TypeOK'
  <2>1. \A k \in Maps : (mapLock'[k] = k) <=> (fan'[k].at = "send")
    BY <1>0, <1>1, <1>2 DEF TypeOK, FanShape
  <2> QED BY <1>0, <1>1, <1>3, <2>1 DEF TypeOK, moves
<1>5. FanShape' /\ FanInv'
  BY <1>0, <1>1, <1>2 DEF FanShape, FanInv, moves
<1>6. ChannelInv' /\ CallerShape' /\ SwitchInv' /\ PutInv' /\ Registered'
  BY <1>0, <1>1, <1>3
  DEF ChannelInv, CallerShape, SwitchInv, PutInv, Registered, Touched, moves
<1> QED BY <1>4, <1>5, <1>6 DEF IInv

LEMMA FanUnlockOK ==
  ASSUME IInv, NEW m \in Maps, FanUnlock(m)
  PROVE  IInv'
<1>0. TypeOK /\ FanShape /\ FanInv /\ ChannelInv /\ CallerShape /\ SwitchInv /\ PutInv
      /\ Registered
  BY DEF IInv
<1>1. /\ fan[m].at = "send" /\ mapLock' = [mapLock EXCEPT ![m] = NoCaller]
      /\ fan' = [fan EXCEPT ![m] = [at |-> "recv"]]
      /\ UNCHANGED <<moves, gameLock, channel, inbox, caller, sent, switches>>
  BY DEF FanUnlock, Waiting
<1>2. TypeOK'
  <2>1. \A k \in Maps : (mapLock'[k] = k) <=> (fan'[k].at = "send")
    BY <1>0, <1>1, GameAssumption DEF TypeOK, FanShape, GameAssumption
  <2> QED BY <1>0, <1>1, <2>1 DEF TypeOK, moves
<1>3. FanShape' /\ FanInv'
  BY <1>0, <1>1 DEF FanShape, FanInv, moves
<1>4. SwitchInv'
  <2>1. \A d \in Callers, k \in Maps : mapLock[k] = d => mapLock'[k] = d
    BY <1>0, <1>1, GameAssumption DEF TypeOK, FanShape, GameAssumption
  <2>2. \A d \in Callers : caller[d].at = "switch" =>
          Touched(d)' = Touched(d) /\ Touched(d) \subseteq Maps
    BY <1>0, <1>1 DEF Touched, CallerShape, TypeOK, moves
  <2> QED BY <1>0, <1>1, <2>1, <2>2 DEF SwitchInv, moves
<1>5. ChannelInv' /\ CallerShape' /\ PutInv' /\ Registered'
  BY <1>0, <1>1 DEF ChannelInv, CallerShape, PutInv, Registered, moves
<1> QED BY <1>2, <1>3, <1>4, <1>5 DEF IInv

LEMMA ReadInboxOK ==
  ASSUME IInv, NEW p \in Players, ReadInbox(p)
  PROVE  /\ IInv' /\ \A q \in Players : Len(inbox'[q]) <= Len(inbox[q])
<1>0. TypeOK /\ FanShape /\ FanInv /\ ChannelInv /\ CallerShape /\ SwitchInv /\ PutInv
      /\ Registered
  BY DEF IInv
<1>1. /\ inbox[p] # <<>> /\ inbox' = [inbox EXCEPT ![p] = Tail(inbox[p])]
      /\ UNCHANGED <<moves, mapLock, gameLock, channel, fan, caller, sent, switches>>
  BY DEF ReadInbox
<1>2. /\ inbox' \in [Players -> Seq(Packet)]
      /\ \A q \in Players : Len(inbox'[q]) <= Len(inbox[q]) /\ Len(inbox'[q]) <= InboxBuffer
  <2>1. inbox[p] \in Seq(Packet) /\ Len(inbox[p]) \in Nat /\ Len(inbox[p]) <= InboxBuffer
    BY <1>0, LenProperties DEF ChannelInv, TypeOK
  <2>2. Tail(inbox[p]) \in Seq(Packet) /\ Len(Tail(inbox[p])) = Len(inbox[p]) - 1
    BY <1>1, <2>1, HeadTailProperties
  <2>3. inbox' \in [Players -> Seq(Packet)] /\ inbox'[p] = Tail(inbox[p])
        /\ \A q \in Players \ {p} : inbox'[q] = inbox[q]
    BY <1>0, <1>1, <2>2 DEF ChannelInv
  <2>4. Len(inbox'[p]) <= Len(inbox[p]) /\ Len(inbox'[p]) <= InboxBuffer
    BY <2>1, <2>2, <2>3, GameAssumption DEF GameAssumption
  <2>5. ASSUME NEW q \in Players, q # p
        PROVE  Len(inbox'[q]) <= Len(inbox[q]) /\ Len(inbox'[q]) <= InboxBuffer
    <3>1. inbox'[q] = inbox[q] /\ Len(inbox[q]) \in Nat /\ Len(inbox[q]) <= InboxBuffer
      BY <1>0, <2>3, <2>5, LenProperties DEF TypeOK, ChannelInv
    <3> QED BY <3>1
  <2> QED BY <2>3, <2>4, <2>5
<1>3. TypeOK'
  BY <1>0, <1>1, <1>2 DEF TypeOK, moves
<1>4. FanShape' /\ FanInv' /\ ChannelInv' /\ CallerShape' /\ SwitchInv' /\ PutInv' /\ Registered'
  BY <1>0, <1>1, <1>2
  DEF FanShape, FanInv, ChannelInv, CallerShape, SwitchInv, PutInv, Registered, Touched, moves
<1> QED BY <1>2, <1>3, <1>4 DEF IInv

-----------------------------------------------------------------------------
LEMMA Preserved == IInv /\ [Next]_vars => IInv'
<1> SUFFICES ASSUME IInv, [Next]_vars PROVE IInv'
  OBVIOUS
<1>1. ASSUME NEW c \in Callers, NEW p \in Players,
             ConnectPlayer(c, p) \/ BeginSend(c, p) \/ \E m \in Maps : BeginSwitch(c, p, m)
      PROVE  IInv'
  BY <1>1, ConnectOK, BeginSendOK, BeginSwitchOK
<1>2. ASSUME NEW c \in Callers, Advance(c) PROVE IInv'
  BY <1>2, LockMapOK, MoveOK, PutOK DEF Advance
<1>3. ASSUME NEW m \in Maps, FanStep(m) PROVE IInv'
  BY <1>3, TakeOK, FanLockOK, FanSendOK, FanUnlockOK DEF FanStep
<1>4. ASSUME NEW p \in Players, ReadInbox(p) PROVE IInv'
  BY <1>4, ReadInboxOK
<1>5. CASE UNCHANGED vars
  BY <1>5 DEF vars, moves, IInv, TypeOK, FanShape, FanInv, ChannelInv, CallerShape,
              SwitchInv, PutInv, Registered, Touched
<1> QED BY <1>1, <1>2, <1>3, <1>4, <1>5 DEF Next

LEMMA Inductive == Spec => []IInv
<1> QED BY InitOK, Preserved, PTL DEF Spec

(***************************************************************************)
(* However many goroutines connect, move and send: channels stay within    *)
(* capacity, a map is locked by its fan-out exactly while that writes, and *)
(* a free map's registry is the players who are there (main.go:106-190).   *)
(***************************************************************************)
THEOREM GameInvariant == Spec => []Inv
<1>1. IInv => Inv
  BY DEF IInv, Inv, Registered, RegistryMatchesZones
<1> QED BY <1>1, Inductive, PTL

(* The only step that lengthens an inbox is a fan-out's offer.             *)
LEMMA DeliveryStep ==
  ASSUME IInv, [Next]_vars, NEW p \in Players, Len(inbox'[p]) > Len(inbox[p])
  PROVE  LET packet == inbox'[p][Len(inbox'[p])]
         IN  p \in members[packet.map] /\ zone[p] = packet.map /\ packet.from # p
<1>1. Len(inbox[p]) \in Nat
  BY LenProperties DEF IInv, ChannelInv
<1>2. PICK m \in Maps : FanSend(m)
  <2>1. inbox' # inbox
    BY <1>1
  <2>2. ~\E q \in Players : ReadInbox(q)
    <3>1. \A q \in Players : ReadInbox(q) => Len(inbox'[p]) <= Len(inbox[p])
      BY ReadInboxOK
    <3>2. \A q \in Players : ReadInbox(q) => Len(inbox'[p]) \in Nat
      BY ReadInboxOK, LenProperties DEF IInv, ChannelInv
    <3> QED BY <1>1, <3>1, <3>2
  <2> QED BY <2>1, <2>2
          DEF Next, vars, ConnectPlayer, BeginSend, BeginSwitch, Advance, LockMap, Move, Put,
              FanStep, Take, FanLock, FanUnlock
<1>3. PICK q \in fan[m].todo : fan[m].at = "send" /\ Offer(q, fan[m].packet)
  BY <1>2 DEF FanSend
<1>4. /\ fan[m] \in [at : {"send"}, packet : Packet, todo : SUBSET Players]
      /\ fan[m].packet.map = m /\ fan[m].todo \subseteq members[m]
  BY <1>3 DEF IInv, FanShape, FanInv
<1>5. q \in Players /\ fan[m].packet \in Packet
  BY <1>4
<1>6. /\ p = q /\ inbox'[p][Len(inbox'[p])] = fan[m].packet
      /\ p # fan[m].packet.from /\ zone[p] = fan[m].packet.map
  BY <1>3, <1>5, OfferAppends DEF IInv
<1> QED BY <1>3, <1>4, <1>6

(***************************************************************************)
(* A message reaches a player only in the map it was sent in, and never    *)
(* its sender, although SendMessage reads the map without a lock (241,     *)
(* 266): while a fan-out offers a packet it holds the map's lock, so the   *)
(* players of its list stay there.                                         *)
(***************************************************************************)
THEOREM DeliveredThere == Spec => DeliveredInMapOnly
<1>1. IInv /\ [Next]_vars =>
        [\A p \in Players :
           Len(inbox'[p]) > Len(inbox[p]) =>
             LET packet == inbox'[p][Len(inbox'[p])]
             IN  p \in members[packet.map] /\ zone[p] = packet.map /\ packet.from # p]_vars
  BY DeliveryStep
<1> QED BY <1>1, Inductive, PTL DEF Spec, DeliveredInMapOnly

-----------------------------------------------------------------------------
(* Who holds a lock: the game's, a switch under way; a map's, that switch, *)
(* which then does not lock it again, or the map's fan-out while it sends. *)
HolderInv ==
  /\ gameLock \in Callers => caller[gameLock].at = "switch"
  /\ \A m \in Maps : mapLock[m] \in Callers \cup {m, NoCaller}
  /\ \A m \in Maps : mapLock[m] \in Callers =>
       /\ caller[mapLock[m]].at = "switch"
       /\ \A i \in 1..Len(caller[mapLock[m]].locks) : caller[mapLock[m]].locks[i] # m
  /\ \A c \in Callers : caller[c].at = "switch" =>
       \A i, j \in 1..Len(caller[c].locks) : caller[c].locks[i] = caller[c].locks[j] => i = j

LEMMA HolderStart == Init => HolderInv
BY GameAssumption DEF GameAssumption, Init, Idle, HolderInv

LEMMA HolderBeginSwitch ==
  ASSUME IInv, HolderInv, NEW c \in Callers, NEW p \in Players, NEW m \in Maps, BeginSwitch(c, p, m)
  PROVE  HolderInv'
<1> DEFINE locks == Ordered(zone[p], m)
<1>1. /\ caller[c] = Idle /\ zone[p] # m /\ gameLock' = c /\ mapLock' = mapLock
      /\ caller' = [caller EXCEPT ![c] = [at |-> "switch", player |-> p, to |-> m, locks |-> locks]]
  BY DEF BeginSwitch, Goto
<1>2. /\ caller'[c].at = "switch" /\ caller'[c].locks = locks
      /\ \A d \in Callers : d # c => caller'[d] = caller[d]
  BY <1>1 DEF IInv, CallerShape
<1>3. \A i, j \in 1..Len(locks) : locks[i] = locks[j] => i = j
  <2>1. CASE zone[p] = NoMap
    BY <2>1 DEF Ordered
  <2>2. CASE zone[p] # NoMap /\ zone[p] < m
    BY <1>1, <2>2 DEF Ordered
  <2>3. CASE zone[p] # NoMap /\ ~(zone[p] < m)
    BY <1>1, <2>3 DEF Ordered
  <2> QED BY <2>1, <2>2, <2>3
<1>4. \A k \in Maps : mapLock[k] # c
  BY <1>1 DEF HolderInv, Idle
<1> HIDE DEF locks
<1> QED BY <1>1, <1>2, <1>3, <1>4 DEF HolderInv

LEMMA HolderLockMap ==
  ASSUME IInv, HolderInv, NEW c \in Callers, LockMap(c)
  PROVE  HolderInv'
<1> DEFINE s == caller[c].locks
<1>1. /\ caller[c].at = "switch" /\ s # <<>> /\ mapLock[Head(s)] = NoCaller
      /\ mapLock' = [mapLock EXCEPT ![Head(s)] = c]
      /\ caller' = [caller EXCEPT ![c] = [caller[c] EXCEPT !.locks = Tail(s)]]
      /\ gameLock' = gameLock
  BY DEF LockMap, Goto
<1>2. /\ caller[c] \in [at : {"switch"}, player : Players, to : Maps, locks : Seq(Maps)]
      /\ s \in Seq(Maps)
  BY <1>1 DEF IInv, CallerShape
<1>3. /\ caller'[c].at = "switch" /\ caller'[c].locks = Tail(s)
      /\ \A d \in Callers : d # c => caller'[d] = caller[d]
  BY <1>1, <1>2 DEF IInv, CallerShape
<1>4. \A i, j \in 1..Len(s) : s[i] = s[j] => i = j
  BY <1>1 DEF HolderInv
<1>5. \A k \in Maps : mapLock[k] = c => \A i \in 1..Len(s) : s[i] # k
  BY DEF HolderInv
<1>6. mapLock \in [Maps -> Callers \cup Maps \cup {NoCaller}]
  BY DEF IInv, TypeOK
<1> HIDE DEF s
<1>7. /\ Len(s) \in Nat /\ Len(s) >= 1 /\ Head(s) = s[1] /\ Head(s) \in Maps
      /\ Len(Tail(s)) = Len(s) - 1 /\ \A i \in 1..Len(Tail(s)) : Tail(s)[i] = s[i + 1]
  BY <1>1, <1>2, HeadTailProperties, LenProperties
<1>8. /\ \A i \in 1..Len(Tail(s)) : i + 1 \in 1..Len(s) /\ i + 1 # 1 /\ Tail(s)[i] = s[i + 1]
      /\ 1 \in 1..Len(s)
  BY <1>7
<1>9. \A i \in 1..Len(Tail(s)) : Tail(s)[i] # Head(s)
  BY <1>4, <1>7, <1>8
<1>10. \A i, j \in 1..Len(Tail(s)) : Tail(s)[i] = Tail(s)[j] => i = j
  <2> SUFFICES ASSUME NEW i \in 1..Len(Tail(s)), NEW j \in 1..Len(Tail(s)), Tail(s)[i] = Tail(s)[j]
               PROVE  i = j
    OBVIOUS
  <2>1. i + 1 = j + 1
    BY <1>4, <1>8
  <2> QED BY <1>7, <2>1
<1>11. \A k \in Maps : mapLock'[k] = c => \A i \in 1..Len(Tail(s)) : Tail(s)[i] # k
  BY <1>1, <1>5, <1>6, <1>8, <1>9
<1>12. \A k \in Maps : mapLock'[k] = mapLock[k] \/ mapLock'[k] = c
  BY <1>1, <1>6
<1> QED BY <1>1, <1>3, <1>10, <1>11, <1>12 DEF HolderInv

LEMMA HolderStep == IInv /\ HolderInv /\ [Next]_vars => HolderInv'
<1> SUFFICES ASSUME IInv, HolderInv, [Next]_vars PROVE HolderInv'
  OBVIOUS
<1>0. TypeOK /\ CallerShape /\ FanShape /\ SwitchInv
  BY DEF IInv
<1>1. ASSUME NEW c \in Callers, NEW p \in Players, NEW m \in Maps, BeginSwitch(c, p, m)
      PROVE  HolderInv'
  BY <1>1, HolderBeginSwitch
<1>2. ASSUME NEW c \in Callers, LockMap(c) PROVE HolderInv'
  BY <1>2, HolderLockMap
<1>3. ASSUME NEW c \in Callers, Move(c) PROVE HolderInv'
  <2>1. /\ caller[c].at = "switch" /\ gameLock = c /\ gameLock' = NoCaller
        /\ mapLock' = [m \in Maps |-> IF mapLock[m] = c THEN NoCaller ELSE mapLock[m]]
        /\ caller'[c].at = "idle" /\ \A d \in Callers : d # c => caller'[d] = caller[d]
    BY <1>0, <1>3 DEF Move, Goto, Idle, SwitchInv, CallerShape
  <2>2. NoCaller \notin Callers
    BY GameAssumption DEF GameAssumption
  <2>3. ASSUME NEW k \in Maps
        PROVE  /\ mapLock'[k] \in {mapLock[k], NoCaller}
               /\ mapLock'[k] \in Callers => mapLock'[k] = mapLock[k] /\ mapLock[k] # c
    BY <2>1, <2>2
  <2>4. \A d \in Callers : caller'[d].at = "switch" => d # c /\ caller'[d] = caller[d]
    BY <2>1
  <2>5. gameLock' \in Callers => caller'[gameLock'].at = "switch"
    BY <2>1, <2>2
  <2>6. \A k \in Maps : mapLock'[k] \in Callers \cup {k, NoCaller}
    BY <2>3 DEF HolderInv
  <2>7. ASSUME NEW k \in Maps, mapLock'[k] \in Callers
        PROVE  /\ caller'[mapLock'[k]].at = "switch"
               /\ \A i \in 1..Len(caller'[mapLock'[k]].locks) : caller'[mapLock'[k]].locks[i] # k
    <3>1. mapLock'[k] = mapLock[k] /\ mapLock[k] \in Callers /\ caller'[mapLock[k]] = caller[mapLock[k]]
      BY <2>1, <2>3, <2>7
    <3> QED BY <3>1 DEF HolderInv
  <2>8. ASSUME NEW d \in Callers, caller'[d].at = "switch"
        PROVE  \A i, j \in 1..Len(caller'[d].locks) :
                 caller'[d].locks[i] = caller'[d].locks[j] => i = j
    BY <2>4, <2>8 DEF HolderInv
  <2> QED BY <2>5, <2>6, <2>7, <2>8 DEF HolderInv
<1>4. ASSUME NEW c \in Callers, Put(c) \/ \E p \in Players : BeginSend(c, p) PROVE HolderInv'
  <2>1. /\ caller[c].at \in {"put", "idle"} /\ UNCHANGED <<gameLock, mapLock>>
        /\ caller'[c].at \in {"put", "idle"}
        /\ \A d \in Callers : d # c => caller'[d] = caller[d]
    BY <1>0, <1>4 DEF Put, BeginSend, Goto, Idle, CallerShape
  <2> QED BY <2>1 DEF HolderInv
<1>5. ASSUME NEW m \in Maps, FanStep(m) PROVE HolderInv'
  <2>1. UNCHANGED <<caller, gameLock>> /\ \A k \in Maps : mapLock'[k] = mapLock[k]
                                                   \/ mapLock'[k] \in {k, NoCaller} \ Callers
    BY <1>0, <1>5, GameAssumption
    DEF FanStep, Take, FanLock, FanSend, FanUnlock, TypeOK, GameAssumption
  <2> QED BY <2>1 DEF HolderInv
<1>6. CASE \/ UNCHANGED vars \/ \E p \in Players : ReadInbox(p)
           \/ \E c \in Callers, p \in Players : ConnectPlayer(c, p)
  BY <1>6 DEF vars, ReadInbox, ConnectPlayer, HolderInv
<1> QED BY <1>1, <1>2, <1>3, <1>4, <1>5, <1>6 DEF Next, Advance

(***************************************************************************)
(* No goroutines of the game wait in a circle (main.go:140, "lock in a     *)
(* consistent global order to avoid deadlocks"): who waits for the game's  *)
(* lock waits for a switch; a switch waits only for a fan-out that is      *)
(* offering a packet, which waits for nothing; and a fan-out waits only    *)
(* for the one switch, never for another fan-out.                          *)
(***************************************************************************)
Switching(c) == c \in Callers /\ caller[c].at = "switch"
NoCircle ==
  /\ gameLock # NoCaller => Switching(gameLock)
  /\ \A c \in Callers : (Switching(c) /\ caller[c].locks # <<>>) =>
       LET m == Head(caller[c].locks)
       IN  m \in Maps /\ (mapLock[m] # NoCaller => fan[m].at = "send")
  /\ \A m \in Maps : (fan[m].at = "lock" /\ mapLock[m] # NoCaller) =>
       Switching(mapLock[m]) /\ mapLock[m] = gameLock

THEOREM NobodyWaitsInACircle == Spec => []NoCircle
<1>1. ASSUME IInv, HolderInv PROVE NoCircle
  <2>0. TypeOK /\ CallerShape /\ SwitchInv
    BY <1>1 DEF IInv
  <2>1. gameLock # NoCaller => Switching(gameLock)
    BY <1>1, <2>0 DEF HolderInv, TypeOK, Switching
  <2>2. ASSUME NEW c \in Callers, Switching(c), caller[c].locks # <<>>, NEW m, m = Head(caller[c].locks)
        PROVE  m \in Maps /\ (mapLock[m] # NoCaller => fan[m].at = "send")
    <3>1. caller[c].locks \in Seq(Maps) /\ gameLock = c
      BY <2>0, <2>2 DEF CallerShape, SwitchInv, Switching
    <3>2. m \in Maps /\ m = caller[c].locks[1] /\ 1 \in 1..Len(caller[c].locks)
      BY <2>2, <3>1, HeadTailProperties, LenProperties
    <3>3. mapLock[m] \in Callers => mapLock[m] = c
      BY <1>1, <2>0, <3>1, <3>2 DEF HolderInv, SwitchInv
    <3>4. mapLock[m] \in {m, NoCaller}
      BY <1>1, <3>2, <3>3 DEF HolderInv
    <3> QED BY <2>0, <3>2, <3>4 DEF TypeOK
  <2>3. ASSUME NEW m \in Maps, fan[m].at = "lock", mapLock[m] # NoCaller
        PROVE  Switching(mapLock[m]) /\ mapLock[m] = gameLock
    <3>1. mapLock[m] # m
      BY <2>0, <2>3 DEF TypeOK
    <3> QED BY <1>1, <2>0, <2>3, <3>1 DEF HolderInv, SwitchInv, Switching
  <2> QED BY <2>1, <2>2, <2>3 DEF NoCircle
<1> QED BY <1>1, HolderStart, HolderStep, Inductive, PTL DEF Spec
=============================================================================
