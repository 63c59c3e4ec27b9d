----------------------------- MODULE GameServer -----------------------------
(***************************************************************************)
(* game-server: players connect, move between maps and chat with the       *)
(* players of their map.  SwitchPlayerMap holds the game's lock and the    *)
(* locks of the maps it leaves and enters; one goroutine per map           *)
(* (FanOutMessages) takes a packet from the map's channel and, holding the *)
(* map's lock, offers it to the players of the map one by one.  SendMessage*)
(* takes no lock: it reads the player's map twice (main.go:241 and 266)    *)
(* while a switch may write it, so either value may be the one it uses.    *)
(***************************************************************************)
EXTENDS Naturals, Sequences, FiniteSets

CONSTANTS Players,    \* names, lower case
          Maps,       \* ids of the maps: positive numbers, all different
          NoMap,      \* the map of a player before the first switch
          Callers,    \* goroutines that use the game
          NoCaller,
          MapBuffer, InboxBuffer,  \* capacities of the two kinds of channel
          MaxSent, MaxSwitches     \* bounds on the calls

ASSUME GameAssumption ==
  /\ Maps \subseteq Nat \ {0} /\ NoMap \notin Maps
  /\ NoCaller \notin Callers \cup Maps /\ Callers \cap Maps = {}
  /\ MapBuffer \in Nat \ {0} /\ InboxBuffer \in Nat \ {0}
  /\ MaxSent \in Nat /\ MaxSwitches \in Nat

VARIABLES connected,  \* Game.players
          zone,       \* Player.zone and Player.m
          members,    \* Map.players
          mapLock,    \* who holds Map.mu: a caller, or the map for its fan-out
          gameLock,   \* who holds Game.mu
          channel,    \* Map.ch
          inbox,      \* Player.ch
          fan,        \* FanOutMessages of each map
          caller,     \* where each caller is
          sent, switches  \* counters for the bounds
moves == <<connected, zone, members>>
vars == <<moves, mapLock, gameLock, channel, inbox, fan, caller, sent, switches>>

Idle == [at |-> "idle"]
Waiting == [at |-> "recv"]
Packet == [from : Players, map : Maps]

(***************************************************************************)
(* Every variable stays in its type: only connected players are in a map,  *)
(* no channel is over its capacity, and a map's lock is held by its        *)
(* fan-out exactly while that is writing to the players.                   *)
(***************************************************************************)
TypeOK ==
  /\ connected \subseteq Players
  /\ zone \in [Players -> Maps \cup {NoMap}]
  /\ members \in [Maps -> SUBSET connected]
  /\ mapLock \in [Maps -> Callers \cup Maps \cup {NoCaller}]
  /\ gameLock \in Callers \cup {NoCaller}
  /\ \A m \in Maps : /\ channel[m] \in Seq(Packet) /\ Len(channel[m]) <= MapBuffer
                     /\ (mapLock[m] = m) <=> (fan[m].at = "send")
  /\ \A p \in Players : inbox[p] \in Seq(Packet) /\ Len(inbox[p]) <= InboxBuffer
  /\ sent \in 0..MaxSent /\ switches \in 0..MaxSwitches

Init ==
  /\ connected = {} /\ zone = [p \in Players |-> NoMap] /\ members = [m \in Maps |-> {}]
  /\ mapLock = [m \in Maps |-> NoCaller] /\ gameLock = NoCaller
  /\ channel = [m \in Maps |-> <<>>] /\ inbox = [p \in Players |-> <<>>]
  /\ fan = [m \in Maps |-> Waiting] /\ caller = [c \in Callers |-> Idle]
  /\ sent = 0 /\ switches = 0

Goto(c, state) == caller' = [caller EXCEPT ![c] = state]

\* A name that is taken is refused.
ConnectPlayer(c, p) ==
  /\ caller[c] = Idle /\ gameLock = NoCaller
  /\ p \notin connected
  /\ connected' = connected \cup {p}
  /\ UNCHANGED <<zone, members, mapLock, gameLock, channel, inbox, fan, caller, sent, switches>>

(***************************************************************************)
(* SwitchPlayerMap: the game's lock, then the locks of both maps in the    *)
(* order of their ids, then the move.                                      *)
(***************************************************************************)
Ordered(old, new) == IF old = NoMap THEN <<new>>
                     ELSE IF old < new THEN <<old, new>> ELSE <<new, old>>

\* An unknown player, and a player already there, are refused.
BeginSwitch(c, p, m) ==
  /\ caller[c] = Idle /\ gameLock = NoCaller /\ switches < MaxSwitches
  /\ p \in connected /\ zone[p] # m
  /\ gameLock' = c
  /\ switches' = switches + 1
  /\ Goto(c, [at |-> "switch", player |-> p, to |-> m, locks |-> Ordered(zone[p], m)])
  /\ UNCHANGED <<moves, mapLock, channel, inbox, fan, sent>>

LockMap(c) ==
  /\ caller[c].at = "switch" /\ caller[c].locks # <<>>
  /\ mapLock[Head(caller[c].locks)] = NoCaller
  /\ mapLock' = [mapLock EXCEPT ![Head(caller[c].locks)] = c]
  /\ Goto(c, [caller[c] EXCEPT !.locks = Tail(@)])
  /\ UNCHANGED <<moves, gameLock, channel, inbox, fan, sent, switches>>

\* A slip: the player stays registered in the map left.
MovedKept(p, m) == [members EXCEPT ![m] = @ \cup {p}]
Moved(p, m) == [k \in Maps |-> IF k = m THEN members[k] \cup {p}
                               ELSE IF k = zone[p] THEN members[k] \ {p} ELSE members[k]]

\* The move, then both unlocks and the game's.
Move(c) ==
  /\ caller[c].at = "switch" /\ caller[c].locks = <<>>
  /\ members' = Moved(caller[c].player, caller[c].to)
  /\ zone' = [zone EXCEPT ![caller[c].player] = caller[c].to]
  /\ mapLock' = [m \in Maps |-> IF mapLock[m] = c THEN NoCaller ELSE mapLock[m]]
  /\ gameLock' = NoCaller
  /\ Goto(c, Idle)
  /\ UNCHANGED <<connected, channel, inbox, fan, sent, switches>>

(***************************************************************************)
(* SendMessage.                                                            *)
(***************************************************************************)
\* A player without a map is refused.
BeginSend(c, p) ==
  /\ caller[c] = Idle /\ sent < MaxSent
  /\ p \in connected /\ zone[p] # NoMap
  /\ Goto(c, [at |-> "put", player |-> p, map |-> zone[p]])
  /\ sent' = sent + 1
  /\ UNCHANGED <<moves, mapLock, gameLock, channel, inbox, fan, switches>>

\* A full map channel refuses the message.
Put(c) ==
  /\ caller[c].at = "put"
  /\ \E m \in {caller[c].map, zone[caller[c].player]} :
       IF Len(channel[m]) < MapBuffer
       THEN channel' = [channel EXCEPT ![m] =
              Append(@, [from |-> caller[c].player, map |-> m])]
       ELSE UNCHANGED channel
  /\ Goto(c, Idle)
  /\ UNCHANGED <<moves, mapLock, gameLock, inbox, fan, sent, switches>>

(***************************************************************************)
(* FanOutMessages.                                                         *)
(***************************************************************************)
Take(m) ==
  /\ fan[m].at = "recv" /\ channel[m] # <<>>
  /\ fan' = [fan EXCEPT ![m] = [at |-> "lock", packet |-> Head(channel[m])]]
  /\ channel' = [channel EXCEPT ![m] = Tail(@)]
  /\ UNCHANGED <<moves, mapLock, gameLock, inbox, caller, sent, switches>>

FanLock(m) ==
  /\ fan[m].at = "lock" /\ mapLock[m] = NoCaller
  /\ mapLock' = [mapLock EXCEPT ![m] = m]
  /\ fan' = [fan EXCEPT ![m] = [at |-> "send", packet |-> fan[m].packet,
                                todo |-> members[m]]]
  /\ UNCHANGED <<moves, gameLock, channel, inbox, caller, sent, switches>>

\* Slips: a blocking send; no check of the sender.
OfferBlocking(p, packet) ==
  IF p # packet.from /\ zone[p] = packet.map
  THEN Len(inbox[p]) < InboxBuffer /\ inbox' = [inbox EXCEPT ![p] = Append(@, packet)]
  ELSE UNCHANGED inbox
OfferToAll(p, packet) ==
  IF Len(inbox[p]) < InboxBuffer
  THEN inbox' = [inbox EXCEPT ![p] = Append(@, packet)] ELSE UNCHANGED inbox
\* The send never blocks: a full inbox drops the message.
Offer(p, packet) ==
  IF p # packet.from /\ zone[p] = packet.map /\ Len(inbox[p]) < InboxBuffer
  THEN inbox' = [inbox EXCEPT ![p] = Append(@, packet)] ELSE UNCHANGED inbox

FanSend(m) ==
  /\ fan[m].at = "send"
  /\ \E p \in fan[m].todo : /\ Offer(p, fan[m].packet)
                            /\ fan' = [fan EXCEPT ![m].todo = @ \ {p}]
  /\ UNCHANGED <<moves, mapLock, gameLock, channel, caller, sent, switches>>

FanUnlock(m) ==
  /\ fan[m].at = "send" /\ fan[m].todo = {}
  /\ mapLock' = [mapLock EXCEPT ![m] = NoCaller]
  /\ fan' = [fan EXCEPT ![m] = Waiting]
  /\ UNCHANGED <<moves, gameLock, channel, inbox, caller, sent, switches>>

\* The game that owns the player reads GetChannel.
ReadInbox(p) ==
  /\ inbox[p] # <<>>
  /\ inbox' = [inbox EXCEPT ![p] = Tail(@)]
  /\ UNCHANGED <<moves, mapLock, gameLock, channel, fan, caller, sent, switches>>

Advance(c) == LockMap(c) \/ Move(c) \/ Put(c)
FanStep(m) == Take(m) \/ FanLock(m) \/ FanSend(m) \/ FanUnlock(m)

Next ==
  \/ \E c \in Callers : \/ \E p \in Players : \/ ConnectPlayer(c, p)
                                              \/ BeginSend(c, p)
                                              \/ \E m \in Maps : BeginSwitch(c, p, m)
                        \/ Advance(c)
  \/ \E m \in Maps : FanStep(m)
  \/ \E p \in Players : ReadInbox(p)

Spec == Init /\ [][Next]_vars

\* Goroutines that can run do; nothing says that a player ever reads.
FairSpec == Spec /\ (\A c \in Callers : SF_vars(Advance(c)))
                 /\ (\A m \in Maps : SF_vars(FanStep(m)))

-----------------------------------------------------------------------------
(***************************************************************************)
(* When nobody holds the lock of a map, its registry is exactly the        *)
(* players whose current map it is: no player is in two maps or in none.   *)
(* This is what a fan-out sees when it takes the lock.                     *)
(***************************************************************************)
RegistryMatchesZones ==
  \A m \in Maps : (mapLock[m] \in {NoCaller, m}) => members[m] = {p \in Players : zone[p] = m}

(***************************************************************************)
(* The invariant of the game: the locks are held by who writes, and the    *)
(* registries of the free maps match the players' positions.               *)
(***************************************************************************)
Inv == TypeOK /\ RegistryMatchesZones

(***************************************************************************)
(* A message reaches a player only while that player is in the map the     *)
(* message was put in, and never its own sender, whatever the switches and *)
(* the racy read of SendMessage.                                           *)
(***************************************************************************)
DeliveredInMapOnly ==
  [][\A p \in Players :
       Len(inbox'[p]) > Len(inbox[p]) =>
         LET packet == inbox'[p][Len(inbox'[p])]
         IN  p \in members[packet.map] /\ zone[p] = packet.map /\ packet.from # p]_vars

(***************************************************************************)
(* A player who never reads the channel cannot hold up the game: every     *)
(* switch ends and every fan-out comes back to its channel, although a     *)
(* fan-out holds the map's lock while it offers a message.                 *)
(***************************************************************************)
NobodyHeldUp ==
  /\ \A c \in Callers : caller[c].at = "switch" ~> caller[c].at = "idle"
  /\ \A m \in Maps : channel[m] # <<>> ~> (fan[m].at = "recv" /\ channel[m] = <<>>)
=============================================================================
