------------------------------ MODULE Airpods -------------------------------
(***************************************************************************)
(* quli-airpods: a case with two pods, one Bluetooth connection and the    *)
(* goroutine that forwards the phone's bytes to the connected pods.        *)
(* ConnectBluetooth takes the case's lock, then each pod's lock in turn;   *)
(* Undock takes only the pod's lock and reads btConnected without the      *)
(* case's (main.go:139, 155), so until the connecting call has been through*)
(* that pod's lock it may still see the old value.                         *)
(***************************************************************************)
EXTENDS Naturals, Sequences

CONSTANTS Callers,    \* goroutines that use the case
          NoCaller,
          Buffer,     \* capacity of a pod's channel
          MaxBytes    \* bound on the bytes the phone sends

ASSUME AirpodsAssumption == /\ NoCaller \notin Callers
                            /\ Buffer \in Nat \ {0} /\ MaxBytes \in Nat

Sides == {"left", "right"}

VARIABLES state,      \* Airpod.state
          btConnected,
          connecting, \* how far the call that connected got, and whose it is
          phone,      \* number of bytes the phone has put in its channel
          forwarder,  \* the forwarding goroutine
          sent,       \* every byte put in the channel of each pod
          read        \* how many of them its user has taken
vars == <<state, btConnected, connecting, phone, forwarder, sent, read>>

States == {"Docked", "Connected", "Disconnected"}
NotStarted == [at |-> "none", taken |-> 0]

(***************************************************************************)
(* Every variable stays in its type; the forwarder runs once and for all   *)
(* from the end of the connecting call, and no pod's channel ever holds    *)
(* more than its capacity.                                                 *)
(***************************************************************************)
TypeOK ==
  /\ state \in [Sides -> States] /\ btConnected \in BOOLEAN
  /\ connecting.at \in {"none", "left", "right", "start", "done"}
  /\ (connecting.at = "none") <=> ~btConnected
  /\ phone \in 0..MaxBytes
  /\ forwarder.at \in {"none", "recv", "left", "right", "sendLeft", "sendRight"}
  /\ forwarder.taken \in 0..phone
  /\ (forwarder.at # "none") <=> (connecting.at = "done")
  /\ \A s \in Sides : /\ sent[s] \in Seq(1..MaxBytes)
                      /\ read[s] \in 0..Len(sent[s])
                      /\ Len(sent[s]) - read[s] <= Buffer

Init ==
  /\ state = [s \in Sides |-> "Docked"] /\ btConnected = FALSE
  /\ connecting = [at |-> "none", by |-> NoCaller]
  /\ phone = 0 /\ forwarder = NotStarted
  /\ sent = [s \in Sides |-> <<>>] /\ read = [s \in Sides |-> 0]

Busy(c) == connecting.by = c /\ connecting.at # "done"

\* What Undock may read of btConnected.
Passed(s) == CASE s = "left" -> connecting.at \in {"right", "start", "done"}
               [] s = "right" -> connecting.at \in {"start", "done"}
Seen(s) == IF Passed(s) THEN {btConnected} ELSE {FALSE, btConnected}

\* UndockLeft, UndockRight; nil for a pod that is out.
Undock(c, s) ==
  /\ ~Busy(c) /\ state[s] = "Docked"
  /\ \E bt \in Seen(s) :
       state' = [state EXCEPT ![s] = IF bt THEN "Connected" ELSE "Disconnected"]
  /\ UNCHANGED <<btConnected, connecting, phone, forwarder, sent, read>>

\* DockLeft, DockRight; an error for a pod that is in.
Dock(c, s) ==
  /\ ~Busy(c) /\ state[s] # "Docked"
  /\ state' = [state EXCEPT ![s] = "Docked"]
  /\ UNCHANGED <<btConnected, connecting, phone, forwarder, sent, read>>

\* ConnectBluetooth; an error when it is connected.
Connect(c) ==
  /\ ~Busy(c) /\ ~btConnected
  /\ btConnected' = TRUE
  /\ connecting' = [at |-> "left", by |-> c]
  /\ UNCHANGED <<state, phone, forwarder, sent, read>>

\* A slip: it forgets a pod that was out when Bluetooth connected.
UpgradedNot(s) == state
Upgraded(s) == IF state[s] = "Disconnected" THEN [state EXCEPT ![s] = "Connected"] ELSE state

Upgrade(c, s, next) ==
  /\ connecting = [at |-> s, by |-> c]
  /\ state' = Upgraded(s)
  /\ connecting' = [connecting EXCEPT !.at = next]
  /\ UNCHANGED <<btConnected, phone, forwarder, sent, read>>

UpgradeLeft(c) == Upgrade(c, "left", "right")
UpgradeRight(c) == Upgrade(c, "right", "start")

StartForwarder(c) ==
  /\ connecting = [at |-> "start", by |-> c]
  /\ connecting' = [connecting EXCEPT !.at = "done"]
  /\ forwarder' = [at |-> "recv", taken |-> 0]
  /\ UNCHANGED <<state, btConnected, phone, sent, read>>

(***************************************************************************)
(* The phone and the forwarder.  Bytes are numbered; the phone's channel   *)
(* holds those after forwarder.taken.                                      *)
(***************************************************************************)
PhoneSends ==
  /\ phone < MaxBytes
  /\ phone' = phone + 1
  /\ UNCHANGED <<state, btConnected, connecting, forwarder, sent, read>>

Receive ==
  /\ forwarder.at = "recv" /\ forwarder.taken < phone
  /\ forwarder' = [at |-> "left", taken |-> forwarder.taken + 1]
  /\ UNCHANGED <<state, btConnected, connecting, phone, sent, read>>

CheckLeft ==
  /\ forwarder.at = "left"
  /\ forwarder' = [at |-> "right", taken |-> forwarder.taken,
                   left |-> state["left"] = "Connected"]
  /\ UNCHANGED <<state, btConnected, connecting, phone, sent, read>>

CheckRight ==
  /\ forwarder.at = "right"
  /\ forwarder' = [at |-> "sendLeft", taken |-> forwarder.taken, left |-> forwarder.left,
                   right |-> state["right"] = "Connected"]
  /\ UNCHANGED <<state, btConnected, connecting, phone, sent, read>>

Byte == forwarder.taken

\* The send blocks while the pod's channel is full.
Put(s, connected) ==
  IF connected
  THEN /\ Len(sent[s]) - read[s] < Buffer
       /\ sent' = [sent EXCEPT ![s] = Append(@, Byte)]
  ELSE UNCHANGED sent

SendLeft ==
  /\ forwarder.at = "sendLeft"
  /\ Put("left", forwarder.left)
  /\ forwarder' = [forwarder EXCEPT !.at = "sendRight"]
  /\ UNCHANGED <<state, btConnected, connecting, phone, read>>

\* A slip: the goroutine returns after its first byte.
LoopedOnce == [at |-> "none", taken |-> forwarder.taken]
Looped == [at |-> "recv", taken |-> forwarder.taken]

SendRight ==
  /\ forwarder.at = "sendRight"
  /\ Put("right", forwarder.right)
  /\ forwarder' = Looped
  /\ UNCHANGED <<state, btConnected, connecting, phone, read>>

\* The user of a pod takes a byte from GetChannel.
Listen(s) ==
  /\ read[s] < Len(sent[s])
  /\ read' = [read EXCEPT ![s] = @ + 1]
  /\ UNCHANGED <<state, btConnected, connecting, phone, forwarder, sent>>

Forward == Receive \/ CheckLeft \/ CheckRight \/ SendLeft \/ SendRight

Next == \/ \E c \in Callers : \/ \E s \in Sides : Undock(c, s) \/ Dock(c, s)
                              \/ Connect(c) \/ UpgradeLeft(c) \/ UpgradeRight(c)
                              \/ StartForwarder(c)
        \/ PhoneSends \/ Forward
        \/ \E s \in Sides : Listen(s)

Spec == Init /\ [][Next]_vars

\* Both pods are listened to; goroutines that can run do.
FairSpec == Spec /\ WF_vars(Forward)
                 /\ (\A s \in Sides : WF_vars(Listen(s)))
                 /\ (\A c \in Callers : WF_vars(UpgradeLeft(c) \/ UpgradeRight(c) \/ StartForwarder(c)))

-----------------------------------------------------------------------------
(***************************************************************************)
(* Once ConnectBluetooth has been through a pod's lock, the pod is never   *)
(* out of the case and unconnected, although Undock decides that from a    *)
(* flag it reads without the lock that protects it.                        *)
(***************************************************************************)
NoPodLeftBehind == \A s \in Sides : Passed(s) => state[s] # "Disconnected"

(***************************************************************************)
(* Each pod hears the phone's bytes in order and at most once, however     *)
(* docking, undocking and full channels delay the forwarder.               *)
(***************************************************************************)
BytesInOrder ==
  \A s \in Sides : \A i, j \in DOMAIN sent[s] : i < j => sent[s][i] < sent[s][j]

(***************************************************************************)
(* The invariant of the case: channels within capacity, no pod left out    *)
(* unconnected, and each pod hears a subsequence of the phone's bytes.     *)
(***************************************************************************)
Inv == TypeOK /\ NoPodLeftBehind /\ BytesInOrder

(***************************************************************************)
(* While both pods are listened to, the forwarder takes every byte of the  *)
(* connected phone: it blocks on a full channel only for a while.          *)
(***************************************************************************)
EveryByteTaken ==
  \A n \in 1..MaxBytes : (btConnected /\ phone = n) ~> forwarder.taken >= n
=============================================================================
