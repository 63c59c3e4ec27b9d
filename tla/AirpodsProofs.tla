--------------------------- MODULE AirpodsProofs ---------------------------
(***************************************************************************)
(* Proofs about quli-airpods: channels within capacity, no pod left        *)
(* unconnected, and the phone's bytes in order in each pod, for any number *)
(* of callers, any capacity and any number of bytes.                       *)
(***************************************************************************)
EXTENDS Airpods, SequenceTheorems, TLAPS

Early == {"none", "recv", "left"}
Late  == {"sendLeft", "sendRight"}

\* The forwarder keeps what it read of a pod from the check to the send.
ForwarderShape ==
  forwarder \in [at : Early, taken : Nat]
                \cup [at : {"right"}, taken : Nat, left : BOOLEAN]
                \cup [at : Late, taken : Nat, left : BOOLEAN, right : BOOLEAN]

ShapeInv ==
  /\ connecting \in [at : {"none", "left", "right", "start", "done"}, by : Callers \cup {NoCaller}]
  /\ ForwarderShape
  /\ sent \in [Sides -> Seq(1..MaxBytes)] /\ read \in [Sides -> Nat]
  /\ forwarder.at = "none" => forwarder.taken = 0
  /\ forwarder.at \in {"left", "right"} \cup Late => forwarder.taken >= 1

\* The byte in hand has not been put in the channel of s yet.
Pending(s) == forwarder.at \in {"left", "right", "sendLeft"}
              \/ (s = "right" /\ forwarder.at = "sendRight")

\* What a pod has heard came before the byte in hand.
HandInv ==
  \A s \in Sides : \A i \in DOMAIN sent[s] :
    /\ sent[s][i] <= forwarder.taken
    /\ Pending(s) => sent[s][i] < forwarder.taken

IInv == TypeOK /\ ShapeInv /\ HandInv /\ NoPodLeftBehind /\ BytesInOrder

-----------------------------------------------------------------------------
(* A send leaves the other pod's channel alone and appends the byte in     *)
(* hand to a channel that had room, or does nothing.                       *)
LEMMA PutAppends ==
  ASSUME TypeOK, ShapeInv, NEW s \in Sides, NEW connected, forwarder.taken >= 1,
         Put(s, connected)
  PROVE  /\ sent' \in [Sides -> Seq(1..MaxBytes)]
         /\ \A t \in Sides :
              \/ sent'[t] = sent[t]
              \/ t = s /\ sent'[t] = Append(sent[t], forwarder.taken)
                 /\ Len(sent[t]) - read[t] < Buffer
  <1>1. forwarder.taken \in 1..MaxBytes
    BY AirpodsAssumption DEF TypeOK
  <1>2. CASE connected
    <2>1. /\ Len(sent[s]) - read[s] < Buffer
          /\ sent' = [sent EXCEPT ![s] = Append(@, forwarder.taken)]
      BY <1>2 DEF Put, Byte
    <2>2. Append(sent[s], forwarder.taken) \in Seq(1..MaxBytes)
      BY <1>1, AppendProperties DEF ShapeInv
    <2> QED BY <2>1, <2>2 DEF ShapeInv
  <1>3. CASE ~connected
    BY <1>3 DEF Put, ShapeInv
  <1> QED BY <1>2, <1>3

(* What an appended channel holds.                                         *)
LEMMA Appended ==
  ASSUME NEW S, NEW q \in Seq(S), NEW e \in S
  PROVE  /\ Len(Append(q, e)) = Len(q) + 1
         /\ \A i \in DOMAIN Append(q, e) :
              \/ i \in DOMAIN q /\ Append(q, e)[i] = q[i]
              \/ i = Len(q) + 1 /\ Append(q, e)[i] = e
  <1>1. Append(q, e) \in Seq(S) /\ Len(Append(q, e)) = Len(q) + 1
    BY AppendProperties
  <1>2. DOMAIN Append(q, e) = 1..(Len(q) + 1) /\ DOMAIN q = 1..Len(q) /\ Len(q) \in Nat
    BY <1>1, LenProperties
  <1> QED BY <1>1, <1>2, AppendProperties

LEMMA InitIInv == Init => IInv
  <1> SUFFICES ASSUME Init PROVE IInv
    OBVIOUS
  <1>1. \A s \in Sides : sent[s] = <<>> /\ read[s] = 0 /\ Len(sent[s]) = 0 /\ DOMAIN sent[s] = {}
    BY EmptySeq, LenProperties DEF Init
  <1>2. <<>> \in Seq(1..MaxBytes)
    OBVIOUS
  <1>3. TypeOK
    <2>1. ASSUME NEW s \in Sides
          PROVE  /\ sent[s] \in Seq(1..MaxBytes)
                 /\ read[s] \in 0..Len(sent[s])
                 /\ Len(sent[s]) - read[s] <= Buffer
      <3>1. sent[s] = <<>> /\ read[s] = 0 /\ Len(sent[s]) = 0 /\ Buffer \in Nat
        BY <1>1, AirpodsAssumption
      <3>2. sent[s] \in Seq(1..MaxBytes)
        BY <3>1, <1>2
      <3>3. read[s] \in 0..Len(sent[s]) /\ Len(sent[s]) - read[s] <= Buffer
        BY <3>1
      <3> QED BY <3>2, <3>3
    <2>2. state \in [Sides -> States] /\ btConnected \in BOOLEAN /\ ~btConnected
      BY DEF Init, States
    <2>3. /\ connecting.at = "none" /\ forwarder.at = "none" /\ forwarder.taken = 0
          /\ phone = 0 /\ phone \in 0..MaxBytes
      BY AirpodsAssumption DEF Init, NotStarted
    <2>4. forwarder.taken \in 0..phone
      BY <2>3
    <2>5. (connecting.at = "none") <=> ~btConnected
      BY <2>2, <2>3
    <2>6. (forwarder.at # "none") <=> (connecting.at = "done")
      BY <2>3
    <2> QED BY <2>1, <2>2, <2>3, <2>4, <2>5, <2>6 DEF TypeOK
  <1>4. ShapeInv
    BY <1>2 DEF Init, ShapeInv, ForwarderShape, NotStarted, Early, Late
  <1>5. HandInv /\ NoPodLeftBehind /\ BytesInOrder
    BY <1>1 DEF Init, HandInv, NoPodLeftBehind, BytesInOrder, Passed, Sides
  <1> QED BY <1>3, <1>4, <1>5 DEF IInv

(* A send finds room, and only then makes the channel longer.              *)
LEMMA StepTypeOK == TypeOK /\ ShapeInv /\ [Next]_vars => TypeOK'
  <1> SUFFICES ASSUME TypeOK, ShapeInv, [Next]_vars
               PROVE  TypeOK'
    OBVIOUS
  <1>1. ASSUME NEW c \in Callers, NEW s \in Sides, Undock(c, s) PROVE TypeOK'
    BY <1>1 DEF Undock, TypeOK, States
  <1>2. ASSUME NEW c \in Callers, NEW s \in Sides, Dock(c, s) PROVE TypeOK'
    BY <1>2 DEF Dock, TypeOK, States
  <1>3. ASSUME NEW c \in Callers, Connect(c) PROVE TypeOK'
    BY <1>3 DEF Connect, TypeOK, ShapeInv
  <1>4. ASSUME NEW c \in Callers, UpgradeLeft(c) PROVE TypeOK'
    BY <1>4 DEF UpgradeLeft, Upgrade, Upgraded, TypeOK, ShapeInv, Sides, States
  <1>5. ASSUME NEW c \in Callers, UpgradeRight(c) PROVE TypeOK'
    BY <1>5 DEF UpgradeRight, Upgrade, Upgraded, TypeOK, ShapeInv, Sides, States
  <1>6. ASSUME NEW c \in Callers, StartForwarder(c) PROVE TypeOK'
    BY <1>6, AirpodsAssumption DEF StartForwarder, TypeOK, ShapeInv
  <1>7. ASSUME PhoneSends PROVE TypeOK'
    BY <1>7, AirpodsAssumption DEF PhoneSends, TypeOK
  <1>8. ASSUME Receive PROVE TypeOK'
    BY <1>8, AirpodsAssumption DEF Receive, TypeOK
  <1>9. ASSUME CheckLeft PROVE TypeOK'
    BY <1>9 DEF CheckLeft, TypeOK
  <1>10. ASSUME CheckRight PROVE TypeOK'
    BY <1>10 DEF CheckRight, TypeOK
  <1>11. ASSUME SendLeft PROVE TypeOK'
    <2>1. /\ Put("left", forwarder.left) /\ read' = read /\ forwarder.taken >= 1
          /\ forwarder.taken \in 1..MaxBytes
      BY <1>11, AirpodsAssumption DEF SendLeft, ShapeInv, TypeOK, Late
    <2>2. ASSUME NEW t \in Sides
          PROVE  /\ sent'[t] \in Seq(1..MaxBytes)
                 /\ read'[t] \in 0..Len(sent'[t])
                 /\ Len(sent'[t]) - read'[t] <= Buffer
      <3>1. /\ sent[t] \in Seq(1..MaxBytes) /\ Len(sent[t]) \in Nat
            /\ read[t] \in 0..Len(sent[t]) /\ Len(sent[t]) - read[t] <= Buffer
        BY LenProperties DEF TypeOK
      <3>2. \/ sent'[t] = sent[t]
            \/ /\ sent'[t] = Append(sent[t], forwarder.taken)
               /\ Len(sent[t]) - read[t] < Buffer
        BY <2>1, PutAppends DEF Sides
      <3>3. CASE sent'[t] = sent[t]
        BY <2>1, <3>1, <3>3
      <3>4. CASE /\ sent'[t] = Append(sent[t], forwarder.taken)
                 /\ Len(sent[t]) - read[t] < Buffer
        <4>1. /\ sent'[t] \in Seq(1..MaxBytes)
              /\ Len(sent'[t]) = Len(sent[t]) + 1
          BY <2>1, <3>1, <3>4, AppendProperties
        <4> QED BY <2>1, <3>1, <3>4, <4>1, AirpodsAssumption
      <3> QED BY <3>2, <3>3, <3>4
    <2>3. /\ forwarder'.at \in {"recv", "sendRight"} /\ forwarder'.taken = forwarder.taken
          /\ UNCHANGED <<state, btConnected, connecting, phone>>
          /\ forwarder.at # "none"
      BY <1>11 DEF SendLeft, Looped, ShapeInv, ForwarderShape, Early, Late
    <2> QED BY <2>2, <2>3 DEF TypeOK
  <1>12. ASSUME SendRight PROVE TypeOK'
    <2>1. /\ Put("right", forwarder.right) /\ read' = read /\ forwarder.taken >= 1
          /\ forwarder.taken \in 1..MaxBytes
      BY <1>12, AirpodsAssumption DEF SendRight, ShapeInv, TypeOK, Late
    <2>2. ASSUME NEW t \in Sides
          PROVE  /\ sent'[t] \in Seq(1..MaxBytes)
                 /\ read'[t] \in 0..Len(sent'[t])
                 /\ Len(sent'[t]) - read'[t] <= Buffer
      <3>1. /\ sent[t] \in Seq(1..MaxBytes) /\ Len(sent[t]) \in Nat
            /\ read[t] \in 0..Len(sent[t]) /\ Len(sent[t]) - read[t] <= Buffer
        BY LenProperties DEF TypeOK
      <3>2. \/ sent'[t] = sent[t]
            \/ /\ sent'[t] = Append(sent[t], forwarder.taken)
               /\ Len(sent[t]) - read[t] < Buffer
        BY <2>1, PutAppends DEF Sides
      <3>3. CASE sent'[t] = sent[t]
        BY <2>1, <3>1, <3>3
      <3>4. CASE /\ sent'[t] = Append(sent[t], forwarder.taken)
                 /\ Len(sent[t]) - read[t] < Buffer
        <4>1. /\ sent'[t] \in Seq(1..MaxBytes)
              /\ Len(sent'[t]) = Len(sent[t]) + 1
          BY <2>1, <3>1, <3>4, AppendProperties
        <4> QED BY <2>1, <3>1, <3>4, <4>1, AirpodsAssumption
      <3> QED BY <3>2, <3>3, <3>4
    <2>3. /\ forwarder'.at \in {"recv", "sendRight"} /\ forwarder'.taken = forwarder.taken
          /\ UNCHANGED <<state, btConnected, connecting, phone>>
          /\ forwarder.at # "none"
      BY <1>12 DEF SendRight, Looped, ShapeInv, ForwarderShape, Early, Late
    <2> QED BY <2>2, <2>3 DEF TypeOK
  <1>13. ASSUME NEW s \in Sides, Listen(s) PROVE TypeOK'
    <2>1. ASSUME NEW t \in Sides
          PROVE  /\ read'[t] \in 0..Len(sent[t])
                 /\ Len(sent[t]) - read'[t] <= Buffer
      <3>1. /\ Len(sent[t]) \in Nat /\ Buffer \in Nat /\ read[t] \in 0..Len(sent[t])
            /\ Len(sent[t]) - read[t] <= Buffer
        BY LenProperties, AirpodsAssumption DEF TypeOK
      <3>2. \/ read'[t] = read[t]
            \/ read'[t] = read[t] + 1 /\ read[t] < Len(sent[t])
        BY <1>13 DEF Listen, ShapeInv
      <3>3. CASE read'[t] = read[t]
        BY ONLY <3>1, <3>3
      <3>4. CASE read'[t] = read[t] + 1 /\ read[t] < Len(sent[t])
        BY ONLY <3>1, <3>4
      <3> QED BY <3>2, <3>3, <3>4
    <2> QED BY <1>13, <2>1 DEF Listen, TypeOK
  <1>14. CASE UNCHANGED vars
    BY <1>14 DEF vars, TypeOK
  <1> QED BY <1>1, <1>2, <1>3, <1>4, <1>5, <1>6, <1>7, <1>8, <1>9, <1>10, <1>11, <1>12, <1>13, <1>14 DEF Next, Forward

(* The forwarder's record grows with what it has read.                     *)
LEMMA StepShapeInv == TypeOK /\ ShapeInv /\ [Next]_vars => ShapeInv'
  <1> SUFFICES ASSUME TypeOK, ShapeInv, [Next]_vars
               PROVE  ShapeInv'
    OBVIOUS
  <1>1. ASSUME NEW c \in Callers, NEW s \in Sides, Undock(c, s) PROVE ShapeInv'
    BY <1>1 DEF Undock, ShapeInv, ForwarderShape
  <1>2. ASSUME NEW c \in Callers, NEW s \in Sides, Dock(c, s) PROVE ShapeInv'
    BY <1>2 DEF Dock, ShapeInv, ForwarderShape
  <1>3. ASSUME NEW c \in Callers, Connect(c) PROVE ShapeInv'
    BY <1>3 DEF Connect, ShapeInv, ForwarderShape
  <1>4. ASSUME NEW c \in Callers, UpgradeLeft(c) PROVE ShapeInv'
    BY <1>4 DEF UpgradeLeft, Upgrade, ShapeInv, ForwarderShape
  <1>5. ASSUME NEW c \in Callers, UpgradeRight(c) PROVE ShapeInv'
    BY <1>5 DEF UpgradeRight, Upgrade, ShapeInv, ForwarderShape
  <1>6. ASSUME NEW c \in Callers, StartForwarder(c) PROVE ShapeInv'
    BY <1>6 DEF StartForwarder, ShapeInv, ForwarderShape, Early, Late
  <1>7. ASSUME PhoneSends PROVE ShapeInv'
    BY <1>7 DEF PhoneSends, ShapeInv, ForwarderShape
  <1>8. ASSUME Receive PROVE ShapeInv'
    BY <1>8 DEF Receive, TypeOK, ShapeInv, ForwarderShape, Early, Late
  <1>9. ASSUME CheckLeft PROVE ShapeInv'
    BY <1>9 DEF CheckLeft, TypeOK, ShapeInv, ForwarderShape, Early, Late
  <1>10. ASSUME CheckRight PROVE ShapeInv'
    BY <1>10 DEF CheckRight, TypeOK, ShapeInv, ForwarderShape, Early, Late
  <1>11. ASSUME SendLeft PROVE ShapeInv'
    <2>1. Put("left", forwarder.left) /\ forwarder.taken >= 1
      BY <1>11 DEF SendLeft, ShapeInv, Late
    <2>2. sent' \in [Sides -> Seq(1..MaxBytes)]
      BY <2>1, PutAppends DEF Sides
    <2> QED BY <1>11, <2>1, <2>2 DEF SendLeft, Looped, ShapeInv, ForwarderShape, Early, Late
  <1>12. ASSUME SendRight PROVE ShapeInv'
    <2>1. Put("right", forwarder.right) /\ forwarder.taken >= 1
      BY <1>12 DEF SendRight, ShapeInv, Late
    <2>2. sent' \in [Sides -> Seq(1..MaxBytes)]
      BY <2>1, PutAppends DEF Sides
    <2> QED BY <1>12, <2>1, <2>2 DEF SendRight, Looped, ShapeInv, ForwarderShape, Early, Late
  <1>13. ASSUME NEW s \in Sides, Listen(s) PROVE ShapeInv'
    BY <1>13 DEF Listen, ShapeInv, ForwarderShape
  <1>14. CASE UNCHANGED vars
    BY <1>14 DEF vars, ShapeInv, ForwarderShape
  <1> QED BY <1>1, <1>2, <1>3, <1>4, <1>5, <1>6, <1>7, <1>8, <1>9, <1>10, <1>11, <1>12, <1>13, <1>14 DEF Next, Forward

(* The byte in hand is younger than all a pod has heard.                   *)
LEMMA StepHandInv == TypeOK /\ ShapeInv /\ HandInv /\ [Next]_vars => HandInv'
  <1> SUFFICES ASSUME TypeOK, ShapeInv, HandInv, [Next]_vars
               PROVE  HandInv'
    OBVIOUS
  <1>1. ASSUME NEW c \in Callers, NEW s \in Sides, Undock(c, s) PROVE HandInv'
    BY <1>1 DEF Undock, HandInv, Pending
  <1>2. ASSUME NEW c \in Callers, NEW s \in Sides, Dock(c, s) PROVE HandInv'
    BY <1>2 DEF Dock, HandInv, Pending
  <1>3. ASSUME NEW c \in Callers, Connect(c) PROVE HandInv'
    BY <1>3 DEF Connect, HandInv, Pending
  <1>4. ASSUME NEW c \in Callers, UpgradeLeft(c) PROVE HandInv'
    BY <1>4 DEF UpgradeLeft, Upgrade, HandInv, Pending
  <1>5. ASSUME NEW c \in Callers, UpgradeRight(c) PROVE HandInv'
    BY <1>5 DEF UpgradeRight, Upgrade, HandInv, Pending
  <1>6. ASSUME NEW c \in Callers, StartForwarder(c) PROVE HandInv'
    BY <1>6 DEF StartForwarder, TypeOK, ShapeInv, HandInv, Pending, Late
  <1>7. ASSUME PhoneSends PROVE HandInv'
    BY <1>7 DEF PhoneSends, HandInv, Pending
  <1>8. ASSUME Receive PROVE HandInv'
    <2>1. ASSUME NEW s \in Sides, NEW i \in DOMAIN sent[s]
          PROVE  sent[s][i] < forwarder.taken + 1 /\ sent[s][i] <= forwarder.taken + 1
      <3>1. sent[s] \in Seq(1..MaxBytes) /\ i \in 1..Len(sent[s])
        BY LenProperties DEF TypeOK
      <3>2. sent[s][i] \in 1..MaxBytes
        BY <3>1, ElementOfSeq
      <3>3. sent[s][i] \in Int /\ forwarder.taken \in Int
        BY <3>2, AirpodsAssumption DEF TypeOK
      <3> QED BY <3>3 DEF HandInv
    <2>2. sent' = sent /\ forwarder'.taken = forwarder.taken + 1
      BY <1>8 DEF Receive
    <2> QED BY <1>8, <2>1, <2>2 DEF Receive, HandInv, Pending
  <1>9. ASSUME CheckLeft PROVE HandInv'
    BY <1>9 DEF CheckLeft, HandInv, Pending
  <1>10. ASSUME CheckRight PROVE HandInv'
    BY <1>10 DEF CheckRight, HandInv, Pending
  <1>11. ASSUME SendLeft PROVE HandInv'
    <2>1. /\ Put("left", forwarder.left) /\ forwarder.taken >= 1 /\ forwarder.taken \in 1..MaxBytes
          /\ forwarder.taken' = forwarder.taken
          /\ \A s \in Sides : Pending(s)' => Pending(s) /\ s # "left"
      BY <1>11, AirpodsAssumption DEF SendLeft, TypeOK, ShapeInv, ForwarderShape, Looped, Pending, Early, Late, Sides
    <2>2. ASSUME NEW s \in Sides, NEW i \in DOMAIN sent'[s]
          PROVE  /\ sent'[s][i] <= forwarder.taken
                 /\ Pending(s)' => sent'[s][i] < forwarder.taken
      <3>1. \/ sent'[s] = sent[s]
            \/ s = "left" /\ sent'[s] = Append(sent[s], forwarder.taken)
        BY <2>1, PutAppends DEF Sides
      <3>2. CASE sent'[s] = sent[s]
        BY <2>1, <3>2 DEF HandInv
      <3>3. CASE s = "left" /\ sent'[s] = Append(sent[s], forwarder.taken)
        <4>1. \/ i \in DOMAIN sent[s] /\ sent'[s][i] = sent[s][i]
              \/ sent'[s][i] = forwarder.taken
          BY <2>1, <3>3, Appended DEF TypeOK
        <4> QED BY <2>1, <3>3, <4>1 DEF HandInv
      <3> QED BY <3>1, <3>2, <3>3
    <2> QED BY <2>1, <2>2 DEF HandInv
  <1>12. ASSUME SendRight PROVE HandInv'
    <2>1. /\ Put("right", forwarder.right) /\ forwarder.taken >= 1 /\ forwarder.taken \in 1..MaxBytes
          /\ forwarder.taken' = forwarder.taken
          /\ \A s \in Sides : Pending(s)' => Pending(s) /\ s # "right"
      BY <1>12, AirpodsAssumption DEF SendRight, TypeOK, ShapeInv, ForwarderShape, Looped, Pending, Early, Late, Sides
    <2>2. ASSUME NEW s \in Sides, NEW i \in DOMAIN sent'[s]
          PROVE  /\ sent'[s][i] <= forwarder.taken
                 /\ Pending(s)' => sent'[s][i] < forwarder.taken
      <3>1. \/ sent'[s] = sent[s]
            \/ s = "right" /\ sent'[s] = Append(sent[s], forwarder.taken)
        BY <2>1, PutAppends DEF Sides
      <3>2. CASE sent'[s] = sent[s]
        BY <2>1, <3>2 DEF HandInv
      <3>3. CASE s = "right" /\ sent'[s] = Append(sent[s], forwarder.taken)
        <4>1. \/ i \in DOMAIN sent[s] /\ sent'[s][i] = sent[s][i]
              \/ sent'[s][i] = forwarder.taken
          BY <2>1, <3>3, Appended DEF TypeOK
        <4> QED BY <2>1, <3>3, <4>1 DEF HandInv
      <3> QED BY <3>1, <3>2, <3>3
    <2> QED BY <2>1, <2>2 DEF HandInv
  <1>13. ASSUME NEW s \in Sides, Listen(s) PROVE HandInv'
    BY <1>13 DEF Listen, HandInv, Pending
  <1>14. CASE UNCHANGED vars
    BY <1>14 DEF vars, HandInv, Pending
  <1> QED BY <1>1, <1>2, <1>3, <1>4, <1>5, <1>6, <1>7, <1>8, <1>9, <1>10, <1>11, <1>12, <1>13, <1>14 DEF Next, Forward

(* Whoever undocks behind the connecting call sees the flag.               *)
LEMMA StepNoPodLeftBehind == TypeOK /\ ShapeInv /\ NoPodLeftBehind /\ [Next]_vars => NoPodLeftBehind'
  <1> SUFFICES ASSUME TypeOK, ShapeInv, NoPodLeftBehind, [Next]_vars
               PROVE  NoPodLeftBehind'
    OBVIOUS
  <1>1. ASSUME NEW c \in Callers, NEW s \in Sides, Undock(c, s) PROVE NoPodLeftBehind'
    <2>1. PICK bt \in Seen(s) :
            state' = [state EXCEPT ![s] = IF bt THEN "Connected" ELSE "Disconnected"]
      BY <1>1 DEF Undock
    <2>2. Passed(s) => bt
      <3>1. Passed(s) => btConnected
        BY DEF TypeOK, Passed, Sides
      <3> QED BY <2>1, <3>1 DEF Seen
    <2> QED BY <1>1, <2>1, <2>2 DEF Undock, NoPodLeftBehind, Passed, TypeOK
  <1>2. ASSUME NEW c \in Callers, NEW s \in Sides, Dock(c, s) PROVE NoPodLeftBehind'
    BY <1>2 DEF Dock, NoPodLeftBehind, Passed, TypeOK
  <1>3. ASSUME NEW c \in Callers, Connect(c) PROVE NoPodLeftBehind'
    BY <1>3 DEF Connect, NoPodLeftBehind, Passed, Sides
  <1>4. ASSUME NEW c \in Callers, UpgradeLeft(c) PROVE NoPodLeftBehind'
    BY <1>4 DEF UpgradeLeft, Upgrade, Upgraded, NoPodLeftBehind, Passed, TypeOK, ShapeInv, Sides
  <1>5. ASSUME NEW c \in Callers, UpgradeRight(c) PROVE NoPodLeftBehind'
    BY <1>5 DEF UpgradeRight, Upgrade, Upgraded, NoPodLeftBehind, Passed, TypeOK, ShapeInv, Sides
  <1>6. ASSUME NEW c \in Callers, StartForwarder(c) PROVE NoPodLeftBehind'
    BY <1>6 DEF StartForwarder, NoPodLeftBehind, Passed, ShapeInv, Sides
  <1>7. ASSUME PhoneSends PROVE NoPodLeftBehind'
    BY <1>7 DEF PhoneSends, NoPodLeftBehind, Passed
  <1>8. ASSUME Receive PROVE NoPodLeftBehind'
    BY <1>8 DEF Receive, NoPodLeftBehind, Passed
  <1>9. ASSUME CheckLeft PROVE NoPodLeftBehind'
    BY <1>9 DEF CheckLeft, NoPodLeftBehind, Passed
  <1>10. ASSUME CheckRight PROVE NoPodLeftBehind'
    BY <1>10 DEF CheckRight, NoPodLeftBehind, Passed
  <1>11. ASSUME SendLeft PROVE NoPodLeftBehind'
    BY <1>11 DEF SendLeft, NoPodLeftBehind, Passed
  <1>12. ASSUME SendRight PROVE NoPodLeftBehind'
    BY <1>12 DEF SendRight, NoPodLeftBehind, Passed
  <1>13. ASSUME NEW s \in Sides, Listen(s) PROVE NoPodLeftBehind'
    BY <1>13 DEF Listen, NoPodLeftBehind, Passed
  <1>14. CASE UNCHANGED vars
    BY <1>14 DEF vars, NoPodLeftBehind, Passed
  <1> QED BY <1>1, <1>2, <1>3, <1>4, <1>5, <1>6, <1>7, <1>8, <1>9, <1>10, <1>11, <1>12, <1>13, <1>14 DEF Next, Forward

(* So a send keeps the order.                                              *)
LEMMA StepBytesInOrder == TypeOK /\ ShapeInv /\ HandInv /\ BytesInOrder /\ [Next]_vars => BytesInOrder'
  <1> SUFFICES ASSUME TypeOK, ShapeInv, HandInv, BytesInOrder, [Next]_vars
               PROVE  BytesInOrder'
    OBVIOUS
  <1>1. ASSUME NEW c \in Callers, NEW s \in Sides, Undock(c, s) PROVE BytesInOrder'
    BY <1>1 DEF Undock, BytesInOrder
  <1>2. ASSUME NEW c \in Callers, NEW s \in Sides, Dock(c, s) PROVE BytesInOrder'
    BY <1>2 DEF Dock, BytesInOrder
  <1>3. ASSUME NEW c \in Callers, Connect(c) PROVE BytesInOrder'
    BY <1>3 DEF Connect, BytesInOrder
  <1>4. ASSUME NEW c \in Callers, UpgradeLeft(c) PROVE BytesInOrder'
    BY <1>4 DEF UpgradeLeft, Upgrade, BytesInOrder
  <1>5. ASSUME NEW c \in Callers, UpgradeRight(c) PROVE BytesInOrder'
    BY <1>5 DEF UpgradeRight, Upgrade, BytesInOrder
  <1>6. ASSUME NEW c \in Callers, StartForwarder(c) PROVE BytesInOrder'
    BY <1>6 DEF StartForwarder, BytesInOrder
  <1>7. ASSUME PhoneSends PROVE BytesInOrder'
    BY <1>7 DEF PhoneSends, BytesInOrder
  <1>8. ASSUME Receive PROVE BytesInOrder'
    BY <1>8 DEF Receive, BytesInOrder
  <1>9. ASSUME CheckLeft PROVE BytesInOrder'
    BY <1>9 DEF CheckLeft, BytesInOrder
  <1>10. ASSUME CheckRight PROVE BytesInOrder'
    BY <1>10 DEF CheckRight, BytesInOrder
  <1>11. ASSUME SendLeft PROVE BytesInOrder'
    <2>1. /\ Put("left", forwarder.left) /\ forwarder.taken >= 1 /\ forwarder.taken \in 1..MaxBytes
          /\ Pending("left")
      BY <1>11, AirpodsAssumption DEF SendLeft, TypeOK, ShapeInv, Pending, Late
    <2>2. ASSUME NEW s \in Sides, NEW i \in DOMAIN sent'[s], NEW j \in DOMAIN sent'[s], i < j
          PROVE  sent'[s][i] < sent'[s][j]
      <3>1. \/ sent'[s] = sent[s]
            \/ s = "left" /\ sent'[s] = Append(sent[s], forwarder.taken)
        BY <2>1, PutAppends DEF Sides
      <3>2. CASE sent'[s] = sent[s]
        BY <2>2, <3>2 DEF BytesInOrder
      <3>3. CASE s = "left" /\ sent'[s] = Append(sent[s], forwarder.taken)
        <4>1. sent[s] \in Seq(1..MaxBytes)
          BY DEF TypeOK
        <4>2. \/ j \in DOMAIN sent[s] /\ sent'[s][j] = sent[s][j]
              \/ j = Len(sent[s]) + 1 /\ sent'[s][j] = forwarder.taken
          BY <2>1, <3>3, <4>1, Appended
        <4>3. DOMAIN sent[s] = 1..Len(sent[s]) /\ Len(sent[s]) \in Nat
          BY <4>1, LenProperties
        <4>4. i \in DOMAIN sent[s] /\ sent'[s][i] = sent[s][i]
          BY <2>1, <2>2, <3>3, <4>1, <4>2, <4>3, Appended
        <4> QED BY <2>1, <2>2, <3>3, <4>2, <4>4 DEF BytesInOrder, HandInv
      <3> QED BY <3>1, <3>2, <3>3
    <2> QED BY <2>2 DEF BytesInOrder
  <1>12. ASSUME SendRight PROVE BytesInOrder'
    <2>1. /\ Put("right", forwarder.right) /\ forwarder.taken >= 1 /\ forwarder.taken \in 1..MaxBytes
          /\ Pending("right")
      BY <1>12, AirpodsAssumption DEF SendRight, TypeOK, ShapeInv, Pending, Late
    <2>2. ASSUME NEW s \in Sides, NEW i \in DOMAIN sent'[s], NEW j \in DOMAIN sent'[s], i < j
          PROVE  sent'[s][i] < sent'[s][j]
      <3>1. \/ sent'[s] = sent[s]
            \/ s = "right" /\ sent'[s] = Append(sent[s], forwarder.taken)
        BY <2>1, PutAppends DEF Sides
      <3>2. CASE sent'[s] = sent[s]
        BY <2>2, <3>2 DEF BytesInOrder
      <3>3. CASE s = "right" /\ sent'[s] = Append(sent[s], forwarder.taken)
        <4>1. sent[s] \in Seq(1..MaxBytes)
          BY DEF TypeOK
        <4>2. \/ j \in DOMAIN sent[s] /\ sent'[s][j] = sent[s][j]
              \/ j = Len(sent[s]) + 1 /\ sent'[s][j] = forwarder.taken
          BY <2>1, <3>3, <4>1, Appended
        <4>3. DOMAIN sent[s] = 1..Len(sent[s]) /\ Len(sent[s]) \in Nat
          BY <4>1, LenProperties
        <4>4. i \in DOMAIN sent[s] /\ sent'[s][i] = sent[s][i]
          BY <2>1, <2>2, <3>3, <4>1, <4>2, <4>3, Appended
        <4> QED BY <2>1, <2>2, <3>3, <4>2, <4>4 DEF BytesInOrder, HandInv
      <3> QED BY <3>1, <3>2, <3>3
    <2> QED BY <2>2 DEF BytesInOrder
  <1>13. ASSUME NEW s \in Sides, Listen(s) PROVE BytesInOrder'
    BY <1>13 DEF Listen, BytesInOrder
  <1>14. CASE UNCHANGED vars
    BY <1>14 DEF vars, BytesInOrder
  <1> QED BY <1>1, <1>2, <1>3, <1>4, <1>5, <1>6, <1>7, <1>8, <1>9, <1>10, <1>11, <1>12, <1>13, <1>14 DEF Next, Forward

-----------------------------------------------------------------------------
LEMMA Inductive == Spec => []IInv
  <1>1. IInv /\ [Next]_vars => IInv'
    BY StepTypeOK, StepShapeInv, StepHandInv, StepNoPodLeftBehind, StepBytesInOrder DEF IInv
  <1> QED BY InitIInv, <1>1, PTL DEF Spec

(***************************************************************************)
(* A pod is never left out unconnected by a connecting call that has been  *)
(* through it, no channel exceeds its capacity, and each pod hears the     *)
(* phone's bytes in order and at most once: for any number of goroutines,  *)
(* any capacity and any number of bytes.                                   *)
(***************************************************************************)
THEOREM CaseInvariant == Spec => []Inv
  <1>1. IInv => Inv
    BY DEF IInv, Inv
  <1> QED BY Inductive, <1>1, PTL
=============================================================================
