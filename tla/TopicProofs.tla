----------------------------- MODULE TopicProofs ----------------------------
(***************************************************************************)
(* Proofs about Topic, for any number of clients, priorities and publishes *)
(* and any socket window.                                                  *)
(***************************************************************************)
EXTENDS Topic, TLAPS

USE TopicAssumption DEF TopicAssumption

LEMMA AnyClientIsClient == AnyClient \in Clients
BY DEF AnyClient

(* Types alone are inductive but for cur and msg, which the loop picks     *)
(* from recips and mq: the type invariant needs no other conjunct of Inv.  *)
LEMMA InitType == Init => TypeOK
<1> SUFFICES ASSUME Init PROVE TypeOK
  OBVIOUS
<1>1. delivered \in [Clients -> Seq(Message)]
  BY DEF Init
<1>2. unread \in [Clients -> 0..Window] /\ seq \in 0..MaxSeq
  BY DEF Init
<1>3. open \in [Clients -> BOOLEAN] /\ notify \in BOOLEAN /\ stopped \in BOOLEAN
  BY DEF Init
<1>4. audience \in [1..MaxSeq -> SUBSET Clients] /\ poppedAt \in [1..MaxSeq -> 0..MaxSeq]
  BY DEF Init
<1>5. joinedSeq \in [Clients -> {None} \cup 0..MaxSeq] /\ hpc \in [Clients -> HandlerLabels]
  BY DEF Init, HandlerLabels
<1>6. dpc \in LoopLabels /\ msg \in Message \cup {Nil} /\ recips \subseteq Clients
      /\ cur \in Clients /\ mq \subseteq Message
  BY AnyClientIsClient DEF Init, LoopLabels
<1> QED BY <1>1, <1>2, <1>3, <1>4, <1>5, <1>6 DEF TypeOK

(* A completed write leaves the socket buffer within its window.           *)
LEMMA WriteBound ==
  ASSUME TypeOK, NEW c \in Clients, Writable(c), Written(c)
  PROVE  unread' \in [Clients -> 0..Window]
<1>1. unread \in [Clients -> 0..Window]
  BY DEF TypeOK
<1>2. CASE open[c]
  <2>1. unread[c] + 1 \in 0..Window
    BY <1>1, <1>2 DEF Writable
  <2> QED BY <1>1, <1>2, <2>1 DEF Written
<1>3. CASE ~open[c]
  BY <1>1, <1>3 DEF Written
<1> QED BY <1>2, <1>3

LEMMA RequestType ==
  ASSUME TypeOK, NEW c \in Clients,
         Request(c) \/ DecodeError(c) \/ Peer(c)
  PROVE  TypeOK'
<1> USE DEF TypeOK, None, HandlerLabels, Goto, topicVars, handlerVars, dispatcherVars,
            historyVars, vars
<1>1. CASE Subscribe(c)
  BY <1>1 DEF Subscribe, JoinedAt
<1>2. CASE Unsubscribe(c)
  BY <1>2 DEF Unsubscribe
<1>3. CASE Reject(c)
  BY <1>3 DEF Reject
<1>4. CASE CloseRequest(c)
  BY <1>4 DEF CloseRequest
<1>5. ASSUME NEW p \in Priorities, Push(c, p) PROVE TypeOK'
  <2>1. [Seq |-> seq + 1, Priority |-> p] \in Message
    BY <1>5 DEF Push, Message
  <2>2. seq \in 0..MaxSeq /\ seq < MaxSeq /\ seq' = seq + 1
    BY <1>5 DEF Push
  <2>3. seq' \in 0..MaxSeq
    BY <2>2, TopicAssumption
  <2>4. audience' \in [1..MaxSeq -> SUBSET Clients]
    BY <1>5 DEF Push
  <2>5. hpc' \in [Clients -> HandlerLabels]
    BY <1>5 DEF Push
  <2> QED BY <2>1, <2>3, <2>4, <2>5, <1>5 DEF Push
<1>6. CASE DecodeError(c)
  BY <1>6 DEF DecodeError
<1>7. CASE Read(c)
  <2>1. unread[c] \in 1..Window /\ unread' = [unread EXCEPT ![c] = @ - 1]
    BY <1>7, TopicAssumption DEF Read
  <2>2. unread' \in [Clients -> 0..Window]
    BY <2>1, TopicAssumption
  <2> QED BY <1>7, <2>1, <2>2 DEF Read
<1>8. CASE Disconnect(c)
  BY <1>8 DEF Disconnect
<1> QED BY <1>1, <1>2, <1>3, <1>4, <1>5, <1>6, <1>7, <1>8 DEF Request, Peer

LEMMA FinishType ==
  ASSUME TypeOK, NEW c \in Clients, Finish(c)
  PROVE  TypeOK'
<1> USE DEF TypeOK, None, HandlerLabels, Goto, topicVars, handlerVars,
            dispatcherVars, historyVars, vars
<1>1. CASE Notify(c)
  BY <1>1 DEF Notify
<1>2. CASE Reply(c)
  BY <1>2, WriteBound DEF Reply
<1>3. CASE Bye(c)
  BY <1>3, WriteBound DEF Bye
<1>4. CASE RemoveClient(c)
  BY <1>4 DEF RemoveClient
<1>5. CASE CloseConn(c)
  BY <1>5 DEF CloseConn
<1> QED BY <1>1, <1>2, <1>3, <1>4, <1>5 DEF Finish

LEMMA LoopType ==
  ASSUME TypeOK, InFlightInv, TopicLoop
  PROVE  TypeOK'
<1> USE AnyClientIsClient DEF TypeOK, None, LoopLabels, topicVars, handlerVars,
            dispatcherVars, historyVars, vars
<1>1. CASE Wake
  BY <1>1 DEF Wake
<1>2. CASE Exit
  BY <1>2 DEF Exit
<1>3. CASE Pop
  <2>1. PICK m \in mq : /\ msg' = m
                       /\ mq' = mq \ {m}
                       /\ poppedAt' = [poppedAt EXCEPT ![m.Seq] = seq]
    BY <1>3 DEF Pop, Top
  <2>2. m \in Message /\ m.Seq \in 1..MaxSeq
    BY <2>1 DEF Message
  <2> QED BY <2>1, <2>2, <1>3 DEF Pop
<1>4. CASE Drained
  BY <1>4 DEF Drained
<1>5. CASE Snapshot
  BY <1>5 DEF Snapshot, Eligible
<1>6. CASE NextRecipient
  BY <1>6 DEF NextRecipient
<1>7. CASE BroadcastDone
  BY <1>7 DEF BroadcastDone, AfterBroadcast
<1>8. CASE Deliver
  <2>1. msg \in Message
    BY <1>8 DEF Deliver, InFlightInv, InFlight
  <2>2. Append(delivered[cur], msg) \in Seq(Message)
    BY <2>1
  <2> QED BY <2>1, <2>2, <1>8, WriteBound DEF Deliver, Remaining
<1> QED BY <1>1, <1>2, <1>3, <1>4, <1>5, <1>6, <1>7, <1>8 DEF TopicLoop

LEMMA TypeStep == TypeOK /\ InFlightInv /\ [Next]_vars => TypeOK'
<1> SUFFICES ASSUME TypeOK, InFlightInv, [Next]_vars PROVE TypeOK'
  OBVIOUS
<1>1. CASE Stop
  BY <1>1 DEF Stop, TypeOK, topicVars, handlerVars, dispatcherVars, historyVars
<1>2. CASE UNCHANGED vars
  BY <1>2 DEF TypeOK, vars, topicVars, handlerVars, dispatcherVars, historyVars
<1> QED BY <1>1, <1>2, RequestType, FinishType, LoopType DEF Next

-----------------------------------------------------------------------------
(* The variables the rest of Inv speaks of, but for joinedSeq.             *)
core == <<seq, mq, dpc, msg, recips, cur, audience, poppedAt, delivered>>

(* Only a push and the steps of the loop touch them.                       *)
LEMMA CoreSteps ==
  ASSUME [Next]_vars
  PROVE  \/ UNCHANGED core
         \/ \E c \in Clients, p \in Priorities : Push(c, p)
         \/ TopicLoop
BY DEF Next, Request, Finish, Peer, Subscribe, Unsubscribe, Reject, CloseRequest,
       DecodeError, Read, Disconnect, Stop, Notify, Reply, Bye, RemoveClient, CloseConn,
       core, vars, topicVars, handlerVars, dispatcherVars, historyVars

LEMMA SubscriptionStep ==
  ASSUME Inv, [Next]_vars
  PROVE  SubscriptionInv'
<1> USE DEF Inv, TypeOK, SubscriptionInv, None, topicVars, handlerVars, dispatcherVars,
            historyVars
<1>1. ASSUME NEW c \in Clients, Subscribe(c) PROVE SubscriptionInv'
  BY <1>1 DEF Subscribe, JoinedAt
<1>2. ASSUME NEW c \in Clients, Unsubscribe(c) \/ RemoveClient(c) PROVE SubscriptionInv'
  <2>1. /\ joinedSeq' = [joinedSeq EXCEPT ![c] = None]
        /\ seq' = seq /\ audience' = audience
    BY <1>2 DEF Unsubscribe, RemoveClient
  <2>2. \A d \in Clients : joinedSeq'[d] = None \/ joinedSeq'[d] = joinedSeq[d]
    BY <2>1
  <2>3. SubscriptionInv
    OBVIOUS
  <2> QED BY ONLY <2>1, <2>2, <2>3 DEF SubscriptionInv, None
<1>3. ASSUME NEW c \in Clients, NEW p \in Priorities, Push(c, p) PROVE SubscriptionInv'
  <2>1. /\ seq' = seq + 1 /\ seq \in Nat /\ joinedSeq' = joinedSeq
        /\ audience' = [audience EXCEPT ![seq + 1] = {d \in Clients : joinedSeq[d] # None}]
        /\ audience \in [1..MaxSeq -> SUBSET Clients]
        /\ joinedSeq \in [Clients -> {None} \cup 0..MaxSeq]
    BY <1>3 DEF Push
  <2> SUFFICES ASSUME NEW d \in Clients, joinedSeq[d] # None
               PROVE  /\ joinedSeq[d] <= seq + 1
                      /\ \A s \in 1..MaxSeq :
                           (joinedSeq[d] < s /\ s <= seq + 1) => d \in audience'[s]
    BY <2>1
  <2>2. joinedSeq[d] <= seq /\ joinedSeq[d] \in Int
    BY <2>1
  <2>3. ASSUME NEW s \in 1..MaxSeq, joinedSeq[d] < s, s <= seq + 1
        PROVE  d \in audience'[s]
    <3>1. CASE s = seq + 1
      BY <2>1, <3>1
    <3>2. CASE s # seq + 1
      <4>1. s <= seq
        BY <2>1, <2>3, <3>2
      <4>2. audience'[s] = audience[s]
        BY <2>1, <3>2
      <4> QED BY <2>3, <4>1, <4>2
    <3> QED BY <3>1, <3>2
  <2> QED BY <2>1, <2>2, <2>3
<1>4. CASE UNCHANGED <<joinedSeq, seq, audience>>
  BY <1>4
<1>5. TopicLoop => UNCHANGED <<joinedSeq, seq, audience>>
  BY DEF TopicLoop, Wake, Exit, Pop, Drained, Snapshot, NextRecipient, BroadcastDone, Deliver
<1>6. ASSUME NEW c \in Clients,
             Reject(c) \/ CloseRequest(c) \/ DecodeError(c) \/ Peer(c)
               \/ Notify(c) \/ Reply(c) \/ Bye(c) \/ CloseConn(c)
      PROVE  UNCHANGED <<joinedSeq, seq, audience>>
  BY <1>6 DEF Reject, CloseRequest, DecodeError, Peer, Read, Disconnect, Notify, Reply, Bye,
              CloseConn
<1>7. Stop \/ UNCHANGED vars => UNCHANGED <<joinedSeq, seq, audience>>
  BY DEF Stop, vars
<1> QED BY <1>1, <1>2, <1>3, <1>4, <1>5, <1>6, <1>7 DEF Next, Request, Finish

LEMMA QueueStep ==
  ASSUME Inv, [Next]_vars
  PROVE  QueueInv'
<1> USE DEF Inv, TypeOK, QueueInv
<1>1. CASE UNCHANGED core
  BY <1>1 DEF core
<1>2. ASSUME NEW c \in Clients, NEW p \in Priorities, Push(c, p) PROVE QueueInv'
  <2>1. seq + 1 \in 1..MaxSeq /\ poppedAt[seq + 1] = 0
    BY <1>2 DEF Push
  <2> QED BY <2>1, <1>2 DEF Push, Message, historyVars
<1>3. CASE Pop
  <2>1. PICK m \in mq : /\ mq' = mq \ {m}
                       /\ poppedAt' = [poppedAt EXCEPT ![m.Seq] = seq]
    BY <1>3 DEF Pop, Top
  <2>2. m.Seq \in 1..MaxSeq /\ m.Seq <= seq
    BY <2>1 DEF Message
  <2>3. \A n \in mq' : n.Seq # m.Seq
    BY <2>1
  <2> QED BY <2>1, <2>2, <2>3, <1>3 DEF Pop, Message
<1>4. CASE TopicLoop /\ ~Pop
  <2>1. UNCHANGED <<seq, mq, poppedAt>>
    BY <1>4 DEF TopicLoop, Wake, Exit, Drained, Snapshot, NextRecipient, BroadcastDone, Deliver,
                topicVars, historyVars
  <2> QED BY <2>1
<1> QED BY <1>1, <1>2, <1>3, <1>4, CoreSteps

(* What each step of the loop does to the core, and what a push does.      *)
LEMMA LoopCases ==
  ASSUME Inv, TopicLoop
  PROVE  \/ /\ ~InFlight /\ ~InFlight'
            /\ UNCHANGED <<seq, mq, poppedAt, audience, delivered>>
         \/ Pop
         \/ /\ InFlight /\ UNCHANGED <<seq, mq, poppedAt, audience, delivered>>
            /\ Snapshot \/ NextRecipient \/ BroadcastDone
         \/ InFlight /\ Deliver
BY DEF TopicLoop, Wake, Exit, Drained, Snapshot, NextRecipient, BroadcastDone, Deliver, InFlight,
       AfterBroadcast, topicVars, historyVars

LEMMA DeliveredType ==
  ASSUME TypeOK, NEW c \in Clients, NEW i \in 1..Len(delivered[c])
  PROVE  /\ delivered[c] \in Seq(Message)
         /\ delivered[c][i] \in Message
         /\ delivered[c][i].Seq \in 1..MaxSeq
<1>1. delivered[c] \in Seq(Message)
  BY DEF TypeOK
<1>2. delivered[c][i] \in Message
  BY <1>1
<1> QED BY <1>1, <1>2 DEF Message

(* Appending the message in flight to its recipient's stream.              *)
LEMMA AppendMsg ==
  ASSUME TypeOK, Deliver, open[cur], msg \in Message
  PROVE  /\ \A c \in Clients : c # cur => delivered'[c] = delivered[c]
         /\ Len(delivered[cur]) \in Nat
         /\ Len(delivered'[cur]) = Len(delivered[cur]) + 1
         /\ delivered'[cur][Len(delivered[cur]) + 1] = msg
         /\ \A i \in 1..Len(delivered[cur]) : delivered'[cur][i] = delivered[cur][i]
<1>1. cur \in Clients /\ delivered \in [Clients -> Seq(Message)]
  BY DEF TypeOK
<1>2. delivered' = [delivered EXCEPT ![cur] = Append(@, msg)]
  BY DEF Deliver
<1>3. delivered[cur] \in Seq(Message) /\ delivered'[cur] = Append(delivered[cur], msg)
  BY <1>1, <1>2
<1> QED BY <1>1, <1>2, <1>3

LEMMA DeliveredStep ==
  ASSUME Inv, [Next]_vars
  PROVE  DeliveredInv' /\ NoInversion'
<1>t. TypeOK /\ QueueInv /\ DeliveredInv /\ NoInversion /\ InFlightInv
  BY DEF Inv
<1>1. CASE UNCHANGED <<mq, poppedAt, delivered>>
  BY <1>1, <1>t DEF DeliveredInv, NoInversion, InOrder, Less
<1>2. ASSUME NEW c \in Clients, NEW p \in Priorities, Push(c, p)
      PROVE  DeliveredInv' /\ NoInversion'
  <2> DEFINE new == [Seq |-> seq + 1, Priority |-> p]
  <2>1. UNCHANGED <<poppedAt, delivered>> /\ mq' = mq \cup {new} /\ new.Seq = seq + 1
    BY <1>2 DEF Push
  <2>2. ASSUME NEW d \in Clients, NEW i \in 1..Len(delivered[d])
        PROVE  new.Seq > poppedAt[delivered[d][i].Seq]
    <3>1. seq \in 0..MaxSeq /\ poppedAt \in [1..MaxSeq -> 0..MaxSeq]
      BY <1>t DEF TypeOK
    <3>2. delivered[d][i].Seq \in 1..MaxSeq
      BY <1>t, DeliveredType
    <3>3. poppedAt[delivered[d][i].Seq] <= seq
      BY <1>t, <3>2 DEF QueueInv
    <3> QED BY <2>1, <3>1, <3>2, <3>3
  <2> HIDE DEF new
  <2>3. NoInversion'
    BY <2>1, <1>t DEF NoInversion, Less
  <2>4. DeliveredInv'
    BY <2>1, <2>2, <1>t DEF DeliveredInv, InOrder, Less
  <2> QED BY <2>3, <2>4
<1>3. CASE Pop
  <2>1. PICK m \in mq : /\ mq' = mq \ {m}
                       /\ poppedAt' = [poppedAt EXCEPT ![m.Seq] = seq]
    BY <1>3 DEF Pop, Top
  <2>2. UNCHANGED delivered /\ m.Seq \in 1..MaxSeq /\ poppedAt[m.Seq] = 0
    BY <1>3, <1>t, <2>1 DEF Pop, TypeOK, Message, QueueInv
  <2>3. ASSUME NEW c \in Clients, NEW i \in 1..Len(delivered[c])
        PROVE  poppedAt'[delivered[c][i].Seq] = poppedAt[delivered[c][i].Seq]
    <3>1. poppedAt[delivered[c][i].Seq] # 0
      BY <1>t DEF DeliveredInv
    <3>2. delivered[c][i].Seq \in 1..MaxSeq /\ poppedAt \in [1..MaxSeq -> 0..MaxSeq]
      BY <1>t, DeliveredType DEF TypeOK
    <3> QED BY <2>1, <2>2, <3>1, <3>2
  <2>4. DeliveredInv'
    BY <2>1, <2>2, <2>3, <1>t DEF DeliveredInv, InOrder, Less
  <2>5. NoInversion'
    BY <2>2, <2>3, <1>t DEF NoInversion, Less
  <2> QED BY <2>4, <2>5
<1>4. CASE InFlight /\ Deliver
  <2>1. UNCHANGED <<mq, poppedAt>> /\ cur \in Clients
    BY <1>4, <1>t DEF Deliver, topicVars, TypeOK
  <2>2. /\ msg \in Message /\ poppedAt[msg.Seq] # 0
        /\ \A m \in mq : InOrder(msg, m)
        /\ \A i \in 1..Len(delivered[cur]) : InOrder(delivered[cur][i], msg)
    BY <1>4, <1>t DEF InFlightInv, InFlight, Pending, Deliver
  <2>3. CASE ~open[cur]
    <3>1. UNCHANGED delivered
      BY <1>4, <2>3, <1>t DEF Deliver, TypeOK
    <3> QED BY <2>1, <3>1, <1>1
  <2>4. CASE open[cur]
    <3>1. /\ \A c \in Clients : c # cur => delivered'[c] = delivered[c]
          /\ Len(delivered[cur]) \in Nat
          /\ Len(delivered'[cur]) = Len(delivered[cur]) + 1
          /\ delivered'[cur][Len(delivered[cur]) + 1] = msg
          /\ \A i \in 1..Len(delivered[cur]) : delivered'[cur][i] = delivered[cur][i]
      BY <1>4, <1>t, <2>2, <2>4, AppendMsg
    <3>2. \A i \in 1..Len(delivered'[cur]) :
            i \in 1..Len(delivered[cur]) \/ i = Len(delivered[cur]) + 1
      BY <3>1
    <3>3. DeliveredInv'
      <4> SUFFICES ASSUME NEW c \in Clients, NEW i \in 1..Len(delivered'[c])
                   PROVE  /\ poppedAt'[delivered'[c][i].Seq] # 0
                          /\ \A m \in mq' : Less(m, delivered'[c][i])
                                => m.Seq > poppedAt'[delivered'[c][i].Seq]
        BY DEF DeliveredInv, InOrder, Less
      <4>1. CASE c # cur
        BY <4>1, <2>1, <3>1, <1>t DEF DeliveredInv, InOrder, Less
      <4>2. CASE c = cur /\ i \in 1..Len(delivered[cur])
        BY <4>2, <2>1, <3>1, <1>t DEF DeliveredInv, InOrder, Less
      <4>3. CASE c = cur /\ i = Len(delivered[cur]) + 1
        BY <4>3, <2>1, <2>2, <3>1 DEF InOrder, Less
      <4> QED BY <4>1, <4>2, <4>3, <3>2
    <3>4. NoInversion'
      <4> SUFFICES ASSUME NEW c \in Clients, NEW i \in 1..Len(delivered'[c]),
                          NEW j \in 1..Len(delivered'[c]), i < j,
                          Less(delivered'[c][j], delivered'[c][i])
                   PROVE  delivered'[c][j].Seq > poppedAt'[delivered'[c][i].Seq]
        BY DEF NoInversion, Less
      <4>1. CASE c # cur
        BY <4>1, <2>1, <3>1, <1>t DEF NoInversion
      <4>2. CASE c = cur /\ j \in 1..Len(delivered[cur])
        <5>1. i \in 1..Len(delivered[cur])
          BY <4>2, <3>1, <3>2
        <5> QED BY <4>2, <5>1, <2>1, <3>1, <1>t DEF NoInversion
      <4>3. CASE c = cur /\ j = Len(delivered[cur]) + 1
        <5>1. i \in 1..Len(delivered[cur])
          BY <4>3, <3>1, <3>2
        <5> QED BY <4>3, <5>1, <2>1, <2>2, <3>1 DEF InOrder
      <4> QED BY <4>1, <4>2, <4>3, <3>2
    <3> QED BY <3>3, <3>4
  <2> QED BY <2>3, <2>4
<1>5. UNCHANGED core => UNCHANGED <<mq, poppedAt, delivered>>
  BY DEF core
<1>6. Snapshot \/ NextRecipient \/ BroadcastDone => UNCHANGED <<mq, poppedAt, delivered>>
  BY DEF Snapshot, NextRecipient, BroadcastDone, topicVars, historyVars
<1> QED BY <1>1, <1>2, <1>3, <1>4, <1>5, <1>6, CoreSteps, LoopCases

LEMMA InFlightStep ==
  ASSUME Inv, [Next]_vars
  PROVE  InFlightInv'
<1>t. TypeOK /\ QueueInv /\ DeliveredInv /\ SubscriptionInv /\ InFlightInv
  BY DEF Inv
<1>1. CASE UNCHANGED core
  BY <1>1, <1>t DEF core, InFlightInv, InFlight, Pending, InOrder, Less
<1>2. ASSUME NEW c \in Clients, NEW p \in Priorities, Push(c, p)
      PROVE  InFlightInv'
  <2> SUFFICES ASSUME InFlight PROVE InFlightInv'
    BY <1>2 DEF Push, InFlightInv, InFlight, dispatcherVars
  <2> DEFINE new == [Seq |-> seq + 1, Priority |-> p]
  <2>1. /\ UNCHANGED <<poppedAt, delivered, dpc, msg, recips, cur>>
        /\ mq' = mq \cup {new} /\ new.Seq = seq + 1
    BY <1>2 DEF Push, dispatcherVars
  <2>2. msg \in Message /\ poppedAt[msg.Seq] # 0 /\ msg.Seq \in 1..MaxSeq
    BY <1>t DEF InFlightInv, Message
  <2>3. new.Seq > poppedAt[msg.Seq] /\ msg.Seq # seq + 1
    BY <1>t, <2>1, <2>2 DEF QueueInv, TypeOK
  <2>4. audience'[msg.Seq] = audience[msg.Seq]
    BY <1>2, <1>t, <2>2, <2>3 DEF Push, TypeOK
  <2> HIDE DEF new
  <2> QED BY <1>t, <2>1, <2>3, <2>4 DEF InFlightInv, InFlight, Pending, InOrder, Less
<1>3. CASE Pop
  <2>1. PICK m \in Top : /\ msg' = m /\ mq' = mq \ {m}
                        /\ poppedAt' = [poppedAt EXCEPT ![m.Seq] = seq]
    BY <1>3 DEF Pop
  <2>2. m \in mq /\ m \in Message /\ m.Seq \in 1..MaxSeq /\ m.Seq <= seq /\ poppedAt[m.Seq] = 0
    BY <2>1, <1>t DEF Top, TypeOK, Message, QueueInv
  <2>3. poppedAt'[m.Seq] # 0
    BY <2>1, <2>2, <1>t DEF TypeOK
  <2>4. \A n \in mq' : ~Less(n, m)
    <3> SUFFICES ASSUME NEW n \in mq' PROVE ~Less(n, m)
      OBVIOUS
    <3>1. Less(m, n) /\ n \in Message
      BY <2>1, <1>t DEF Top, TypeOK
    <3>2. m.Seq \in 1..MaxSeq /\ n.Seq \in 1..MaxSeq
      BY <2>2, <3>1 DEF Message
    <3>3. m.Priority \in Priorities /\ n.Priority \in Priorities
      BY <2>2, <3>1 DEF Message
    <3>4. m.Priority \in Int /\ n.Priority \in Int
      BY <3>3
    <3> QED BY <3>1, <3>2, <3>4 DEF Less
  <2>5. dpc' = "snapshot" /\ UNCHANGED <<delivered, recips, cur, audience>>
    BY <1>3 DEF Pop
  <2>6. ASSUME NEW c \in Clients, NEW i \in 1..Len(delivered[c])
        PROVE  /\ delivered[c][i].Seq # m.Seq
               /\ poppedAt'[delivered[c][i].Seq] = poppedAt[delivered[c][i].Seq]
    <3>1. poppedAt[delivered[c][i].Seq] # 0
      BY <1>t DEF DeliveredInv
    <3>2. delivered[c][i].Seq \in 1..MaxSeq /\ poppedAt \in [1..MaxSeq -> 0..MaxSeq]
      BY <1>t, DeliveredType DEF TypeOK
    <3> QED BY <2>1, <2>2, <3>1, <3>2
  <2>7. ASSUME NEW c \in Clients, NEW i \in 1..Len(delivered[c]), Less(m, delivered[c][i])
        PROVE  m.Seq > poppedAt'[delivered[c][i].Seq]
    BY <2>2, <2>6, <2>7, <1>t DEF DeliveredInv, InOrder
  <2>8. Pending' = Clients /\ InFlight'
    BY <2>5 DEF Pending, InFlight
  <2>9. \A c \in Pending' : \A i \in 1..Len(delivered'[c]) :
          delivered'[c][i].Seq # msg'.Seq /\ InOrder(delivered[c][i], msg)'
    BY <2>1, <2>5, <2>6, <2>7, <2>8 DEF InOrder, Less
  <2>10. \A n \in mq' : InOrder(msg, n)'
    BY <2>1, <2>4 DEF InOrder, Less
  <2>11. msg' \in Message /\ poppedAt'[msg'.Seq] # 0 /\ dpc' = "snapshot"
    BY <2>1, <2>2, <2>3, <2>5
  <2> QED BY <2>9, <2>10, <2>11 DEF InFlightInv
<1>4. CASE Snapshot
  <2>1. /\ dpc = "snapshot" /\ dpc' = "next" /\ recips' = Eligible
        /\ UNCHANGED <<seq, mq, poppedAt, delivered, audience, msg>>
    BY <1>4 DEF Snapshot, topicVars, historyVars
  <2>2. msg \in Message /\ poppedAt[msg.Seq] # 0 /\ msg.Seq \in 1..MaxSeq
    BY <2>1, <1>t DEF InFlightInv, InFlight, Message
  <2>3. msg.Seq <= seq
    BY <2>2, <1>t DEF QueueInv
  <2>4. \A c \in Eligible : c \in Clients /\ c \in audience[msg.Seq]
    BY <2>2, <2>3, <1>t DEF Eligible, SubscriptionInv
  <2> QED BY <2>1, <2>4, <1>t DEF InFlightInv, InFlight, Pending, InOrder, Less
<1>5. CASE NextRecipient
  <2>1. /\ dpc = "next" /\ dpc' = "send" /\ cur' \in recips
        /\ UNCHANGED <<seq, mq, poppedAt, delivered, audience, msg, recips>>
    BY <1>5 DEF NextRecipient, topicVars, historyVars
  <2> QED BY <2>1, <1>t DEF InFlightInv, InFlight, Pending, InOrder, Less
<1>6. CASE BroadcastDone
  BY <1>6 DEF BroadcastDone, AfterBroadcast, InFlightInv, InFlight
<1>7. CASE InFlight /\ Deliver
  <2>1. /\ dpc = "send" /\ dpc' = "next" /\ recips' = recips \ {cur}
        /\ UNCHANGED <<seq, mq, poppedAt, audience, msg>>
    BY <1>7 DEF Deliver, Remaining, topicVars
  <2>2. \A c \in recips' : c \in Clients /\ c # cur /\ delivered'[c] = delivered[c]
    BY <1>7, <2>1, <1>t DEF Deliver, TypeOK
  <2> QED BY <2>1, <2>2, <1>t DEF InFlightInv, InFlight, Pending, InOrder, Less
<1>8. ~InFlight' => InFlightInv'
  BY DEF InFlightInv
<1> QED BY <1>1, <1>2, <1>3, <1>4, <1>5, <1>6, <1>7, <1>8, CoreSteps, LoopCases

(* The inductive invariant of the topic, and with it the priority order    *)
(* that every client observes.                                             *)
THEOREM TopicInvariant == Spec => []Inv
<1>1. Init => Inv
  <2> SUFFICES ASSUME Init PROVE Inv
    OBVIOUS
  <2>1. TypeOK
    BY InitType
  <2>2. \A c \in Clients : Len(delivered[c]) = 0
    BY DEF Init
  <2>3. SubscriptionInv /\ QueueInv /\ InFlightInv
    BY DEF Init, SubscriptionInv, QueueInv, InFlightInv, InFlight, None
  <2>4. DeliveredInv /\ NoInversion
    BY <2>2 DEF DeliveredInv, NoInversion
  <2> QED BY <2>1, <2>3, <2>4 DEF Inv
<1>2. Inv /\ [Next]_vars => Inv'
  BY TypeStep, SubscriptionStep, QueueStep, DeliveredStep, InFlightStep DEF Inv
<1> QED BY <1>1, <1>2, PTL DEF Spec

(* Variables stay in their types (TypeOK), whatever the requests.          *)
THEOREM TypeCorrect == Spec => []TypeOK
<1>1. Inv => TypeOK
  BY DEF Inv
<1> QED BY <1>1, TopicInvariant, PTL

(* A message overtakes another on a connection only if it was published    *)
(* after the other one had left the queue (NoInversion).                   *)
THEOREM PriorityOrder == Spec => []NoInversion
<1>1. Inv => NoInversion
  BY DEF Inv
<1> QED BY <1>1, TopicInvariant, PTL

(* A push either leaves a token on notify or a handler about to send one,  *)
(* and the dispatcher sleeps only on an empty heap or a pending token.     *)
THEOREM NoMessageStranded == Spec => []NoLostWakeup
<1> USE DEF NoLostWakeup
<1>1. Init => NoLostWakeup
  BY DEF Init
<1>2. TypeOK /\ NoLostWakeup /\ [Next]_vars => NoLostWakeup'
  <2> SUFFICES ASSUME TypeOK, NoLostWakeup, [Next]_vars PROVE NoLostWakeup'
    OBVIOUS
  <2>h. hpc \in [Clients -> HandlerLabels]
    BY DEF TypeOK
  <2>1. ASSUME NEW c \in Clients,
               Subscribe(c) \/ Unsubscribe(c) \/ Reject(c) \/ CloseRequest(c) \/ Reply(c)
                 \/ Bye(c) \/ DecodeError(c) \/ RemoveClient(c) \/ CloseConn(c) \/ Peer(c)
        PROVE  NoLostWakeup'
    <3>1. UNCHANGED <<mq, notify, dpc>>
      BY <2>1 DEF Subscribe, Unsubscribe, Reject, CloseRequest, Reply, Bye, DecodeError,
                  RemoveClient, CloseConn, Peer, Read, Disconnect, topicVars, dispatcherVars
    <3>2. \A d \in Clients : hpc[d] = "notify" => hpc'[d] = "notify"
      BY <2>1, <2>h DEF Subscribe, Unsubscribe, Reject, CloseRequest, Reply, Bye, DecodeError,
                  RemoveClient, CloseConn, Peer, Read, Disconnect, Goto
    <3> QED BY <3>1, <3>2
  <2>2. ASSUME NEW c \in Clients, NEW p \in Priorities, Push(c, p) PROVE NoLostWakeup'
    <3>1. hpc'[c] = "notify"
      BY <2>2, <2>h DEF Push, Goto
    <3> QED BY <3>1
  <2>3. ASSUME NEW c \in Clients, Notify(c) PROVE NoLostWakeup'
    BY <2>3 DEF Notify
  <2>4. CASE TopicLoop
    BY <2>4 DEF TopicLoop, Wake, Exit, Pop, Drained, Snapshot, NextRecipient, BroadcastDone,
                AfterBroadcast, Deliver, topicVars, handlerVars
  <2>5. CASE Stop \/ UNCHANGED vars
    BY <2>5 DEF Stop, vars, topicVars, handlerVars, dispatcherVars
  <2> QED BY <2>1, <2>2, <2>3, <2>4, <2>5 DEF Next, Request, Finish
<1> QED BY <1>1, <1>2, TypeCorrect, PTL DEF Spec

(* The topic implements PubSub: no message reaches a client that was not   *)
(* subscribed when it was published, and none reaches a client twice.      *)
THEOREM TopicImplementsPubSub == Spec => Implements
<1>1. Init => PS!PSInit
  BY DEF Init, PS!PSInit, None
<1>2. Inv /\ [Next]_vars => [PS!PSNext]_(PS!absVars)
  <2> SUFFICES ASSUME Inv, [Next]_vars PROVE [PS!PSNext]_(PS!absVars)
    OBVIOUS
  <2>t. TypeOK /\ QueueInv /\ InFlightInv
    BY DEF Inv
  <2> DEFINE subscribed == {d \in Clients : joinedSeq[d] # None}
  <2>1. ASSUME NEW c \in Clients, Subscribe(c) PROVE PS!PSSubscribe(c)
    <3>1. subscribed' = subscribed \cup {c}
      BY <2>1, <2>t DEF Subscribe, JoinedAt, TypeOK, None
    <3> QED BY <3>1, <2>1 DEF Subscribe, PS!PSSubscribe, historyVars
  <2>2. ASSUME NEW c \in Clients, Unsubscribe(c) \/ RemoveClient(c) PROVE PS!PSUnsubscribe(c)
    <3>1. subscribed' = subscribed \ {c}
      BY <2>2, <2>t DEF Unsubscribe, RemoveClient, TypeOK, None
    <3> QED BY <3>1, <2>2 DEF Unsubscribe, RemoveClient, PS!PSUnsubscribe, historyVars
  <2>3. ASSUME NEW c \in Clients, NEW p \in Priorities, Push(c, p) PROVE PS!PSPublish
    BY <2>3 DEF Push, PS!PSPublish
  <2>4. CASE Deliver /\ open[cur]
    <3>1. dpc = "send" /\ delivered' = [delivered EXCEPT ![cur] = Append(@, msg)]
      BY <2>4 DEF Deliver
    <3>2. cur \in Clients /\ cur \in recips /\ cur \in audience[msg.Seq]
      BY <3>1, <2>t DEF InFlightInv, InFlight, TypeOK
    <3>3. msg \in Message /\ msg.Seq \in 1..MaxSeq /\ poppedAt[msg.Seq] # 0
      BY <3>1, <2>t DEF InFlightInv, InFlight, Message
    <3>4. msg.Seq <= seq
      BY <3>3, <2>t DEF QueueInv
    <3>5. \A i \in 1..Len(delivered[cur]) : delivered[cur][i].Seq # msg.Seq
      BY <3>1, <3>2, <2>t DEF InFlightInv, InFlight, Pending
    <3>6. UNCHANGED <<seq, joinedSeq, audience>>
      BY <2>4 DEF Deliver, topicVars
    <3>7. PS!PSDeliver(cur, msg)
      BY <3>1, <3>2, <3>4, <3>5, <3>6 DEF PS!PSDeliver
    <3>8. msg \in PS!PSMessage
      BY <3>3 DEF Message, PS!PSMessage
    <3> QED BY <3>2, <3>7, <3>8 DEF PS!PSNext
  <2>5. CASE Deliver /\ ~open[cur]
    BY <2>5, <2>t DEF Deliver, TypeOK, PS!absVars, topicVars
  <2>6. CASE UNCHANGED <<seq, joinedSeq, audience, delivered>>
    BY <2>6 DEF PS!absVars
  <2>7. ASSUME NEW c \in Clients,
               Reject(c) \/ CloseRequest(c) \/ DecodeError(c) \/ Peer(c) \/ Notify(c)
                 \/ Reply(c) \/ Bye(c) \/ CloseConn(c)
        PROVE  UNCHANGED <<seq, joinedSeq, audience, delivered>>
    BY <2>7 DEF Reject, CloseRequest, DecodeError, Peer, Read, Disconnect, Notify, Reply, Bye,
                CloseConn, topicVars, historyVars
  <2>8. Wake \/ Exit \/ Pop \/ Drained \/ Snapshot \/ NextRecipient \/ BroadcastDone
          => UNCHANGED <<seq, joinedSeq, audience, delivered>>
    BY DEF Wake, Exit, Pop, Drained, Snapshot, NextRecipient, BroadcastDone, topicVars,
           historyVars
  <2>9. Stop \/ UNCHANGED vars => UNCHANGED <<seq, joinedSeq, audience, delivered>>
    BY DEF Stop, vars, topicVars, historyVars
  <2> QED BY <2>1, <2>2, <2>3, <2>4, <2>5, <2>6, <2>7, <2>8, <2>9
          DEF Next, Request, Finish, TopicLoop, PS!PSNext
<1> QED BY <1>1, <1>2, TopicInvariant, PTL DEF Spec, Implements, PS!PSSpec
=============================================================================
