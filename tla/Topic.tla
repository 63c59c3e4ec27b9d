------------------------------- MODULE Topic --------------------------------
(***************************************************************************)
(* One topic of the message broker (message-broker/server/topic.go and the *)
(* request handlers of server/server.go): the handlers of several          *)
(* connections publish, subscribe and leave while the dispatcher goroutine *)
(* of the topic pops the heap and writes to the subscribers.  A step is    *)
(* what happens between two scheduling points: a critical section of       *)
(* Topic.mu, a channel operation, or a write to a connection.              *)
(*                                                                         *)
(* The heap is the set of its messages; MessageQueue justifies this.       *)
(***************************************************************************)
EXTENDS Integers, Sequences

CONSTANTS
  Clients,     (* the connections                                          *)
  Publishers,  (* the clients that send publish requests                   *)
  Subscribers, (* the clients that send subscribe and unsubscribe requests *)
  Faulty,      (* the clients whose connection may break at any time       *)
  Readers,     (* the clients that keep reading what the server sends      *)
  Priorities,  (* values of the priority field of publish requests         *)
  MaxSeq,      (* bound on the number of publishes                         *)
  Window       (* bound on the unread JSON values a socket buffers         *)

ASSUME TopicAssumption ==
  /\ Clients # {}
  /\ Publishers \cup Subscribers \cup Faulty \cup Readers \subseteq Clients
  /\ Priorities \subseteq Int
  /\ MaxSeq \in Nat
  /\ Window \in Nat \ {0}

VARIABLES
  seq,        (* Topic.seq                                                 *)
  mq,         (* Topic.MQ                                                  *)
  joinedSeq,  (* Topic.subscribers: joinedSeq per client, None if absent   *)
  notify,     (* TRUE iff the one-slot channel Topic.notify holds a token  *)
  stopped,    (* TRUE iff Server.stopCh is closed                          *)
  hpc,        (* where the handler goroutine of each connection is         *)
  open,       (* the connection accepts writes                             *)
  unread,     (* JSON values written to the connection and not yet read    *)
  dpc,        (* where the dispatcher goroutine is                         *)
  msg,        (* the local msg of topicLoop                                *)
  recips,     (* rest of the local subs: recipients still to be written to *)
  cur,        (* the recipient whose Send is in progress                   *)
  audience,   (* history: who was subscribed when message s was published  *)
  poppedAt,   (* history: value of seq when message s was popped, 0 before *)
  delivered   (* history: the messages written to each connection          *)

topicVars == <<seq, mq, joinedSeq, notify>>
handlerVars == <<hpc, open, unread>>
dispatcherVars == <<dpc, msg, recips, cur>>
historyVars == <<audience, poppedAt, delivered>>
vars == <<topicVars, stopped, handlerVars, dispatcherVars, historyVars>>

None == -1
Message == [Seq : 1..MaxSeq, Priority : Priorities]
Nil == [Seq |-> 0, Priority |-> 0]        (* the nil *Message of popMessage *)
AnyClient == CHOOSE c \in Clients : TRUE  (* cur when no Send is in progress *)

Init ==
  /\ seq = 0
  /\ mq = {}
  /\ joinedSeq = [c \in Clients |-> None]
  /\ notify = FALSE
  /\ stopped = FALSE
  /\ hpc = [c \in Clients |-> "decode"]
  /\ open = [c \in Clients |-> TRUE]
  /\ unread = [c \in Clients |-> 0]
  /\ dpc = "select"
  /\ msg = Nil
  /\ recips = {}
  /\ cur = AnyClient
  /\ audience = [s \in 1..MaxSeq |-> {}]
  /\ poppedAt = [s \in 1..MaxSeq |-> 0]
  /\ delivered = [c \in Clients |-> <<>>]

-----------------------------------------------------------------------------
(* Helpers, each with the plausible slips of the same code that the        *)
(* mutants of the runs put in its place.                                   *)

(* MessageQueue.Less: smaller Priority first, FIFO within a priority.      *)
Less(m, n) ==
  m.Priority < n.Priority \/ (m.Priority = n.Priority /\ m.Seq < n.Seq)

(* What heap.Pop may return: the top of the heap.  A slip: a heap that     *)
(* compares priorities only is not stable.                                 *)
TopByPriority == {m \in mq : \A n \in mq : m.Priority <= n.Priority}
Top == {m \in mq : \A n \in mq \ {m} : Less(m, n)}

(* The eligibility test of snapshotSubscribers.                            *)
EligibleAll == {c \in Clients : joinedSeq[c] # None}
Eligible == {c \in Clients : joinedSeq[c] # None /\ joinedSeq[c] < msg.Seq}

(* The joinedSeq recorded by a subscribe.                                  *)
JoinedAt == seq

Goto(c, label) == hpc' = [hpc EXCEPT ![c] = label]

(* Client.Send to c: blocks while the socket buffer is full, fails on a    *)
(* closed connection (the error is ignored by every caller).               *)
Writable(c) == open[c] => unread[c] < Window
Written(c) == unread' = [unread EXCEPT ![c] = IF open[c] THEN @ + 1 ELSE @]

-----------------------------------------------------------------------------
(* The handler of connection c: one request at a time.                     *)

Subscribe(c) ==
  /\ hpc[c] = "decode"
  /\ joinedSeq' = [joinedSeq EXCEPT ![c] = JoinedAt]
  /\ Goto(c, "reply")
  /\ UNCHANGED <<seq, mq, notify, stopped, open, unread, dispatcherVars, historyVars>>

Unsubscribe(c) ==
  /\ hpc[c] = "decode"
  /\ joinedSeq' = [joinedSeq EXCEPT ![c] = None]
  /\ Goto(c, "reply")
  /\ UNCHANGED <<seq, mq, notify, stopped, open, unread, dispatcherVars, historyVars>>

(* A request that fails validation is answered with an error.              *)
Reject(c) ==
  /\ hpc[c] = "decode"
  /\ Goto(c, "reply")
  /\ UNCHANGED <<topicVars, stopped, open, unread, dispatcherVars, historyVars>>

(* The critical section of publish: number the message and push it.        *)
Push(c, p) ==
  /\ hpc[c] = "decode"
  /\ seq < MaxSeq
  /\ seq' = seq + 1
  /\ mq' = mq \cup {[Seq |-> seq + 1, Priority |-> p]}
  /\ audience' = [audience EXCEPT ![seq + 1] = {d \in Clients : joinedSeq[d] # None}]
  /\ Goto(c, "notify")
  /\ UNCHANGED <<joinedSeq, notify, stopped, open, unread, dispatcherVars,
                 poppedAt, delivered>>

(* The non-blocking send on notify: when the slot is taken the token that  *)
(* is there already wakes the dispatcher.  A slip: a channel without a     *)
(* buffer, where the publisher waits for the dispatcher.                   *)
NotifyUnbuffered(c) ==
  /\ hpc[c] = "notify"
  /\ dpc = "select"
  /\ notify' = TRUE
  /\ Goto(c, "reply")
  /\ UNCHANGED <<seq, mq, joinedSeq, stopped, open, unread, dispatcherVars, historyVars>>
Notify(c) ==
  /\ hpc[c] = "notify"
  /\ notify' = TRUE
  /\ Goto(c, "reply")
  /\ UNCHANGED <<seq, mq, joinedSeq, stopped, open, unread, dispatcherVars, historyVars>>

(* The response of the request, then the next Decode.                      *)
Reply(c) ==
  /\ hpc[c] = "reply"
  /\ Writable(c)
  /\ Written(c)
  /\ Goto(c, "decode")
  /\ UNCHANGED <<topicVars, stopped, open, dispatcherVars, historyVars>>

(* close_connection, and shutdown before its go s.Stop().                  *)
CloseRequest(c) ==
  /\ hpc[c] = "decode"
  /\ Goto(c, "bye")
  /\ UNCHANGED <<topicVars, stopped, open, unread, dispatcherVars, historyVars>>

Bye(c) ==
  /\ hpc[c] = "bye"
  /\ Writable(c)
  /\ Written(c)
  /\ Goto(c, "remove")
  /\ UNCHANGED <<topicVars, stopped, open, dispatcherVars, historyVars>>

(* Decode fails: broken connection, end of stream or malformed JSON.       *)
DecodeError(c) ==
  /\ hpc[c] = "decode"
  /\ ~open[c] \/ c \in Faulty
  /\ Goto(c, "remove")
  /\ UNCHANGED <<topicVars, stopped, open, unread, dispatcherVars, historyVars>>

(* The deferred removeClient: leave the topic, then close the connection.  *)
RemoveClient(c) ==
  /\ hpc[c] = "remove"
  /\ joinedSeq' = [joinedSeq EXCEPT ![c] = None]
  /\ Goto(c, "close")
  /\ UNCHANGED <<seq, mq, notify, stopped, open, unread, dispatcherVars, historyVars>>

CloseConn(c) ==
  /\ hpc[c] = "close"
  /\ open' = [open EXCEPT ![c] = FALSE]
  /\ Goto(c, "done")
  /\ UNCHANGED <<topicVars, stopped, unread, dispatcherVars, historyVars>>

-----------------------------------------------------------------------------
(* The peer of connection c, and Server.Stop as the topic sees it.         *)

Read(c) ==
  /\ open[c]
  /\ unread[c] > 0
  /\ unread' = [unread EXCEPT ![c] = @ - 1]
  /\ UNCHANGED <<topicVars, stopped, hpc, open, dispatcherVars, historyVars>>

Disconnect(c) ==
  /\ c \in Faulty
  /\ open[c]
  /\ open' = [open EXCEPT ![c] = FALSE]
  /\ UNCHANGED <<topicVars, stopped, hpc, unread, dispatcherVars, historyVars>>

Stop ==
  /\ ~stopped
  /\ stopped' = TRUE
  /\ UNCHANGED <<topicVars, handlerVars, dispatcherVars, historyVars>>

-----------------------------------------------------------------------------
(* topicLoop.                                                              *)

Wake ==
  /\ dpc = "select"
  /\ notify
  /\ notify' = FALSE
  /\ dpc' = "pop"
  /\ UNCHANGED <<seq, mq, joinedSeq, stopped, handlerVars, msg, recips, cur, historyVars>>

(* Go's select picks any ready case, so a token does not delay the exit.   *)
Exit ==
  /\ dpc = "select"
  /\ stopped
  /\ dpc' = "exited"
  /\ UNCHANGED <<topicVars, stopped, handlerVars, msg, recips, cur, historyVars>>

(* popMessage on a non-empty heap.  The loop pops until the heap is empty; *)
(* the slip would be to pop once per token.                                *)
Pop ==
  /\ dpc = "pop"
  /\ \E m \in Top :
       /\ msg' = m
       /\ mq' = mq \ {m}
       /\ poppedAt' = [poppedAt EXCEPT ![m.Seq] = seq]
  /\ dpc' = "snapshot"
  /\ UNCHANGED <<seq, joinedSeq, notify, stopped, handlerVars, recips, cur,
                 audience, delivered>>

Drained ==
  /\ dpc = "pop"
  /\ mq = {}
  /\ dpc' = "select"
  /\ UNCHANGED <<topicVars, stopped, handlerVars, msg, recips, cur, historyVars>>

(* snapshotSubscribers, in a critical section of its own.                  *)
Snapshot ==
  /\ dpc = "snapshot"
  /\ recips' = Eligible
  /\ dpc' = "next"
  /\ UNCHANGED <<topicVars, stopped, handlerVars, msg, cur, historyVars>>

(* The range over the snapshot, whose order is that of a Go map.           *)
NextRecipient ==
  /\ dpc = "next"
  /\ cur' \in recips
  /\ dpc' = "send"
  /\ UNCHANGED <<topicVars, stopped, handlerVars, msg, recips, historyVars>>

AfterBroadcastOnce == "select"
AfterBroadcast == "pop"
BroadcastDone ==
  /\ dpc = "next"
  /\ recips = {}
  /\ dpc' = AfterBroadcast
  /\ msg' = Nil
  /\ UNCHANGED <<topicVars, stopped, handlerVars, recips, cur, historyVars>>

RemainingNone == {}
Remaining == recips \ {cur}
Deliver ==
  /\ dpc = "send"
  /\ Writable(cur)
  /\ Written(cur)
  /\ delivered' = [delivered EXCEPT ![cur] = IF open[cur] THEN Append(@, msg) ELSE @]
  /\ recips' = Remaining
  /\ cur' = AnyClient
  /\ dpc' = "next"
  /\ UNCHANGED <<topicVars, stopped, hpc, open, msg, audience, poppedAt>>

-----------------------------------------------------------------------------
Request(c) ==
  \/ Reject(c) \/ CloseRequest(c)
  \/ c \in Subscribers /\ (Subscribe(c) \/ Unsubscribe(c))
  \/ c \in Publishers /\ \E p \in Priorities : Push(c, p)

Finish(c) ==
  \/ Notify(c) \/ Reply(c) \/ Bye(c) \/ RemoveClient(c) \/ CloseConn(c)

Peer(c) == Read(c) \/ Disconnect(c)

TopicLoop ==
  \/ Wake \/ Exit \/ Pop \/ Drained \/ Snapshot
  \/ NextRecipient \/ BroadcastDone \/ Deliver

Next ==
  \/ \E c \in Clients : Request(c) \/ Finish(c) \/ DecodeError(c) \/ Peer(c)
  \/ Stop
  \/ TopicLoop

Spec == Init /\ [][Next]_vars

(* The Go scheduler runs every goroutine that can run.  The dispatcher     *)
(* contends with the handler for Client.mu, a sync.Mutex, which hands      *)
(* itself to the longest waiter: whenever a write is possible again and    *)
(* again, it happens (strong fairness of Deliver).  A client need not send *)
(* anything, and only the clients in Readers are assumed to keep reading.  *)
Fairness ==
  /\ WF_vars(TopicLoop)
  /\ SF_vars(Deliver)
  /\ \A c \in Clients : WF_vars(Finish(c)) /\ WF_vars(~open[c] /\ DecodeError(c))
  /\ \A c \in Readers : WF_vars(Read(c))

FairSpec == Spec /\ Fairness

-----------------------------------------------------------------------------
(* Properties.                                                             *)

HandlerLabels == {"decode", "notify", "reply", "bye", "remove", "close", "done"}
LoopLabels == {"select", "pop", "snapshot", "next", "send", "exited"}

(* Every variable stays in its type: in particular a sequence number never *)
(* leaves 1..MaxSeq, no subscription is newer than the topic's counter and *)
(* no socket holds more than Window unread values.                         *)
TypeOK ==
  /\ seq \in 0..MaxSeq
  /\ mq \subseteq Message
  /\ joinedSeq \in [Clients -> {None} \cup 0..MaxSeq]
  /\ notify \in BOOLEAN
  /\ stopped \in BOOLEAN
  /\ hpc \in [Clients -> HandlerLabels]
  /\ open \in [Clients -> BOOLEAN]
  /\ unread \in [Clients -> 0..Window]
  /\ dpc \in LoopLabels
  /\ msg \in Message \cup {Nil}
  /\ recips \subseteq Clients
  /\ cur \in Clients
  /\ audience \in [1..MaxSeq -> SUBSET Clients]
  /\ poppedAt \in [1..MaxSeq -> 0..MaxSeq]
  /\ delivered \in [Clients -> Seq(Message)]

(* No message is stranded: while the heap is not empty there is a token on *)
(* notify, or a publisher about to put one there, or the dispatcher has    *)
(* not yet found the heap empty.  It is the coalescing of tokens in the    *)
(* one-slot channel (server.go, publish) that could break this.            *)
NoLostWakeup ==
  mq # {} => \/ notify
             \/ \E c \in Clients : hpc[c] = "notify"
             \/ dpc \in {"pop", "snapshot", "next", "send", "exited"}

(* Priority order as a client sees it: if n was written to c before m,     *)
(* although m goes before n in the heap order, then m was published after  *)
(* n had been popped.  Messages of one priority are thus delivered in the  *)
(* order they were published.                                              *)
NoInversion ==
  \A c \in Clients : \A i, j \in 1..Len(delivered[c]) :
    (i < j /\ Less(delivered[c][j], delivered[c][i]))
      => delivered[c][j].Seq > poppedAt[delivered[c][i].Seq]

(* The inductive invariant behind NoInversion and Implements: a            *)
(* subscription covers every message published since; a queued message has *)
(* not been popped, a delivered one has; a queued message, and the one in  *)
(* flight for the clients still waiting for it, may go before a delivered  *)
(* one in the heap order only if it was published after that one's pop.    *)
InFlight == dpc \in {"snapshot", "next", "send"}

Pending ==
  CASE dpc = "snapshot" -> Clients
    [] dpc \in {"next", "send"} -> recips
    [] OTHER -> {}

InOrder(n, m) == Less(m, n) => m.Seq > poppedAt[n.Seq]

SubscriptionInv ==
  \A c \in Clients : joinedSeq[c] # None =>
    /\ joinedSeq[c] <= seq
    /\ \A s \in 1..MaxSeq : (joinedSeq[c] < s /\ s <= seq) => c \in audience[s]

QueueInv ==
  /\ \A s \in 1..MaxSeq : poppedAt[s] <= seq /\ (poppedAt[s] # 0 => s <= seq)
  /\ \A m \in mq : m.Seq <= seq /\ poppedAt[m.Seq] = 0
  /\ \A m, n \in mq : m.Seq = n.Seq => m = n

DeliveredInv ==
  \A c \in Clients : \A i \in 1..Len(delivered[c]) :
    /\ poppedAt[delivered[c][i].Seq] # 0
    /\ \A m \in mq : InOrder(delivered[c][i], m)

InFlightInv ==
  InFlight =>
    /\ msg \in Message
    /\ poppedAt[msg.Seq] # 0
    /\ \A m \in mq : InOrder(msg, m)
    /\ \A c \in Pending : \A i \in 1..Len(delivered[c]) :
         delivered[c][i].Seq # msg.Seq /\ InOrder(delivered[c][i], msg)
    /\ dpc # "snapshot" => \A c \in recips : c \in audience[msg.Seq]
    /\ dpc = "send" => cur \in recips

(* The inductive invariant of a topic: types, the subscriptions' audience, *)
(* the queue, what was delivered, what is in flight, and no inversion.     *)
Inv ==
  /\ TypeOK
  /\ SubscriptionInv
  /\ QueueInv
  /\ DeliveredInv
  /\ InFlightInv
  /\ NoInversion

(* The abstract variables in terms of the topic's.                         *)
PS == INSTANCE PubSub WITH
        published <- seq,
        subscribed <- {c \in Clients : joinedSeq[c] # None}

(* A client is sent a message only if it was subscribed when the message   *)
(* was published, and only once: the topic implements PubSub.              *)
Implements == PS!PSSpec

(* A client that stays: it did not leave, subscribe again or lose its      *)
(* connection, and the server was not stopped.                             *)
Entitled(c, s) ==
  s <= seq /\ c \in audience[s]
Gone(c, s) ==
  stopped \/ ~open[c] \/ joinedSeq[c] = None \/ joinedSeq[c] >= s
Has(c, s) ==
  \E i \in 1..Len(delivered[c]) : delivered[c][i].Seq = s

(* The dispatcher is writing to a client that does not read.               *)
HeldUp == dpc = "send" /\ cur \notin Readers

(* Every message reaches everyone who was subscribed when it was published *)
(* and has stayed, unless the dispatcher is held up by a client that does  *)
(* not read: one dispatcher serves all subscribers of the topic in turn.   *)
EventuallyDelivered ==
  \A c \in Clients, s \in 1..MaxSeq :
    Entitled(c, s) ~> (Has(c, s) \/ Gone(c, s) \/ HeldUp)

(* A subscriber that stops reading never holds up a publisher that reads   *)
(* its own replies: the reason topic.go gives for having a dispatcher.     *)
PublisherNotHeldUp ==
  \A c \in Readers : hpc[c] = "notify" ~> hpc[c] \notin {"notify", "reply"}
=============================================================================
