------------------------------- MODULE PubSub -------------------------------
(***************************************************************************)
(* What a topic of the message broker promises, with no queue, no          *)
(* dispatcher and no connection: a published message is owed to the        *)
(* clients subscribed at that instant, and a client is sent a message it   *)
(* is owed at most once.  Topic implements this specification.             *)
(***************************************************************************)
EXTENDS Integers, Sequences

CONSTANTS Clients, Priorities, MaxSeq

VARIABLES
  published,   (* number of messages published so far                      *)
  subscribed,  (* the clients subscribed now                               *)
  audience,    (* audience[s]: who was subscribed when message s was       *)
               (* published                                                *)
  delivered    (* delivered[c]: the messages sent to c, in order           *)

absVars == <<published, subscribed, audience, delivered>>

PSMessage == [Seq : 1..MaxSeq, Priority : Priorities]

PSInit ==
  /\ published = 0
  /\ subscribed = {}
  /\ audience = [s \in 1..MaxSeq |-> {}]
  /\ delivered = [c \in Clients |-> <<>>]

PSSubscribe(c) ==
  /\ subscribed' = subscribed \cup {c}
  /\ UNCHANGED <<published, audience, delivered>>

PSUnsubscribe(c) ==
  /\ subscribed' = subscribed \ {c}
  /\ UNCHANGED <<published, audience, delivered>>

PSPublish ==
  /\ published < MaxSeq
  /\ published' = published + 1
  /\ audience' = [audience EXCEPT ![published + 1] = subscribed]
  /\ UNCHANGED <<subscribed, delivered>>

(* A delivery needs no current subscription: the client may have left      *)
(* between the publish and the write to its socket.                        *)
PSDeliver(c, m) ==
  /\ m.Seq <= published
  /\ c \in audience[m.Seq]
  /\ \A i \in 1..Len(delivered[c]) : delivered[c][i].Seq # m.Seq
  /\ delivered' = [delivered EXCEPT ![c] = Append(@, m)]
  /\ UNCHANGED <<published, subscribed, audience>>

PSNext ==
  \/ PSPublish
  \/ \E c \in Clients :
       \/ PSSubscribe(c)
       \/ PSUnsubscribe(c)
       \/ \E m \in PSMessage : PSDeliver(c, m)

PSSpec == PSInit /\ [][PSNext]_absVars
=============================================================================
