---------------------------- MODULE PriorityQueue ---------------------------
(***************************************************************************)
(* What Topic assumes of its heap: a set of messages of which Pop removes  *)
(* the one that goes first in the order of Less.  MessageQueue implements  *)
(* this specification.                                                     *)
(***************************************************************************)
EXTENDS Integers

CONSTANTS Priorities, MaxSeq

VARIABLES
  content,  (* the messages in the queue                                   *)
  popped    (* the messages popped so far                                  *)

PQMessage == [Seq : 1..MaxSeq, Priority : Priorities]

Before(m, n) ==
  m.Priority < n.Priority \/ (m.Priority = n.Priority /\ m.Seq < n.Seq)

PQInit == content = {} /\ popped = {}

PQPush(m) ==
  /\ m \notin content \cup popped
  /\ content' = content \cup {m}
  /\ popped' = popped

PQPop(m) ==
  /\ m \in content
  /\ \A n \in content \ {m} : Before(m, n)
  /\ content' = content \ {m}
  /\ popped' = popped \cup {m}

PQNext == \E m \in PQMessage : PQPush(m) \/ PQPop(m)

PQSpec == PQInit /\ [][PQNext]_<<content, popped>>
=============================================================================
