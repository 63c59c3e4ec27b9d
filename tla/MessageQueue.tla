---------------------------- MODULE MessageQueue ----------------------------
(***************************************************************************)
(* The heap of a topic (message-broker/queue/queue.go) as the array that   *)
(* container/heap keeps in order through Less, Swap, Push and Pop, an      *)
(* exchange per step.  The array is a function on 0..n-1, as the slice is  *)
(* indexed.                                                                *)
(***************************************************************************)
EXTENDS Integers, FiniteSets

CONSTANTS
  Priorities,  (* values of the priority field                             *)
  MaxSeq       (* bound on the number of pushes                            *)

ASSUME QueueAssumption == Priorities \subseteq Int /\ MaxSeq \in Nat

VARIABLES
  mq,      (* the slice: messages with their Index                         *)
  seq,     (* Topic.seq, which numbers the messages                        *)
  removed, (* history: the messages popped                                 *)
  sifting, (* "no", or the loop of container/heap under way: "up", "down"  *)
  node     (* the index it is at                                           *)

queueVars == <<mq, seq, removed, sifting, node>>

Size(h) == Cardinality(DOMAIN h)

LessByPriority(h, i, j) == h[i].Priority < h[j].Priority
Less(h, i, j) ==
  \/ h[i].Priority < h[j].Priority
  \/ h[i].Priority = h[j].Priority /\ h[i].Seq < h[j].Seq

(* Exchange two elements and refresh their Index fields.                   *)
Swap(h, i, j) ==
  [h EXCEPT ![i] = [h[j] EXCEPT !.Index = i], ![j] = [h[i] EXCEPT !.Index = j]]

(* Push of MessageQueue: append, with Index the position.                  *)
PushedCountedLate(h, m) ==
  [i \in 0..Size(h) |-> IF i = Size(h) THEN [m EXCEPT !.Index = Size(h) + 1]
                       ELSE h[i]]
PushedBack(h, m) ==
  [i \in 0..Size(h) |-> IF i = Size(h) THEN [m EXCEPT !.Index = Size(h)]
                       ELSE h[i]]

(* Pop of MessageQueue: drop the last element.                             *)
ButLast(h) == [i \in 0..Size(h) - 2 |-> h[i]]

QueueInit ==
  /\ mq = [i \in {} |-> 0]
  /\ seq = 0 /\ removed = {}
  /\ sifting = "no" /\ node = 0

-----------------------------------------------------------------------------
(* heap.Push(t.MQ, msg) under Topic.mu: append, then up.                   *)
HeapPush(p) ==
  /\ sifting = "no" /\ seq < MaxSeq
  /\ seq' = seq + 1
  /\ mq' = PushedBack(mq, [Seq |-> seq + 1, Priority |-> p, Index |-> 0])
  /\ sifting' = "up" /\ node' = Size(mq)
  /\ UNCHANGED removed

Parent(j) == (j - 1) \div 2

MovesUp == node # 0 /\ Less(mq, node, Parent(node))

Up ==
  /\ sifting = "up" /\ MovesUp
  /\ mq' = Swap(mq, Parent(node), node)
  /\ node' = Parent(node)
  /\ UNCHANGED <<seq, removed, sifting>>

UpEnds ==
  /\ sifting = "up" /\ ~MovesUp
  /\ sifting' = "no" /\ node' = 0
  /\ UNCHANGED <<mq, seq, removed>>

-----------------------------------------------------------------------------
(* heap.Pop(t.MQ): the root goes to the end, what came to its place is     *)
(* sifted down among the others, and the end is cut off.                   *)
LastIndex == Size(mq) - 1

HeapPop ==
  /\ sifting = "no" /\ Size(mq) > 0
  /\ mq' = Swap(mq, 0, LastIndex)
  /\ sifting' = "down" /\ node' = 0
  /\ UNCHANGED <<seq, removed>>

SmallerChild ==
  LET j == 2 * node + 1
  IN IF j + 1 < LastIndex /\ Less(mq, j + 1, j) THEN j + 1 ELSE j

MovesDown == 2 * node + 1 < LastIndex /\ Less(mq, SmallerChild, node)

Down ==
  /\ sifting = "down" /\ MovesDown
  /\ mq' = Swap(mq, node, SmallerChild)
  /\ node' = SmallerChild
  /\ UNCHANGED <<seq, removed, sifting>>

DownEnds ==
  /\ sifting = "down" /\ ~MovesDown
  /\ mq' = ButLast(mq)
  /\ removed' = removed \cup {[mq[LastIndex] EXCEPT !.Index = -1]}
  /\ sifting' = "no" /\ node' = 0
  /\ UNCHANGED seq

QueueNext ==
  \/ \E p \in Priorities : HeapPush(p)
  \/ HeapPop \/ Up \/ UpEnds \/ Down \/ DownEnds

QueueSpec == QueueInit /\ [][QueueNext]_queueVars

-----------------------------------------------------------------------------
(* Every variable stays in its type: the array has no gaps, and            *)
(* Message.Index is the element's position, or -1 once it was removed.     *)
QueueTypeOK ==
  /\ seq \in 0..MaxSeq
  /\ DOMAIN mq = 0..Size(mq) - 1
  /\ \A i \in DOMAIN mq :
       mq[i] \in [Seq : 1..MaxSeq, Priority : Priorities, Index : {i}]
  /\ \A m \in removed : m.Index = -1
  /\ sifting \in {"no", "up", "down"}
  /\ sifting # "no" => node \in DOMAIN mq

(* The abstract queue: the messages without their Index.                   *)
Bare(m) == [Seq |-> m.Seq, Priority |-> m.Priority]
PQ == INSTANCE PriorityQueue WITH
        content <- {Bare(mq[i]) : i \in DOMAIN mq},
        popped <- {Bare(m) : m \in removed}

(* The array is a heap: popping its elements one by one yields the         *)
(* messages by priority and, within a priority, in the order of            *)
(* publication; and no message is lost or duplicated on the way.           *)
ImplementsPriorityQueue == PQ!PQSpec
=============================================================================
