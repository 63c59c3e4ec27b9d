------------------------------ MODULE MCTopic -------------------------------
(* Topic on small instances: the clients, their roles and the priorities.  *)
EXTENDS Topic

CONSTANTS c1, c2

TwoClients == {c1, c2}
First == {c1}
Second == {c2}
Nobody == {}
OnePriority == {1}
TwoPriorities == {1, 2}

-----------------------------------------------------------------------------
(* The bounds of the liveness run: the clients subscribe before the first  *)
(* publish, and c2, which does not read, does not ask to close.  Neither   *)
(* bound takes a step away that Fairness speaks of.                        *)
LiveNext ==
  /\ Next
  /\ \A c \in Clients : joinedSeq'[c] \in {None, 0}
  /\ hpc'[c2] # "bye"

LiveSpec == Init /\ [][LiveNext]_vars /\ Fairness
=============================================================================
