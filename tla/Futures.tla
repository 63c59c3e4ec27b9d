------------------------------- MODULE Futures ------------------------------
(***************************************************************************)
(* heterogeneous-input-output: tasks run by Async and AsyncWithTimeout,    *)
(* callers that Await single futures, and one CombineFutureResults over    *)
(* some of them.  Receiving from a future takes its only value away.       *)
(***************************************************************************)
EXTENDS Naturals, Sequences, SequencesExt

CONSTANTS
  Plain,  (* futures made by Async                                         *)
  Timed,  (* futures made by AsyncWithTimeout                              *)
  Inputs  (* the arguments of CombineFutureResults, a sequence of futures  *)

ASSUME FuturesAssumption == Inputs \in Seq(Plain \cup Timed)

VARIABLES
  returned,    (* the futures whose task has returned                      *)
  expired,     (* the timed futures whose time.After has fired             *)
  resultChan,  (* FutureResult.ResultChan                                  *)
  done,        (* the futures with Done set                                *)
  given,       (* history: what was sent to each ResultChan                *)
  awaited,     (* the futures whose value was received by Await            *)
  combiner,    (* "idle", or a value received and not yet sent, or "ready" *)
  combined     (* the values sent to the combined ResultChan               *)

futureVars == <<returned, expired, resultChan, done, given, awaited, combiner, combined>>

All == Plain \cup Timed
Result(f) == [of |-> f, what |-> "result"]
Timeout(f) == [of |-> f, what |-> "timeout"]
Idle == [what |-> "idle"]
Ready == [what |-> "ready"]

FuturesInit ==
  /\ returned = {} /\ expired = {} /\ done = {} /\ awaited = {}
  /\ resultChan = [f \in All |-> <<>>] /\ given = [f \in All |-> <<>>]
  /\ combiner = Idle /\ combined = <<>>

UnchangedReceivers == UNCHANGED <<awaited, combiner, combined>>

(* t() returns, if it ever does; a timed one leaves its result in tempCh.  *)
TaskReturns(f) ==
  /\ f \notin returned
  /\ returned' = returned \cup {f}
  /\ UNCHANGED <<expired, resultChan, done, given>> /\ UnchangedReceivers

TimerFires(f) ==
  /\ f \in Timed \ expired
  /\ expired' = expired \cup {f}
  /\ UNCHANGED <<returned, resultChan, done, given>> /\ UnchangedReceivers

Send(f, value) ==
  /\ resultChan' = [resultChan EXCEPT ![f] = Append(@, value)]
  /\ given' = [given EXCEPT ![f] = Append(@, value)]
  /\ UNCHANGED <<returned, expired, done>> /\ UnchangedReceivers

(* Both cases of the select may be ready, and either is taken then.  The   *)
(* slip: a loop around the select.                                         *)
Unguarded(f) == Len(resultChan[f]) = 0
Unanswered(f) == given[f] = <<>>

SendResult(f) == Unanswered(f) /\ f \in returned /\ Send(f, Result(f))
(* A slip: the task is run before the select.                              *)
SendTimeoutLate(f) ==
  Unanswered(f) /\ f \in Timed \cap expired \cap returned /\ Send(f, Timeout(f))
SendTimeout(f) == Unanswered(f) /\ f \in Timed \cap expired /\ Send(f, Timeout(f))

(* Done is set after the result was sent, when it may be received already. *)
StoreDone(f) ==
  /\ given[f] = <<Result(f)>> /\ f \notin done
  /\ done' = done \cup {f}
  /\ UNCHANGED <<returned, expired, resultChan, given>> /\ UnchangedReceivers

-----------------------------------------------------------------------------
Receive(f) ==
  /\ resultChan[f] # <<>>
  /\ resultChan' = [resultChan EXCEPT ![f] = Tail(@)]
  /\ UNCHANGED <<returned, expired, done, given>>

Await(f) ==
  /\ Receive(f)
  /\ awaited' = awaited \cup {f}
  /\ UNCHANGED <<combiner, combined>>

CombineFutureResults ==
  /\ combiner = Idle
  /\ combiner' = Ready
  /\ UNCHANGED <<returned, expired, resultChan, done, given, awaited, combined>>

(* The loop receives from the inputs in their order.                       *)
NextInput == Inputs[Len(combined) + 1]
CombinerReceives ==
  /\ combiner = Ready /\ Len(combined) < Len(Inputs)
  /\ Receive(NextInput)
  /\ combiner' = Head(resultChan[NextInput])
  /\ UNCHANGED <<awaited, combined>>

CombinerSends ==
  /\ combiner \notin {Idle, Ready}
  /\ combined' = Append(combined, combiner)
  /\ combiner' = Ready
  /\ UNCHANGED <<returned, expired, resultChan, done, given, awaited>>

Worker(f) == SendResult(f) \/ SendTimeout(f) \/ StoreDone(f)
Combiner == CombinerReceives \/ CombinerSends

FuturesNext ==
  \/ \E f \in All : TaskReturns(f) \/ TimerFires(f) \/ Worker(f) \/ Await(f)
  \/ CombineFutureResults
  \/ Combiner

(* Timers fire and goroutines that can run do so; a task need not return,  *)
(* nobody need await it.                                                   *)
FuturesFairness ==
  /\ \A f \in Timed : WF_futureVars(TimerFires(f))
  /\ \A f \in All : WF_futureVars(Worker(f))
  /\ WF_futureVars(Combiner)

FuturesSpec == FuturesInit /\ [][FuturesNext]_futureVars

-----------------------------------------------------------------------------
Answers(f) == {Result(f), Timeout(f)}

(* Every variable stays in its type, within the channels' capacities.      *)
FuturesTypeOK ==
  /\ \A f \in All : Len(resultChan[f]) <= 1 /\ Range(resultChan[f]) \subseteq Answers(f)
  /\ done \cup awaited \subseteq All /\ Len(combined) <= Len(Inputs)

(* A future is given one answer and never both (README), the result when   *)
(* its task has returned and "timeout" only when its time is over; Done is *)
(* set only with a result.  The answer goes to one receiver, and the       *)
(* combined future lists the answers of its inputs in their order.         *)
OneAnswer ==
  /\ \A f \in All :
       /\ Len(given[f]) <= 1
       /\ given[f] = <<Result(f)>> => f \in returned
       /\ given[f] = <<Timeout(f)>> => f \in expired
       /\ f \in done => given[f] = <<Result(f)>>
       /\ f \in awaited => given[f] # <<>> /\ ~\E i \in DOMAIN combined : combined[i].of = f
  /\ \A i \in DOMAIN combined : <<combined[i]>> = given[Inputs[i]]

(* A timed future gets an answer even when its task never returns, a plain *)
(* one once its task has; and when all the inputs get theirs and nobody    *)
(* awaits one of them directly, the combined future gets them all.         *)
Answered ==
  /\ \A f \in Timed : <>(given[f] # <<>>)
  /\ \A f \in Plain : f \in returned ~> given[f] # <<>>
  /\ (/\ <>(combiner # Idle)
      /\ \A f \in Range(Inputs) : <>(given[f] # <<>>) /\ [](f \notin awaited))
     => <>(Len(combined) = Len(Inputs))
=============================================================================
