-------------------------- MODULE ConcurrentProofs ---------------------------
(***************************************************************************)
(* Proofs about the small concurrent programs, for any constants.  The     *)
(* sections are independent of each other, but for the last. TikTak: one   *)
(* token is on its way at all times, in tikCh, with one of the             *)
(* goroutines, or between them; what has been printed follows from where   *)
(* it is (Turn). Futures: what a future was given is in its channel until  *)
(* one receiver takes it (GivenOnce). Qutex: the slot is full while one    *)
(* holds the lock. Shop: what a request that no other overlaps may have    *)
(* loaded and what its answer says, by the place of its handler (ShopInv). *)
(* Library: while requests for a book do not overlap, the one there is     *)
(* will answer what the ledger calls for (Granted). Treasure: the judge    *)
(* compares with the point asked before, so that each answer keeps the     *)
(* treasure in the interval; an answer halves it, and the halves that are  *)
(* left to ask for fit the budget (BudgetInv). Thermostat: no fan is left  *)
(* running at its target, and one that is on is driven, unless the room    *)
(* was empty (OnMeansDriven). Last, a run of one program beside the others *)
(* is a behaviour of each of them.                                         *)
(***************************************************************************)
EXTENDS MCGoroutines, Thermostat, FiniteSetTheorems, SequenceTheorems,
        WellFoundedInduction, TLAPS

(* Whose turn it is, and how much has been printed by then.                *)
Turn ==
  \/ tikCh = 1 /\ tik = "receive" /\ tak = "receive" /\ tiks = taks /\ Len(output) = 2 * taks
  \/ tikCh = 0 /\ tik = "say" /\ tak = "receive" /\ tiks = taks /\ tiks < N /\ Len(output) = 2 * taks
  \/ tikCh = 0 /\ tik = "send" /\ tak = "receive" /\ tiks = taks /\ tiks < N /\ Len(output) = 2 * taks + 1
  \/ tikCh = 0 /\ tik = "receive" /\ tak = "say" /\ tiks = taks + 1 /\ Len(output) = 2 * taks + 1
  \/ tikCh = 0 /\ tik = "receive" /\ tak = "send" /\ tiks = taks + 1 /\ Len(output) = 2 * taks + 2

TikTakInv ==
  /\ TikTakTypeOK
  /\ output \in Seq({"Tik", "Tak"})
  /\ Turn
  /\ Alternates

LEMMA TikTakStart == TikTakInit => TikTakInv
<1> SUFFICES ASSUME TikTakInit PROVE TikTakInv
  OBVIOUS
<1>1. output \in Seq({"Tik", "Tak"}) /\ Len(output) = 0 /\ Alternates
  BY EmptySeq DEF TikTakInit, Alternates
<1>2. TikTakTypeOK /\ Turn
  BY <1>1, TikTakAssumption DEF TikTakInit, TikTakTypeOK, Turn
<1> QED BY <1>1, <1>2 DEF TikTakInv

(* A word is appended after an even number of words when it is Tik, after  *)
(* an odd number when it is Tak.                                           *)
LEMMA Said ==
  ASSUME NEW s \in Seq({"Tik", "Tak"}), NEW w \in {"Tik", "Tak"},
         \A i \in DOMAIN s : s[i] = IF i % 2 = 1 THEN "Tik" ELSE "Tak",
         w = IF (Len(s) + 1) % 2 = 1 THEN "Tik" ELSE "Tak"
  PROVE  /\ Append(s, w) \in Seq({"Tik", "Tak"})
         /\ Len(Append(s, w)) = Len(s) + 1
         /\ \A i \in DOMAIN Append(s, w) :
              Append(s, w)[i] = IF i % 2 = 1 THEN "Tik" ELSE "Tak"
<1>1. Len(s) \in Nat /\ DOMAIN s = 1..Len(s)
  BY LenProperties
<1>2. /\ Append(s, w) \in Seq({"Tik", "Tak"})
      /\ Len(Append(s, w)) = Len(s) + 1
      /\ \A i \in 1..Len(s) : Append(s, w)[i] = s[i]
      /\ Append(s, w)[Len(s) + 1] = w
  BY AppendProperties
<1>3. DOMAIN Append(s, w) = 1..Len(s) + 1
  BY <1>2, LenProperties
<1>4. ASSUME NEW i \in 1..Len(s) + 1
      PROVE  Append(s, w)[i] = IF i % 2 = 1 THEN "Tik" ELSE "Tak"
  <2>1. CASE i \in 1..Len(s)
    BY <1>1, <1>2, <2>1
  <2>2. CASE i = Len(s) + 1
    BY <1>2, <2>2
  <2> QED BY <1>1, <2>1, <2>2
<1> QED BY <1>2, <1>3, <1>4

LEMMA TikTakStep == TikTakInv /\ [TikTakNext]_tiktakVars => TikTakInv'
<1> SUFFICES ASSUME TikTakInv, [TikTakNext]_tiktakVars PROVE TikTakInv'
  OBVIOUS
<1>0. Len(output) \in Nat /\ tiks \in 0..N /\ taks \in 0..N /\ N \in Nat
  BY TikTakAssumption, LenProperties DEF TikTakInv, TikTakTypeOK
<1>1. CASE TikReceive
  BY <1>0, <1>1 DEF TikReceive, TikTakInv, TikTakTypeOK, Turn, Alternates
<1>2. CASE SayTik
  <2>1. Len(output) = 2 * taks /\ tikCh = 0 /\ tak = "receive" /\ tiks = taks /\ tiks < N
    BY <1>2 DEF SayTik, TikTakInv, Turn
  <2>2. (Len(output) + 1) % 2 = 1
    BY <1>0, <2>1
  <2>3. /\ output' \in Seq({"Tik", "Tak"}) /\ Len(output') = Len(output) + 1
        /\ Alternates'
    BY <1>2, <2>2, Said DEF SayTik, TikTakInv, Alternates
  <2> QED BY <1>0, <1>2, <2>1, <2>3 DEF SayTik, TikTakInv, TikTakTypeOK, Turn
<1>3. CASE HandOver
  BY <1>0, <1>3 DEF HandOver, TikTakInv, TikTakTypeOK, Turn, Alternates
<1>4. CASE SayTak
  <2>1. Len(output) = 2 * taks + 1 /\ tikCh = 0 /\ tik = "receive" /\ tiks = taks + 1
    BY <1>4 DEF SayTak, TikTakInv, Turn
  <2>2. (Len(output) + 1) % 2 # 1
    BY <1>0, <2>1
  <2>3. /\ output' \in Seq({"Tik", "Tak"}) /\ Len(output') = Len(output) + 1
        /\ Alternates'
    BY <1>4, <2>2, Said DEF SayTak, TikTakInv, Alternates
  <2> QED BY <1>0, <1>4, <2>1, <2>3 DEF SayTak, TikTakInv, TikTakTypeOK, Turn
<1>5. CASE TakSend
  BY <1>0, <1>5 DEF TakSend, TikTakInv, TikTakTypeOK, Turn, Alternates
<1>6. CASE UNCHANGED tiktakVars
  BY <1>6 DEF tiktakVars, TikTakInv, TikTakTypeOK, Turn, Alternates
<1> QED BY <1>1, <1>2, <1>3, <1>4, <1>5, <1>6 DEF TikTakNext, Tik, Tak

LEMMA TikTakInductive == TikTakSpec => []TikTakInv
BY TikTakStart, TikTakStep, PTL DEF TikTakSpec

(* The words alternate, a Tik first, for any number of rounds: tikCh and   *)
(* takCh let each goroutine print on its turn only (main.go).              *)
THEOREM WordsAlternate == TikTakSpec => []Alternates
BY TikTakInductive, PTL DEF TikTakInv

(* tikCh never holds more than its one slot and no goroutine goes round    *)
(* more often than N times.                                                *)
THEOREM TikTakTypeCorrect == TikTakSpec => []TikTakTypeOK
BY TikTakInductive, PTL DEF TikTakInv

(* The guards of the five steps: one of them can be taken.                 *)
Unfinished == ~(TikReturned /\ TakReturned)
CanGoOn ==
  \/ tik = "receive" /\ tiks < N /\ tikCh > 0
  \/ tik = "say"
  \/ tik = "send" /\ tak = "receive" /\ taks < N
  \/ tak = "say"
  \/ tak = "send" /\ tikCh < 1
NoDeadlock == Unfinished => CanGoOn
Whole == ~Unfinished => output = Line(N)

(* When both goroutines have returned the whole line is there, and until   *)
(* then one of the two can go on: the pair never deadlocks.                *)
THEOREM NeverStuck == TikTakSpec => [](NoDeadlock /\ Whole)
<1>1. TikTakInv => NoDeadlock
  <2> SUFFICES ASSUME TikTakInv, Unfinished PROVE CanGoOn
    BY DEF NoDeadlock
  <2>1. tiks \in 0..N /\ taks \in 0..N /\ N \in Nat
    BY TikTakAssumption DEF TikTakInv, TikTakTypeOK
  <2> QED BY <2>1 DEF TikTakInv, Turn, Unfinished, TikReturned, TakReturned, CanGoOn
<1>2. TikTakInv => Whole
  <2> SUFFICES ASSUME TikTakInv, ~Unfinished PROVE output = Line(N)
    BY DEF Whole
  <2>1. Len(output) = 2 * N /\ output \in Seq({"Tik", "Tak"}) /\ N \in Nat
    BY TikTakAssumption DEF TikTakInv, Turn, TikTakTypeOK, Unfinished, TikReturned, TakReturned
  <2>2. DOMAIN output = 1..2 * N /\ output = [i \in DOMAIN output |-> output[i]]
    BY <2>1, LenProperties
  <2>3. \A i \in 1..2 * N : output[i] = Line(N)[i]
    BY <2>2 DEF TikTakInv, Alternates, Line
  <2> QED BY <2>2, <2>3 DEF Line
<1> QED BY <1>1, <1>2, TikTakInductive, PTL

-----------------------------------------------------------------------------
(* The answer a future was given, if any, has a reason; it is in the       *)
(* future's channel until one receiver takes it.                           *)
GivenOnce(f) ==
  /\ given[f] \in {<<>>, <<Result(f)>>, <<Timeout(f)>>}
  /\ given[f] = <<Result(f)>> => f \in returned
  /\ given[f] = <<Timeout(f)>> => f \in expired
  /\ f \in done => given[f] = <<Result(f)>>
  /\ resultChan[f] \in {<<>>, given[f]}
  /\ f \in awaited => given[f] # <<>> /\ resultChan[f] = <<>>

(* The combiner has this answer of f, and nobody else ever has.            *)
Holds(f, value) ==
  /\ <<value>> = given[f] /\ resultChan[f] = <<>> /\ f \notin awaited

FuturesInv ==
  /\ DOMAIN given = All /\ DOMAIN resultChan = All
  /\ done \cup awaited \subseteq All
  /\ combined \in Seq(UNION {Answers(f) : f \in All}) /\ Len(combined) <= Len(Inputs)
  /\ \A f \in All : GivenOnce(f)
  /\ \A i \in 1..Len(combined) : Holds(Inputs[i], combined[i])
  /\ combiner \notin {Idle, Ready} =>
       Len(combined) < Len(Inputs) /\ Holds(Inputs[Len(combined) + 1], combiner)

(* What a send and a receive do to a channel of one.                       *)
LEMMA OneSlot ==
  ASSUME NEW v
  PROVE  /\ Append(<<>>, v) = <<v>> /\ Head(<<v>>) = v /\ Tail(<<v>>) = <<>>
         /\ <<v>> # <<>> /\ Len(<<v>>) = 1 /\ Len(<<>>) = 0
         /\ \A w : <<v>> = <<w>> => v = w
OBVIOUS

LEMMA AnswersDiffer ==
  ASSUME NEW f
  PROVE  /\ Result(f) # Timeout(f)
         /\ Result(f).of = f /\ Timeout(f).of = f
         /\ Result(f) \in Answers(f) /\ Timeout(f) \in Answers(f)
BY DEF Result, Timeout, Answers

LEMMA InputsAreFutures == Len(Inputs) \in Nat /\ \A i \in 1..Len(Inputs) : Inputs[i] \in All
BY FuturesAssumption, LenProperties, ElementOfSeq DEF All

LEMMA FuturesStarts == FuturesInit => FuturesInv
<1> SUFFICES ASSUME FuturesInit PROVE FuturesInv
  OBVIOUS
<1>1. combined \in Seq(UNION {Answers(f) : f \in All}) /\ Len(combined) = 0
  BY EmptySeq DEF FuturesInit
<1>2. ASSUME NEW f \in All PROVE GivenOnce(f)
  BY OneSlot DEF FuturesInit, GivenOnce
<1> QED BY <1>1, <1>2, InputsAreFutures DEF FuturesInit, FuturesInv

(* The steps of the tasks and timers receive nothing.                      *)
LEMMA SendKeeps ==
  ASSUME FuturesInv, NEW f \in All,
         \/ SendResult(f)
         \/ SendTimeout(f)
  PROVE  FuturesInv'
<1>1. PICK v \in {Result(f), Timeout(f)} :
        /\ Unanswered(f) /\ Send(f, v)
        /\ v = Result(f) => f \in returned
        /\ v = Timeout(f) => f \in expired
  BY AnswersDiffer DEF SendResult, SendTimeout
<1>2. given[f] = <<>> /\ resultChan[f] = <<>> /\ f \notin awaited /\ f \notin done
  BY <1>1, OneSlot DEF Unanswered, FuturesInv, GivenOnce
<1>3. /\ given' = [given EXCEPT ![f] = <<v>>] /\ resultChan' = [resultChan EXCEPT ![f] = <<v>>]
      /\ UNCHANGED <<returned, expired, done, awaited, combiner, combined>>
  BY <1>1, <1>2, OneSlot DEF Send, UnchangedReceivers
<1>4. ASSUME NEW g \in All PROVE GivenOnce(g)'
  <2>1. CASE g = f
    BY <1>1, <1>2, <1>3, <2>1, OneSlot, AnswersDiffer DEF GivenOnce, FuturesInv
  <2>2. CASE g # f
    BY <1>3, <2>2 DEF GivenOnce, FuturesInv
  <2> QED BY <2>1, <2>2
<1>5. ASSUME NEW g \in All, NEW w, Holds(g, w) PROVE Holds(g, w)'
  BY <1>2, <1>3, <1>5, OneSlot DEF Holds, FuturesInv
<1> QED BY <1>3, <1>4, <1>5, InputsAreFutures, LenProperties DEF FuturesInv

LEMMA QuietKeeps ==
  ASSUME FuturesInv, NEW f \in All,
         TaskReturns(f) \/ TimerFires(f) \/ StoreDone(f)
  PROVE  FuturesInv'
<1>1. /\ returned \subseteq returned' /\ expired \subseteq expired'
      /\ done' = done \/ (done' = done \cup {f} /\ given[f] = <<Result(f)>>)
      /\ UNCHANGED <<resultChan, given, awaited, combiner, combined>>
  BY DEF TaskReturns, TimerFires, StoreDone, UnchangedReceivers
<1>2. ASSUME NEW g \in All PROVE GivenOnce(g)'
  BY <1>1 DEF GivenOnce, FuturesInv
<1> QED BY <1>1, <1>2 DEF FuturesInv, Holds

(* A receive takes the one answer.                                         *)
LEMMA Taken ==
  ASSUME FuturesInv, NEW f \in All, Receive(f)
  PROVE  /\ resultChan[f] = <<Head(resultChan[f])>> /\ given[f] = resultChan[f]
         /\ f \notin awaited
         /\ resultChan' = [resultChan EXCEPT ![f] = <<>>]
         /\ UNCHANGED <<returned, expired, done, given>>
         /\ \A i \in 1..Len(combined) : Inputs[i] # f
         /\ Head(resultChan[f]) \in Answers(f)
<1>1. given[f] = resultChan[f] /\ f \notin awaited /\ resultChan[f] # <<>>
  BY DEF Receive, FuturesInv, GivenOnce
<1>2. PICK v \in Answers(f) : resultChan[f] = <<v>>
  BY <1>1, AnswersDiffer DEF FuturesInv, GivenOnce
<1>3. Head(resultChan[f]) = v /\ Tail(resultChan[f]) = <<>>
  BY <1>2, OneSlot
<1>4. \A i \in 1..Len(combined) : Inputs[i] # f
  BY <1>1 DEF FuturesInv, Holds
<1> QED BY <1>1, <1>2, <1>3, <1>4 DEF Receive

LEMMA AwaitKeeps ==
  ASSUME FuturesInv, NEW f \in All, Await(f)
  PROVE  FuturesInv'
<1>1. /\ given[f] # <<>> /\ f \notin awaited /\ resultChan[f] # <<>>
      /\ resultChan' = [resultChan EXCEPT ![f] = <<>>] /\ awaited' = awaited \cup {f}
      /\ UNCHANGED <<returned, expired, done, given, combiner, combined>>
  BY Taken, OneSlot DEF Await, Receive
<1>2. ASSUME NEW g \in All PROVE GivenOnce(g)'
  <2>1. CASE g = f
    BY <1>1, <2>1 DEF GivenOnce, FuturesInv
  <2>2. CASE g # f
    BY <1>1, <2>2 DEF GivenOnce, FuturesInv
  <2> QED BY <2>1, <2>2
<1>3. ASSUME NEW g \in All, NEW w, Holds(g, w) PROVE Holds(g, w)'
  BY <1>1, <1>3 DEF Holds, FuturesInv
<1> QED BY <1>1, <1>2, <1>3, InputsAreFutures, LenProperties DEF FuturesInv

LEMMA CombinerReceivesKeeps ==
  ASSUME FuturesInv, CombinerReceives
  PROVE  FuturesInv'
<1>0. Len(combined) \in Nat /\ Len(combined) + 1 \in 1..Len(Inputs) /\ NextInput \in All
  BY InputsAreFutures, LenProperties DEF CombinerReceives, NextInput, FuturesInv
<1> PICK f \in All : f = NextInput
  BY <1>0
<1>1. f = Inputs[Len(combined) + 1]
  BY DEF NextInput
<1>2. /\ Receive(f) /\ combiner' = Head(resultChan[f]) /\ UNCHANGED <<awaited, combined>>
      /\ Len(combined) < Len(Inputs)
  BY DEF CombinerReceives
<1>3. /\ given[f] = <<combiner'>> /\ f \notin awaited /\ resultChan[f] # <<>>
      /\ resultChan' = [resultChan EXCEPT ![f] = <<>>]
      /\ UNCHANGED <<returned, expired, done, given>>
      /\ \A i \in 1..Len(combined) : Inputs[i] # f
  BY <1>1, <1>2, Taken, OneSlot DEF Receive
<1>4. ASSUME NEW g \in All PROVE GivenOnce(g)'
  <2>1. CASE g = f
    BY <1>2, <1>3, <2>1 DEF GivenOnce, FuturesInv
  <2>2. CASE g # f
    BY <1>2, <1>3, <2>2 DEF GivenOnce, FuturesInv
  <2> QED BY <2>1, <2>2
<1>5. \A i \in 1..Len(combined) : Holds(Inputs[i], combined[i])'
  BY <1>0, <1>2, <1>3, InputsAreFutures DEF Holds, FuturesInv
<1>6. Holds(f, combiner)'
  BY <1>1, <1>2, <1>3 DEF Holds, FuturesInv
<1> QED BY <1>1, <1>2, <1>3, <1>4, <1>5, <1>6 DEF FuturesInv

LEMMA CombinerSendsKeeps ==
  ASSUME FuturesInv, CombinerSends
  PROVE  FuturesInv'
<1> DEFINE all == UNION {Answers(f) : f \in All}
           f == Inputs[Len(combined) + 1]
<1>1. /\ combined \in Seq(all) /\ Len(combined) < Len(Inputs) /\ Holds(f, combiner)
      /\ combined' = Append(combined, combiner) /\ combiner' = Ready
      /\ UNCHANGED <<returned, expired, resultChan, done, given, awaited>>
  BY DEF CombinerSends, FuturesInv
<1>2. Len(combined) \in Nat /\ f \in All
  BY <1>1, InputsAreFutures, LenProperties
<1>3. combiner \in all
  <2>1. given[f] = <<Result(f)>> \/ given[f] = <<Timeout(f)>>
    BY <1>1, <1>2, OneSlot DEF FuturesInv, GivenOnce, Holds
  <2>2. combiner = Result(f) \/ combiner = Timeout(f)
    BY <1>1, <2>1, OneSlot DEF Holds
  <2> QED BY <1>2, <2>2, AnswersDiffer
<1> HIDE DEF all, f
<1>4. /\ combined' \in Seq(all) /\ Len(combined') = Len(combined) + 1
      /\ \A i \in 1..Len(combined) : combined'[i] = combined[i]
      /\ combined'[Len(combined) + 1] = combiner
  BY <1>1, <1>3, AppendProperties
<1>5. ASSUME NEW i \in 1..Len(combined') PROVE Holds(Inputs[i], combined[i])'
  <2>1. CASE i \in 1..Len(combined)
    BY <1>1, <1>4, <2>1 DEF Holds, FuturesInv
  <2>2. CASE i = Len(combined) + 1
    BY <1>1, <1>4, <2>2 DEF Holds, f
  <2> QED BY <1>2, <1>4, <2>1, <2>2
<1>6. Len(combined') <= Len(Inputs)
  BY <1>1, <1>2, <1>4, InputsAreFutures
<1>7. \A g \in All : GivenOnce(g)'
  BY <1>1 DEF FuturesInv, GivenOnce
<1> QED BY <1>1, <1>4, <1>5, <1>6, <1>7 DEF FuturesInv, all

LEMMA FuturesKeeps == FuturesInv /\ [FuturesNext]_futureVars => FuturesInv'
<1> SUFFICES ASSUME FuturesInv, [FuturesNext]_futureVars PROVE FuturesInv'
  OBVIOUS
<1>1. CASE UNCHANGED futureVars
  BY <1>1 DEF futureVars, FuturesInv, GivenOnce, Holds
<1>2. ASSUME NEW f \in All, TaskReturns(f) \/ TimerFires(f) \/ Worker(f) \/ Await(f)
      PROVE  FuturesInv'
  BY <1>2, SendKeeps, QuietKeeps, AwaitKeeps DEF Worker
<1>3. CASE CombineFutureResults
  BY <1>3 DEF CombineFutureResults, FuturesInv, GivenOnce, Holds
<1>4. CASE Combiner
  BY <1>4, CombinerReceivesKeeps, CombinerSendsKeeps DEF Combiner
<1> QED BY <1>1, <1>2, <1>3, <1>4 DEF FuturesNext

LEMMA FuturesImplies == FuturesInv => FuturesTypeOK /\ OneAnswer
<1> SUFFICES ASSUME FuturesInv PROVE FuturesTypeOK /\ OneAnswer
  OBVIOUS
<1>1. DOMAIN combined = 1..Len(combined) /\ Len(combined) \in Nat
  BY LenProperties DEF FuturesInv
<1>2. ASSUME NEW f \in All
      PROVE  /\ Len(resultChan[f]) <= 1 /\ Range(resultChan[f]) \subseteq Answers(f)
             /\ Len(given[f]) <= 1
  <2>1. resultChan[f] \in {<<>>, <<Result(f)>>, <<Timeout(f)>>} /\ given[f] \in {<<>>, <<Result(f)>>, <<Timeout(f)>>}
    BY DEF FuturesInv, GivenOnce
  <2>2. \A s \in {<<>>, <<Result(f)>>, <<Timeout(f)>>} : Len(s) <= 1 /\ Range(s) \subseteq Answers(f)
    <3>1. ASSUME NEW a \in Answers(f) PROVE Len(<<a>>) = 1 /\ Range(<<a>>) = {a}
      BY DEF Range
    <3>2. Len(<<>>) = 0 /\ Range(<<>>) = {}
      BY DEF Range
    <3>3. Result(f) \in Answers(f) /\ Timeout(f) \in Answers(f)
      BY AnswersDiffer
    <3> HIDE DEF Range
    <3>4. ASSUME NEW s \in {<<>>, <<Result(f)>>, <<Timeout(f)>>}
          PROVE  Len(s) <= 1 /\ Range(s) \subseteq Answers(f)
      <4>1. CASE s = <<>>
        BY <3>2, <4>1
      <4>2. CASE s = <<Result(f)>>
        BY <3>1, <3>3, <4>2
      <4>3. CASE s = <<Timeout(f)>>
        BY <3>1, <3>3, <4>3
      <4> QED BY <4>1, <4>2, <4>3
    <3> QED BY <3>4
  <2> QED BY <2>1, <2>2
<1>3. ASSUME NEW f \in awaited, NEW i \in DOMAIN combined PROVE combined[i].of # f
  <2> DEFINE g == Inputs[i]
  <2>1. i \in 1..Len(Inputs) /\ g \in All /\ <<combined[i]>> = given[g] /\ g # f
    BY <1>1, <1>3, InputsAreFutures DEF FuturesInv, Holds
  <2> HIDE DEF g
  <2>2. combined[i] = Result(g) \/ combined[i] = Timeout(g)
    BY <2>1, OneSlot DEF FuturesInv, GivenOnce
  <2> QED BY <2>1, <2>2, AnswersDiffer
<1>4. OneAnswer
  BY <1>1, <1>2, <1>3 DEF OneAnswer, FuturesInv, GivenOnce, Holds
<1> QED BY <1>2, <1>4 DEF FuturesTypeOK, FuturesInv

(* A future's result channel never holds more than the one answer it has   *)
(* room for, and CombineFutureChannels collects no more answers than it    *)
(* has inputs.                                                             *)
THEOREM FuturesTypeCorrect == FuturesSpec => []FuturesTypeOK
<1> QED BY FuturesStarts, FuturesKeeps, FuturesImplies, PTL DEF FuturesSpec

(* Await with a timeout and CombineFutureChannels, for any inputs:         *)
(* whichever of the result and the timer comes first, a future gets one    *)
(* answer and one receiver.                                                *)
THEOREM FuturesOneAnswer == FuturesSpec => []OneAnswer
<1> QED BY FuturesStarts, FuturesKeeps, FuturesImplies, PTL DEF FuturesSpec

-----------------------------------------------------------------------------
(* Qutex.                                                                  *)
QutexInv ==
  /\ ch \in 0..1 /\ misused \in BOOLEAN /\ holding \subseteq Goroutines
  /\ ~misused => /\ ~panicked
                 /\ \/ ch = 0 /\ holding = {}
                    \/ ch = 1 /\ \E g \in Goroutines : holding = {g}

(* Whatever the number of goroutines: as long as only holders call Unlock, *)
(* one at most has passed Lock, and no Unlock panics.                      *)
THEOREM QutexExcludes == QutexSpec => []Excludes
<1>1. QutexInit => QutexInv
  <2> SUFFICES ASSUME QutexInit PROVE QutexInv
    OBVIOUS
  <2>1. ch = 0 /\ 0 \in 0..1 /\ holding = {} /\ misused = FALSE /\ panicked = FALSE
    BY DEF QutexInit
  <2> QED BY <2>1 DEF QutexInv
<1>2. QutexInv /\ [QutexNext]_qutexVars => QutexInv'
  <2> SUFFICES ASSUME QutexInv, [QutexNext]_qutexVars PROVE QutexInv'
    OBVIOUS
  <2>1. ASSUME NEW g \in Goroutines, Lock(g) PROVE QutexInv'
    BY <2>1 DEF QutexInv, Lock
  <2>2. ASSUME NEW g \in Goroutines, Unlock(g) PROVE QutexInv'
    <3>0. QutexInv /\ Unlock(g)
      BY <2>2
    <3>1. ch' \in 0..1 /\ holding' = holding \ {g} /\ misused' = (misused \/ g \notin holding)
      BY <3>0 DEF QutexInv, Unlock
    <3>2. misused' \in BOOLEAN /\ holding' \subseteq Goroutines
      BY <3>0, <3>1 DEF QutexInv
    <3>3. ASSUME ~misused' PROVE ~panicked' /\ ch' = 0 /\ holding' = {}
      <4>1. ~misused /\ g \in holding
        BY <3>1, <3>3
      <4>2. ch = 1 /\ holding = {g} /\ ~panicked
        BY <3>0, <4>1 DEF QutexInv
      <4> QED BY <3>0, <3>1, <4>2 DEF Unlock
    <3> QED BY <3>1, <3>2, <3>3 DEF QutexInv
  <2>3. CASE UNCHANGED qutexVars
    BY <2>3 DEF QutexInv, qutexVars
  <2> QED BY <2>1, <2>2, <2>3 DEF QutexNext
<1>3. QutexInv => Excludes
  BY DEF QutexInv, Excludes
<1> QED BY <1>1, <1>2, <1>3, PTL DEF QutexSpec

-----------------------------------------------------------------------------
Brought == 1..MaxPaintings
Places == {"idle", "info", "see", "show", "sell", "append", "buy", "same?", "increment", "store"}

(* What a handler has loaded for its next store.                           *)
LoadedOK(c) ==
  /\ at[c] = "sell" => loaded[c] \in Brought
  /\ at[c] = "append" => loaded[c] \in Seq(Brought)
  /\ at[c] = "store" => loaded[c] \in 0..Len(sales)

(* Every variable's type, and what bounds firstUnsold.                     *)
ShopTypes ==
  /\ paintings \in Seq(Brought) /\ delivered \in 0..MaxPaintings
  /\ lastSeen \in [Clients -> Nothing..MaxSales]
  /\ at \in [Clients -> Places]
  /\ DOMAIN loaded = Clients
  /\ shown \in [Clients -> {Nothing} \cup Brought]
  /\ sales \in Seq({Nothing} \cup Brought) /\ Len(sales) <= MaxSales
  /\ crashed \in BOOLEAN /\ overlapped \in BOOLEAN
  /\ firstUnsold \in 0..Len(sales)
  /\ \A c \in Clients : LoadedOK(c)

(* What has been sold is what was brought first.                           *)
SoldFirst ==
  /\ Len(sales) = firstUnsold /\ firstUnsold <= Len(paintings)
  /\ \A i \in 1..firstUnsold : sales[i] = paintings[i]

(* lastSeen is the place of the painting that the client was shown, which  *)
(* is not past the first unsold one.                                       *)
Remembers(c) ==
  lastSeen[c] # Nothing =>
    /\ lastSeen[c] <= firstUnsold
    /\ lastSeen[c] < Len(paintings)
    /\ at[c] # "show" => shown[c] = paintings[lastSeen[c] + 1]

(* What a handler that nobody interferes with knows where it is.           *)
Knows(c) ==
  /\ at[c] \in {"see", "show"} => firstUnsold < Len(paintings)
  /\ at[c] \in {"show", "same?", "increment", "store"} => lastSeen[c] = firstUnsold
  /\ at[c] = "store" => loaded[c] = firstUnsold
  /\ at[c] = "append" => \E p \in Brought : loaded[c] = Append(paintings, p)

TrueAnswer ==
  /\ answer.kind = "sold" => \E i \in 1..Len(sales) : sales[i] = answer.painting
  /\ answer.kind = "i have nothing" => Len(sales) = Len(paintings)

InTurn ==
  /\ \A c, d \in Clients : at[c] # "idle" /\ at[d] # "idle" => c = d
  /\ ~crashed
  /\ SoldFirst
  /\ \A c \in Clients : Remembers(c) /\ Knows(c)
  /\ TrueAnswer

ShopInv == ShopTypes /\ (~overlapped => InTurn)

-----------------------------------------------------------------------------
LEMMA ShopStarts == ShopInit => ShopInv
<1> USE ShopAssumption
<1>1. ASSUME ShopInit PROVE ShopTypes
  <2>1. /\ <<>> \in Seq(Brought) /\ <<>> \in Seq({Nothing} \cup Brought)
        /\ Len(<<>>) = 0
    BY EmptySeq
  <2>2. /\ 0 \in 0..MaxPaintings /\ 0 \in 0..0 /\ 0 <= MaxSales /\ Nothing \in Nothing..MaxSales
    BY DEF Nothing
  <2> QED BY <1>1, <2>1, <2>2 DEF ShopInit, ShopTypes, LoadedOK, Places
<1>2. ASSUME ShopInit PROVE InTurn
  BY <1>2, EmptySeq DEF ShopInit, InTurn, SoldFirst, Remembers, Knows, TrueAnswer, Nothing
<1> QED BY <1>1, <1>2 DEF ShopInv

(* The numbers among the variables.                                        *)
LEMMA ShopNumbers ==
  ASSUME ShopTypes
  PROVE  /\ Len(paintings) \in Nat /\ Len(sales) \in Nat
         /\ firstUnsold \in Nat /\ firstUnsold <= Len(sales)
         /\ \A c \in Clients : lastSeen[c] \in Int /\ (lastSeen[c] # Nothing => lastSeen[c] \in Nat)
         /\ Nothing \in Int /\ Nothing \notin Nat
<1>1. Len(paintings) \in Nat /\ Len(sales) \in Nat
  BY LenProperties DEF ShopTypes
<1>2. Nothing \in Int /\ Nothing \notin Nat /\ \A k \in Nothing..MaxSales : k \in Int /\ (k # Nothing => k \in Nat)
  BY ShopAssumption DEF Nothing
<1> QED BY <1>1, <1>2 DEF ShopTypes

(* While handlers do not overlap the other clients have none, and they     *)
(* remember what they remembered.                                          *)
LEMMA OthersRest ==
  ASSUME ShopTypes, InTurn, NEW c \in Clients, at[c] # "idle",
         \A d \in Clients : d # c =>
           at'[d] = at[d] /\ lastSeen'[d] = lastSeen[d] /\ shown'[d] = shown[d],
         UNCHANGED <<paintings, firstUnsold, sales, crashed>>,
         Remembers(c)', Knows(c)', TrueAnswer'
  PROVE  InTurn'
<1>1. \A d \in Clients : d # c => at[d] = "idle" /\ at'[d] = "idle"
  BY DEF InTurn
<1>2. ~crashed' /\ SoldFirst'
  BY DEF InTurn, SoldFirst
<1>3. ASSUME NEW d \in Clients PROVE Remembers(d)' /\ Knows(d)'
  <2>1. CASE d = c
    BY <2>1
  <2>2. CASE d # c
    <3>1. Knows(d)'
      BY <1>1, <2>2 DEF Knows
    <3>2. Remembers(d) /\ at[d] # "show"
      BY <1>1, <2>2 DEF InTurn
    <3> QED BY <2>2, <3>1, <3>2 DEF Remembers
  <2> QED BY <2>1, <2>2
<1> QED BY <1>1, <1>2, <1>3 DEF InTurn

LEMMA BeginKeeps ==
  ASSUME ShopInv, NEW c \in Clients, NEW place \in {"info", "buy"},
         ReceiveMessage(c, place) \/ ReceivePainting(c)
  PROVE  ShopInv'
<1> USE ShopAssumption
<1>0. /\ ShopTypes
      /\ ~overlapped => InTurn
  BY DEF ShopInv
<1>9. /\ Len(paintings) \in Nat /\ Len(sales) \in Nat
      /\ firstUnsold \in Nat /\ firstUnsold <= Len(sales)
      /\ \A d \in Clients : lastSeen[d] \in Int /\ (lastSeen[d] # Nothing => lastSeen[d] \in Nat)
      /\ Nothing \in Int /\ Nothing \notin Nat
  BY <1>0, ShopNumbers
<1>1. /\ ~crashed /\ at[c] = "idle"
      /\ \E p \in {"info", "buy", "sell"} :
           /\ at' = [at EXCEPT ![c] = p]
           /\ p = "sell" => loaded' = [loaded EXCEPT ![c] = delivered + 1] /\ delivered < MaxPaintings
                            /\ delivered' = delivered + 1
           /\ p # "sell" => UNCHANGED <<loaded, delivered>>
      /\ overlapped' = (overlapped \/ \E d \in Clients : at[d] # "idle")
      /\ UNCHANGED <<paintings, firstUnsold, lastSeen, crashed, shown, sales, answer>>
  BY DEF ReceiveMessage, ReceivePainting, Begin, Goto, Load
<1>2. ShopTypes'
  BY <1>0, <1>1 DEF ShopTypes, LoadedOK, Places, Brought
<1>3. ASSUME ~overlapped' PROVE InTurn'
  <2>1. ~overlapped /\ InTurn /\ \A d \in Clients : at[d] = "idle"
    BY <1>0, <1>1, <1>3
  <2> QED
    <3>1. \A d \in Clients : d # c => at'[d] = "idle"
      BY <1>0, <1>1, <2>1 DEF ShopTypes
    <3>2. at'[c] \in {"info", "buy", "sell"}
      <4>1. at \in [Clients -> Places]
        BY <1>0 DEF ShopTypes
      <4> QED BY <1>1, <4>1
    <3>3. ~crashed' /\ SoldFirst' /\ TrueAnswer'
      BY <1>1, <2>1 DEF InTurn, SoldFirst, TrueAnswer
    <3>4. ASSUME NEW d \in Clients PROVE Knows(d)'
      BY <3>1, <3>2 DEF Knows
    <3>5. ASSUME NEW d \in Clients PROVE Remembers(d)'
      <4>1. Remembers(d) /\ at[d] # "show"
        BY <2>1 DEF InTurn
      <4> QED BY <1>1, <4>1 DEF Remembers
    <3> QED BY <3>1, <3>3, <3>4, <3>5 DEF InTurn
<1> QED BY <1>2, <1>3 DEF ShopInv

LEMMA InfoCompareKeeps ==
  ASSUME ShopInv, NEW c \in Clients, InfoCompare(c)
  PROVE  ShopInv'
<1> USE ShopAssumption
<1>0. /\ ShopTypes
      /\ ~overlapped => InTurn
  BY DEF ShopInv
<1>9. /\ Len(paintings) \in Nat /\ Len(sales) \in Nat
      /\ firstUnsold \in Nat /\ firstUnsold <= Len(sales)
      /\ \A d \in Clients : lastSeen[d] \in Int /\ (lastSeen[d] # Nothing => lastSeen[d] \in Nat)
      /\ Nothing \in Int /\ Nothing \notin Nat
  BY <1>0, ShopNumbers
<1>1. ShopTypes'
  BY <1>0 DEF InfoCompare, At, Reply, Goto, ShopTypes, LoadedOK, Places
<1>2. ASSUME ~overlapped' PROVE InTurn'
  <2>1. InTurn
    BY <1>0, <1>2 DEF InfoCompare, At
  <2>8. /\ at[c] # "idle"
        /\ \A d \in Clients : d # c =>
             at'[d] = at[d] /\ lastSeen'[d] = lastSeen[d] /\ shown'[d] = shown[d]
        /\ UNCHANGED <<paintings, firstUnsold, sales, crashed>>
    BY <1>0 DEF InfoCompare, ShopTypes, At, Reply, Goto
  <2>9. Remembers(c)' /\ Knows(c)' /\ TrueAnswer'
    <3>1. Remembers(c) /\ SoldFirst /\ TrueAnswer /\ at[c] = "info"
      BY <2>1 DEF InTurn, InfoCompare, At
    <3>2. UNCHANGED <<paintings, firstUnsold, lastSeen, shown, sales>> /\ at \in [Clients -> Places]
      BY <1>0 DEF InfoCompare, ShopTypes
    <3>3. CASE firstUnsold >= Len(paintings)
      <4>1. at'[c] = "idle" /\ answer'.kind = "i have nothing"
        <5>1. Reply(c, [kind |-> "i have nothing"])
          BY <3>3 DEF InfoCompare
        <5> QED BY <3>2, <5>1 DEF Reply, Goto
      <4>2. Len(sales) = Len(paintings)
        BY <1>9, <3>1, <3>3 DEF SoldFirst
      <4> QED BY <3>1, <3>2, <4>1, <4>2 DEF Remembers, Knows, TrueAnswer
    <3>4. CASE ~(firstUnsold >= Len(paintings))
      <4>1. at'[c] = "see" /\ answer' = answer
        BY <3>2, <3>4 DEF InfoCompare, Goto
      <4>2. firstUnsold < Len(paintings)
        BY <1>9, <3>4
      <4> QED BY <3>1, <3>2, <4>1, <4>2 DEF Remembers, Knows, TrueAnswer
    <3> QED BY <3>3, <3>4
  <2> QED
    BY <1>0, <2>1, <2>8, <2>9, OthersRest
<1> QED BY <1>1, <1>2 DEF ShopInv

LEMMA InfoSeeKeeps ==
  ASSUME ShopInv, NEW c \in Clients, InfoSee(c)
  PROVE  ShopInv'
<1> USE ShopAssumption
<1>0. /\ ShopTypes
      /\ ~overlapped => InTurn
  BY DEF ShopInv
<1>9. /\ Len(paintings) \in Nat /\ Len(sales) \in Nat
      /\ firstUnsold \in Nat /\ firstUnsold <= Len(sales)
      /\ \A d \in Clients : lastSeen[d] \in Int /\ (lastSeen[d] # Nothing => lastSeen[d] \in Nat)
      /\ Nothing \in Int /\ Nothing \notin Nat
  BY <1>0, ShopNumbers
<1>1. ShopTypes'
  <2>1. Len(sales) \in Nat
    BY <1>0, LenProperties DEF ShopTypes
  <2> QED
    BY <1>0, <2>1 DEF InfoSee, At, Goto, ShopTypes, LoadedOK, Places, Nothing
<1>2. ASSUME ~overlapped' PROVE InTurn'
  <2>1. InTurn
    BY <1>0, <1>2 DEF InfoSee, At
  <2>8. /\ at[c] # "idle"
        /\ \A d \in Clients : d # c =>
             at'[d] = at[d] /\ lastSeen'[d] = lastSeen[d] /\ shown'[d] = shown[d]
        /\ UNCHANGED <<paintings, firstUnsold, sales, crashed>>
    BY <1>0 DEF InfoSee, ShopTypes, At, Reply, Goto
  <2>9. Remembers(c)' /\ Knows(c)' /\ TrueAnswer'
    BY <1>0, <2>1, <1>9 DEF InfoSee, At, Reply, Goto, ShopTypes, InTurn, SoldFirst, Remembers, Knows, TrueAnswer
  <2> QED
    BY <1>0, <2>1, <2>8, <2>9, OthersRest
<1> QED BY <1>1, <1>2 DEF ShopInv

LEMMA InfoShowKeeps ==
  ASSUME ShopInv, NEW c \in Clients, InfoShow(c)
  PROVE  ShopInv'
<1> USE ShopAssumption
<1>0. /\ ShopTypes
      /\ ~overlapped => InTurn
  BY DEF ShopInv
<1>9. /\ Len(paintings) \in Nat /\ Len(sales) \in Nat
      /\ firstUnsold \in Nat /\ firstUnsold <= Len(sales)
      /\ \A d \in Clients : lastSeen[d] \in Int /\ (lastSeen[d] # Nothing => lastSeen[d] \in Nat)
      /\ Nothing \in Int /\ Nothing \notin Nat
  BY <1>0, ShopNumbers
<1>1. ShopTypes'
  <2>1. Len(paintings) \in Nat /\ firstUnsold \in Nat
    BY <1>0, LenProperties DEF ShopTypes
  <2>2. paintings[firstUnsold + 1] \in Brought
    BY <1>0, <2>1, ElementOfSeq DEF ShopTypes, InfoShow
  <2> QED
    BY <1>0, <2>2 DEF InfoShow, Painting, Reply, At, Goto, ShopTypes, LoadedOK, Places, Nothing
<1>2. ASSUME ~overlapped' PROVE InTurn'
  <2>1. InTurn
    BY <1>0, <1>2 DEF InfoShow, At
  <2>8. /\ at[c] # "idle"
        /\ \A d \in Clients : d # c =>
             at'[d] = at[d] /\ lastSeen'[d] = lastSeen[d] /\ shown'[d] = shown[d]
        /\ UNCHANGED <<paintings, firstUnsold, sales, crashed>>
    BY <1>0 DEF InfoShow, ShopTypes, Painting, At, Reply, Goto
  <2>9. Remembers(c)' /\ Knows(c)' /\ TrueAnswer'
    BY <1>0, <2>1 DEF InfoShow, Painting, At, Reply, Goto, ShopTypes, InTurn, Remembers, Knows, TrueAnswer
  <2> QED
    BY <1>0, <2>1, <2>8, <2>9, OthersRest
<1> QED BY <1>1, <1>2 DEF ShopInv

LEMMA InfoPanicKeeps ==
  ASSUME ShopInv, NEW c \in Clients, InfoPanic(c)
  PROVE  ShopInv'
<1>0. /\ ShopTypes
      /\ ~overlapped => InTurn
  BY DEF ShopInv
<1>9. /\ Len(paintings) \in Nat /\ Len(sales) \in Nat
      /\ firstUnsold \in Nat /\ firstUnsold <= Len(sales)
      /\ \A d \in Clients : lastSeen[d] \in Int /\ (lastSeen[d] # Nothing => lastSeen[d] \in Nat)
      /\ Nothing \in Int /\ Nothing \notin Nat
  BY <1>0, ShopNumbers
<1>1. ShopTypes'
  BY <1>0 DEF InfoPanic, ShopTypes, LoadedOK
<1>2. overlapped'
  <2>1. Len(paintings) \in Nat /\ firstUnsold \in Nat
    BY <1>0, LenProperties DEF ShopTypes
  <2> QED BY <1>0, <2>1 DEF InfoPanic, InTurn, Knows
<1> QED BY <1>1, <1>2 DEF ShopInv

LEMMA SellLoadKeeps ==
  ASSUME ShopInv, NEW c \in Clients, SellLoad(c)
  PROVE  ShopInv'
<1>0. /\ ShopTypes
      /\ ~overlapped => InTurn
  BY DEF ShopInv
<1>9. /\ Len(paintings) \in Nat /\ Len(sales) \in Nat
      /\ firstUnsold \in Nat /\ firstUnsold <= Len(sales)
      /\ \A d \in Clients : lastSeen[d] \in Int /\ (lastSeen[d] # Nothing => lastSeen[d] \in Nat)
      /\ Nothing \in Int /\ Nothing \notin Nat
  BY <1>0, ShopNumbers
<1>1. loaded[c] \in Brought /\ Append(paintings, loaded[c]) \in Seq(Brought)
  BY <1>0, AppendProperties DEF SellLoad, At, ShopTypes, LoadedOK
<1>2. ShopTypes'
  BY <1>0, <1>1 DEF SellLoad, Load, At, Goto, ShopTypes, LoadedOK, Places, Nothing
<1>3. ASSUME ~overlapped' PROVE InTurn'
  <2>1. InTurn
    BY <1>0, <1>3 DEF SellLoad, At
  <2>8. /\ at[c] # "idle"
        /\ \A d \in Clients : d # c =>
             at'[d] = at[d] /\ lastSeen'[d] = lastSeen[d] /\ shown'[d] = shown[d]
        /\ UNCHANGED <<paintings, firstUnsold, sales, crashed>>
    BY <1>0 DEF SellLoad, ShopTypes, Load, At, Reply, Goto
  <2>9. Remembers(c)' /\ Knows(c)' /\ TrueAnswer'
    BY <1>0, <1>1, <2>1 DEF SellLoad, Load, At, Reply, Goto, ShopTypes, InTurn, SoldFirst, Remembers, Knows, TrueAnswer
  <2> QED
    BY <1>0, <2>1, <2>8, <2>9, OthersRest
<1> QED BY <1>2, <1>3 DEF ShopInv

LEMMA SellStoreKeeps ==
  ASSUME ShopInv, NEW c \in Clients, SellStore(c)
  PROVE  ShopInv'
<1>0. /\ ShopTypes
      /\ ~overlapped => InTurn
  BY DEF ShopInv
<1>9. /\ Len(paintings) \in Nat /\ Len(sales) \in Nat
      /\ firstUnsold \in Nat /\ firstUnsold <= Len(sales)
      /\ \A d \in Clients : lastSeen[d] \in Int /\ (lastSeen[d] # Nothing => lastSeen[d] \in Nat)
      /\ Nothing \in Int /\ Nothing \notin Nat
  BY <1>0, ShopNumbers
<1>1. ShopTypes'
  <2>1. at[c] = "append" /\ loaded[c] \in Seq(Brought)
    BY <1>0 DEF SellStore, At, ShopTypes, LoadedOK
  <2>2. paintings' \in [1..Len(loaded[c]) -> Brought] /\ Len(loaded[c]) \in Nat
    BY <2>1, LenProperties DEF SellStore, InSharedArray, Brought
  <2>3. paintings' \in Seq(Brought)
    BY <2>2
  <2> QED BY <1>0, <2>3 DEF SellStore, Reply, At, Goto, ShopTypes, LoadedOK, Places, Nothing
<1>2. ASSUME ~overlapped' PROVE InTurn'
  <2>1. InTurn /\ at[c] = "append"
    BY <1>0, <1>2 DEF SellStore, At
  (* Nobody else is appending: the array holds what c loaded.              *)
  <2>2. PICK p \in Brought : paintings' = Append(paintings, p)
    <3>1. PICK p \in Brought : loaded[c] = Append(paintings, p)
      BY <2>1 DEF InTurn, Knows
    <3>2. Slices = {paintings, loaded[c]}
      BY <2>1 DEF Slices, InTurn
    <3>3. /\ DOMAIN paintings = 1..Len(paintings) /\ Len(paintings) \in Nat
          /\ DOMAIN loaded[c] = 1..Len(paintings) + 1
          /\ \A i \in 1..Len(paintings) : loaded[c][i] = paintings[i]
          /\ loaded[c] \in Seq(Brought)
      BY <1>0, <3>1, LenProperties, AppendProperties DEF ShopTypes
    <3>4. DOMAIN paintings' = DOMAIN loaded[c] /\ paintings' \in [DOMAIN loaded[c] -> Brought]
      BY DEF SellStore, InSharedArray, Brought
    <3>5. \A i \in DOMAIN loaded[c] : paintings'[i] = loaded[c][i]
      BY <3>2, <3>3, <3>4 DEF SellStore, InSharedArray
    <3>6. paintings' = loaded[c]
      BY <3>3, <3>4, <3>5
    <3> QED BY <3>1, <3>6
  <2>3. /\ Len(paintings) \in Nat /\ Len(paintings') = Len(paintings) + 1
        /\ \A i \in 1..Len(paintings) : paintings'[i] = paintings[i]
    BY <1>0, <2>2, LenProperties, AppendProperties DEF ShopTypes
  <2>4. \A d \in Clients : d # c => at[d] = "idle"
    BY <2>1 DEF InTurn
  <2>5. at' = [at EXCEPT ![c] = "idle"] /\ \A d \in Clients : at'[d] = "idle"
    BY <1>0, <2>4 DEF SellStore, Reply, Goto, ShopTypes
  <2>6. answer'.kind = "thank you" /\ UNCHANGED <<firstUnsold, lastSeen, shown, sales, crashed>>
    BY DEF SellStore, Reply, At
  <2>7. SoldFirst'
    <3>1. SoldFirst
      BY <2>1 DEF InTurn
    <3>2. 1..firstUnsold \subseteq 1..Len(paintings)
      BY <1>9, <3>1 DEF SoldFirst
    <3>3. firstUnsold <= Len(paintings')
      BY <1>9, <2>3, <3>1 DEF SoldFirst
    <3> QED BY <2>3, <2>6, <3>1, <3>2, <3>3 DEF SoldFirst
  <2>8. ASSUME NEW d \in Clients PROVE Remembers(d)' /\ Knows(d)'
    <3>2. Remembers(d) /\ at[d] # "show"
      BY <2>1, <2>4 DEF InTurn
    <3>3. Knows(d)'
      BY <2>5 DEF Knows
    <3>4. ASSUME lastSeen[d] # Nothing
          PROVE  /\ lastSeen[d] <= firstUnsold /\ lastSeen[d] < Len(paintings')
                 /\ shown[d] = paintings'[lastSeen[d] + 1]
      <4>1. lastSeen[d] \in Nat /\ lastSeen[d] <= firstUnsold /\ lastSeen[d] < Len(paintings)
            /\ shown[d] = paintings[lastSeen[d] + 1]
        BY <1>9, <3>2, <3>4 DEF Remembers
      <4>2. lastSeen[d] + 1 \in 1..Len(paintings)
        BY <1>9, <4>1
      <4> QED BY <1>9, <2>3, <4>1, <4>2
    <3> QED BY <2>6, <3>3, <3>4 DEF Remembers
  <2> QED
    BY <2>1, <2>5, <2>6, <2>7, <2>8 DEF InTurn, TrueAnswer
<1> QED BY <1>1, <1>2 DEF ShopInv

LEMMA BuyCompareKeeps ==
  ASSUME ShopInv, NEW c \in Clients, BuyCompare(c)
  PROVE  ShopInv'
<1> USE ShopAssumption
<1>0. /\ ShopTypes
      /\ ~overlapped => InTurn
  BY DEF ShopInv
<1>9. /\ Len(paintings) \in Nat /\ Len(sales) \in Nat
      /\ firstUnsold \in Nat /\ firstUnsold <= Len(sales)
      /\ \A d \in Clients : lastSeen[d] \in Int /\ (lastSeen[d] # Nothing => lastSeen[d] \in Nat)
      /\ Nothing \in Int /\ Nothing \notin Nat
  BY <1>0, ShopNumbers
<1>1. ShopTypes'
  BY <1>0 DEF BuyCompare, Bought, Reply, At, Goto, ShopTypes, LoadedOK, Places
<1>2. ASSUME ~overlapped' PROVE InTurn'
  <2>1. InTurn
    BY <1>0, <1>2 DEF BuyCompare, At
  <2>3. at[c] = "buy" /\ (lastSeen[c] # Nothing /\ lastSeen[c] < firstUnsold =>
          lastSeen[c] + 1 \in 1..Len(sales) /\ sales[lastSeen[c] + 1] = shown[c])
    <3>1. at[c] = "buy" /\ Remembers(c) /\ SoldFirst
      BY <2>1 DEF BuyCompare, At, InTurn
    <3>2. ASSUME lastSeen[c] # Nothing, lastSeen[c] < firstUnsold
          PROVE  lastSeen[c] + 1 \in 1..Len(sales) /\ sales[lastSeen[c] + 1] = shown[c]
      <4>1. lastSeen[c] + 1 \in 1..firstUnsold
        BY <1>9, <3>2
      <4> QED BY <3>1, <3>2, <4>1 DEF SoldFirst, Remembers
    <3> QED BY <3>1, <3>2
  <2>8. /\ at[c] # "idle"
        /\ \A d \in Clients : d # c =>
             at'[d] = at[d] /\ lastSeen'[d] = lastSeen[d] /\ shown'[d] = shown[d]
        /\ UNCHANGED <<paintings, firstUnsold, sales, crashed>>
    BY <1>0 DEF BuyCompare, ShopTypes, Bought, At, Reply, Goto
  <2>9. Remembers(c)' /\ Knows(c)' /\ TrueAnswer'
    <3>1. Remembers(c) /\ TrueAnswer /\ at \in [Clients -> Places]
      BY <1>0, <2>1 DEF InTurn, ShopTypes
    <3>2. UNCHANGED <<paintings, firstUnsold, lastSeen, shown, sales>>
      BY DEF BuyCompare
    <3>3. CASE lastSeen[c] = Nothing
      <4>1. at'[c] = "idle" /\ answer'.kind = "which one?"
        <5>1. Reply(c, [kind |-> "which one?"])
          BY <3>3 DEF BuyCompare
        <5> QED BY <3>1, <5>1 DEF Reply, Goto
      <4> QED BY <3>2, <3>3, <4>1 DEF Remembers, Knows, TrueAnswer
    <3>4. CASE lastSeen[c] # Nothing /\ lastSeen[c] < firstUnsold
      <4>1. at'[c] = "idle" /\ answer'.kind = "sold" /\ answer'.painting = shown[c]
        BY <3>1, <3>4 DEF BuyCompare, Reply, Goto, Bought
      <4>2. \E i \in 1..Len(sales) : sales[i] = shown[c]
        BY <2>3, <3>4
      <4>3. Remembers(c)' /\ Knows(c)'
        BY <2>3, <3>1, <3>2, <4>1 DEF Remembers, Knows
      <4>4. TrueAnswer'
        BY <3>2, <4>1, <4>2 DEF TrueAnswer
      <4> QED BY <4>3, <4>4
    <3>5. CASE lastSeen[c] # Nothing /\ ~(lastSeen[c] < firstUnsold)
      <4>1. at'[c] = "same?" /\ answer' = answer
        BY <3>1, <3>5 DEF BuyCompare, Goto
      <4>2. lastSeen[c] = firstUnsold
        BY <1>9, <3>1, <3>5 DEF Remembers
      <4> QED BY <2>3, <3>1, <3>2, <4>1, <4>2 DEF Remembers, Knows, TrueAnswer
    <3> QED BY <3>3, <3>4, <3>5
  <2> QED
    BY <1>0, <2>1, <2>8, <2>9, OthersRest
<1> QED BY <1>1, <1>2 DEF ShopInv

LEMMA BuySameKeeps ==
  ASSUME ShopInv, NEW c \in Clients, BuySame(c)
  PROVE  ShopInv'
<1>0. /\ ShopTypes
      /\ ~overlapped => InTurn
  BY DEF ShopInv
<1>9. /\ Len(paintings) \in Nat /\ Len(sales) \in Nat
      /\ firstUnsold \in Nat /\ firstUnsold <= Len(sales)
      /\ \A d \in Clients : lastSeen[d] \in Int /\ (lastSeen[d] # Nothing => lastSeen[d] \in Nat)
      /\ Nothing \in Int /\ Nothing \notin Nat
  BY <1>0, ShopNumbers
<1>1. ShopTypes'
  BY <1>0 DEF BuySame, Bought, Reply, At, Goto, ShopTypes, LoadedOK, Places
<1>2. ASSUME ~overlapped' PROVE InTurn'
  <2>1. InTurn
    BY <1>0, <1>2 DEF BuySame, At
  <2>2. lastSeen[c] = firstUnsold
    BY <2>1 DEF InTurn, Knows, BuySame, At
  <2>8. /\ at[c] # "idle"
        /\ \A d \in Clients : d # c =>
             at'[d] = at[d] /\ lastSeen'[d] = lastSeen[d] /\ shown'[d] = shown[d]
        /\ UNCHANGED <<paintings, firstUnsold, sales, crashed>>
    BY <1>0 DEF BuySame, ShopTypes, Bought, At, Reply, Goto
  <2>9. Remembers(c)' /\ Knows(c)' /\ TrueAnswer'
    BY <1>0, <2>1, <1>9 DEF BuySame, Bought, At, Reply, Goto, ShopTypes, InTurn, SoldFirst, Remembers, Knows, TrueAnswer
  <2> QED
    BY <1>0, <2>1, <2>8, <2>9, OthersRest
<1> QED BY <1>1, <1>2 DEF ShopInv

LEMMA IncrementLoadKeeps ==
  ASSUME ShopInv, NEW c \in Clients, IncrementLoad(c)
  PROVE  ShopInv'
<1>0. /\ ShopTypes
      /\ ~overlapped => InTurn
  BY DEF ShopInv
<1>9. /\ Len(paintings) \in Nat /\ Len(sales) \in Nat
      /\ firstUnsold \in Nat /\ firstUnsold <= Len(sales)
      /\ \A d \in Clients : lastSeen[d] \in Int /\ (lastSeen[d] # Nothing => lastSeen[d] \in Nat)
      /\ Nothing \in Int /\ Nothing \notin Nat
  BY <1>0, ShopNumbers
<1>1. ShopTypes'
  BY <1>0 DEF IncrementLoad, Load, At, Goto, ShopTypes, LoadedOK, Places
<1>2. ASSUME ~overlapped' PROVE InTurn'
  <2>1. InTurn
    BY <1>0, <1>2 DEF IncrementLoad, At
  <2>8. /\ at[c] # "idle"
        /\ \A d \in Clients : d # c =>
             at'[d] = at[d] /\ lastSeen'[d] = lastSeen[d] /\ shown'[d] = shown[d]
        /\ UNCHANGED <<paintings, firstUnsold, sales, crashed>>
    BY <1>0 DEF IncrementLoad, ShopTypes, Load, At, Reply, Goto
  <2>9. Remembers(c)' /\ Knows(c)' /\ TrueAnswer'
    BY <1>0, <2>1 DEF IncrementLoad, Load, At, Reply, Goto, ShopTypes, InTurn, SoldFirst, Remembers, Knows, TrueAnswer
  <2> QED
    BY <1>0, <2>1, <2>8, <2>9, OthersRest
<1> QED BY <1>1, <1>2 DEF ShopInv

LEMMA IncrementStoreKeeps ==
  ASSUME ShopInv, NEW c \in Clients, IncrementStore(c)
  PROVE  ShopInv'
<1> USE ShopAssumption
<1>0. /\ ShopTypes
      /\ ~overlapped => InTurn
  BY DEF ShopInv
<1>9. /\ Len(paintings) \in Nat /\ Len(sales) \in Nat
      /\ firstUnsold \in Nat /\ firstUnsold <= Len(sales)
      /\ \A d \in Clients : lastSeen[d] \in Int /\ (lastSeen[d] # Nothing => lastSeen[d] \in Nat)
      /\ Nothing \in Int /\ Nothing \notin Nat
  BY <1>0, ShopNumbers
<1>1. /\ Len(sales') = Len(sales) + 1
      /\ sales' \in Seq({Nothing} \cup Brought)
      /\ \A i \in 1..Len(sales) : sales'[i] = sales[i]
      /\ sales'[Len(sales) + 1] = shown[c]
      /\ at[c] = "store" /\ loaded[c] \in 0..Len(sales)
  <2> DEFINE all == {Nothing} \cup Brought
  <2>1. sales \in Seq(all) /\ shown[c] \in all /\ sales' = Append(sales, shown[c])
    BY <1>0 DEF IncrementStore, ShopTypes
  <2>2. at[c] = "store" /\ loaded[c] \in 0..Len(sales)
    BY <1>0 DEF IncrementStore, At, ShopTypes, LoadedOK
  <2> HIDE DEF all
  <2>3. /\ Len(sales') = Len(sales) + 1 /\ sales' \in Seq(all)
        /\ \A i \in 1..Len(sales) : sales'[i] = sales[i]
        /\ sales'[Len(sales) + 1] = shown[c]
    BY <2>1, AppendProperties
  <2> QED BY <2>2, <2>3 DEF all
<1>2. ShopTypes'
  <2>1. firstUnsold' \in 0..Len(sales') /\ Len(sales') <= MaxSales
    <3>1. loaded[c] + 1 \in 0..Len(sales) + 1 /\ Len(sales) < MaxSales
      <4>1. \A k \in 0..Len(sales) : k + 1 \in 0..Len(sales) + 1
        BY <1>9
      <4> QED BY <1>1, <4>1 DEF IncrementStore
    <3>2. firstUnsold' = loaded[c] + 1
      BY DEF IncrementStore, Incremented
    <3>3. Len(sales) + 1 <= MaxSales
      BY <1>9, <3>1
    <3> QED BY <1>1, <3>1, <3>2, <3>3
  <2>2. 0..Len(sales) \subseteq 0..Len(sales')
    BY <1>1, <1>9
  <2>3. at' = [at EXCEPT ![c] = "idle"] /\ loaded' = [loaded EXCEPT ![c] = Nothing]
    BY DEF IncrementStore, Reply, Goto
  <2>4. UNCHANGED <<paintings, lastSeen, delivered, shown, overlapped, crashed>>
    BY DEF IncrementStore, At
  <2>5. ASSUME NEW d \in Clients PROVE LoadedOK(d)'
    BY <1>0, <2>2, <2>3, <2>5 DEF ShopTypes, LoadedOK
  <2> QED BY <1>0, <1>1, <2>1, <2>3, <2>4, <2>5 DEF ShopTypes, Places
<1>3. ASSUME ~overlapped' PROVE InTurn'
  <2>1. InTurn /\ lastSeen[c] = firstUnsold /\ loaded[c] = firstUnsold /\ at[c] = "store"
    BY <1>0, <1>3 DEF IncrementStore, At, InTurn, Knows
  <2>2. Len(paintings) \in Nat /\ firstUnsold \in Nat /\ lastSeen[c] # Nothing
    BY <1>0, <2>1, LenProperties DEF ShopTypes, Nothing
  <2>3. firstUnsold < Len(paintings) /\ shown[c] = paintings[firstUnsold + 1]
    BY <2>1, <2>2 DEF InTurn, Remembers
  <2>4. \A d \in Clients : d # c => at[d] = "idle"
    BY <2>1 DEF InTurn
  <2>5. \A d \in Clients : at'[d] = "idle"
    BY <1>0, <2>4 DEF IncrementStore, Reply, Goto, ShopTypes
  <2>6. /\ answer'.kind = "worth it :))" /\ UNCHANGED <<paintings, lastSeen, shown, crashed>>
        /\ firstUnsold' = firstUnsold + 1
    BY <2>1 DEF IncrementStore, Incremented, Reply, At
  <2>7. SoldFirst'
    <3>1. SoldFirst
      BY <2>1 DEF InTurn
    <3>2. Len(sales') = firstUnsold' /\ firstUnsold' <= Len(paintings')
      <4>1. firstUnsold + 1 <= Len(paintings)
        BY <1>9, <2>2, <2>3
      <4> QED BY <1>1, <2>6, <3>1, <4>1 DEF SoldFirst
    <3>3. ASSUME NEW i \in 1..firstUnsold' PROVE sales'[i] = paintings'[i]
      <4>1. i \in 1..Len(sales) \/ i = Len(sales) + 1
        <5>1. i \in 1..Len(sales) + 1
          BY <2>6, <3>1 DEF SoldFirst
        <5> QED BY <1>9, <5>1
      <4> QED BY <1>1, <2>3, <2>6, <3>1, <4>1 DEF SoldFirst
    <3> QED BY <3>2, <3>3 DEF SoldFirst
  <2>8. ASSUME NEW d \in Clients PROVE Remembers(d)' /\ Knows(d)'
    <3>2. Remembers(d) /\ at[d] # "show"
      BY <2>1, <2>4 DEF InTurn
    <3>3. Knows(d)'
      BY <2>5 DEF Knows
    <3>4. lastSeen[d] # Nothing => lastSeen[d] <= firstUnsold'
      <4>1. lastSeen[d] # Nothing => lastSeen[d] <= firstUnsold + 1
        BY <1>9, <3>2 DEF Remembers
      <4> QED BY <2>6, <4>1
    <3> QED BY <2>6, <3>2, <3>3, <3>4 DEF Remembers
  <2> QED
    BY <2>1, <2>5, <2>6, <2>7, <2>8 DEF InTurn, TrueAnswer
<1> QED BY <1>2, <1>3 DEF ShopInv

LEMMA ShopKeeps == ShopInv /\ [ShopNext]_shopVars => ShopInv'
<1> SUFFICES ASSUME ShopInv, [ShopNext]_shopVars PROVE ShopInv'
  OBVIOUS
<1>1. CASE UNCHANGED shopVars
  BY <1>1 DEF shopVars, ShopInv, ShopTypes, LoadedOK, InTurn, SoldFirst, Remembers, Knows, TrueAnswer
<1>2. ASSUME ShopNext PROVE ShopInv'
  <2> PICK c \in Clients :
        \/ \E place \in {"info", "buy"} : ReceiveMessage(c, place)
        \/ ReceivePainting(c)
        \/ InfoCompare(c) \/ InfoSee(c) \/ InfoShow(c) \/ InfoPanic(c)
        \/ SellLoad(c) \/ SellStore(c)
        \/ BuyCompare(c) \/ BuySame(c) \/ IncrementLoad(c) \/ IncrementStore(c)
    BY <1>2 DEF ShopNext
  <2> QED
    BY BeginKeeps, InfoCompareKeeps, InfoSeeKeeps, InfoShowKeeps, InfoPanicKeeps, SellLoadKeeps,
       SellStoreKeeps, BuyCompareKeeps, BuySameKeeps, IncrementLoadKeeps, IncrementStoreKeeps
<1> QED BY <1>1, <1>2

LEMMA ShopImplies == ShopInv => ShopTypeOK /\ SellsEachOnce
<1> SUFFICES ASSUME ShopInv PROVE ShopTypeOK /\ SellsEachOnce
  OBVIOUS
<1>0. /\ ShopTypes
      /\ ~overlapped => InTurn
  BY DEF ShopInv
<1>1. ShopTypeOK
  <2>1. firstUnsold \in 0..MaxSales
    BY <1>0, ShopNumbers, ShopAssumption DEF ShopTypes
  <2> QED BY <1>0, <2>1 DEF ShopTypes, ShopTypeOK, Brought
<1>2. firstUnsold <= Len(sales)
  BY <1>0, LenProperties DEF ShopTypes
<1>3. ASSUME InTurn PROVE sales = SubSeq(paintings, 1, firstUnsold)
  <2>1. /\ Len(paintings) \in Nat /\ firstUnsold \in 0..Len(paintings)
        /\ \A i \in 1..firstUnsold : paintings[i] \in Brought
    BY <1>0, <1>3, LenProperties, ElementOfSeq DEF ShopTypes, InTurn, SoldFirst
  <2> DEFINE all == {Nothing} \cup Brought
             bought == SubSeq(paintings, 1, firstUnsold)
  <2>2. /\ bought \in Seq(all) /\ Len(bought) = firstUnsold
        /\ \A i \in 1..firstUnsold : bought[i] = paintings[i]
    <3>1. 1 \in Int /\ firstUnsold \in Int /\ \A i \in 1..firstUnsold : paintings[i] \in all
      BY <2>1
    <3> HIDE DEF all
    <3> QED BY <2>1, <3>1, SubSeqProperties
  <2>3. sales \in Seq(all) /\ Len(sales) = firstUnsold /\ \A i \in 1..firstUnsold : sales[i] = paintings[i]
    BY <1>0, <1>3 DEF ShopTypes, InTurn, SoldFirst
  <2> HIDE DEF all, bought
  <2>4. sales = bought
    BY <2>2, <2>3, SeqEqual
  <2> QED BY <2>4 DEF bought
<1>4. ASSUME InTurn PROVE answer.kind = "sold" => Contains(sales, answer.painting)
  BY <1>4 DEF InTurn, TrueAnswer, Contains
<1> QED BY <1>0, <1>1, <1>2, <1>3, <1>4 DEF SellsEachOnce, InTurn, TrueAnswer

(* The shop's list, its counters and its sales stay in their types, for    *)
(* any clients and bounds.                                                 *)
THEOREM ShopTypeCorrect == ShopSpec => []ShopTypeOK
<1> QED BY ShopStarts, ShopKeeps, ShopImplies, PTL DEF ShopSpec

(* For any number of clients and paintings: as long as no two requests of  *)
(* the server overlap, info and buy agree on the painting on offer, and    *)
(* each is sold once, in the order they were brought.                      *)
THEOREM ShopSellsEachOnce == ShopSpec => []SellsEachOnce
<1> QED BY ShopStarts, ShopKeeps, ShopImplies, PTL DEF ShopSpec

-----------------------------------------------------------------------------
States == {"absent", "in", "out"}
Reading == [method : Methods, book : Books, next : {"read"}]
Writing == [method : Methods \ {"GET"}, book : Books, next : {"write"}]
Handlers == {NoRequest} \cup Reading \cup Writing

LibraryTypes ==
  /\ books \in [Books -> States] /\ ledger \in [Books -> States]
  /\ handler \in [Readers -> Handlers]
  /\ overlappedBooks \subseteq Books /\ disputed \subseteq Books

(* Alone with its book, a handler that goes on to write found the book in  *)
(* the state its method asks for, and the book still is.                   *)
Granted(r) ==
  handler[r].next = "write" =>
    ~Refused(handler[r].method, books[handler[r].book])

InOrder(b) ==
  /\ b \notin disputed /\ books[b] = ledger[b]
  /\ \A r, s \in Readers :
       /\ handler[r] # NoRequest /\ handler[r].book = b
       /\ handler[s] # NoRequest /\ handler[s].book = b
       => r = s
  /\ \A r \in Readers : handler[r] # NoRequest /\ handler[r].book = b => Granted(r)

LibraryInv ==
  /\ LibraryTypes
  /\ \A b \in Books \ overlappedBooks : InOrder(b)

LEMMA LibraryStarts == LibraryInit => LibraryInv
<1> SUFFICES ASSUME LibraryInit PROVE LibraryInv
  OBVIOUS
<1>1. LibraryTypes
  BY DEF LibraryInit, LibraryTypes, States, Handlers
<1>2. ASSUME NEW b \in Books PROVE InOrder(b)
  BY DEF LibraryInit, InOrder
<1> QED BY <1>1, <1>2 DEF LibraryInv

(* What a handler is when it is not idle.                                  *)
LEMMA Handling ==
  ASSUME LibraryTypes, NEW r \in Readers
  PROVE  /\ handler[r].next = "read" => handler[r] \in Reading
         /\ handler[r].next = "write" => handler[r] \in Writing
         /\ handler[r].next # "nothing" <=> handler[r] # NoRequest
BY DEF LibraryTypes, Handlers, NoRequest, Reading, Writing

LEMMA BusyHandler ==
  ASSUME LibraryTypes, NEW r \in Readers, handler[r] # NoRequest
  PROVE  handler[r].method \in Methods /\ handler[r].book \in Books
BY DEF LibraryTypes, Handlers, Reading, Writing

LEMMA RequestKeeps ==
  ASSUME LibraryInv, NEW r \in Readers, NEW method \in Methods, NEW b \in Books,
         Request(r, method, b)
  PROVE  LibraryInv'
<1> DEFINE new == [method |-> method, book |-> b, next |-> "read"]
<1>0. LibraryTypes /\ \A k \in Books \ overlappedBooks : InOrder(k)
  BY DEF LibraryInv
<1>1. /\ handler[r] = NoRequest /\ handler' = [handler EXCEPT ![r] = new]
      /\ UNCHANGED <<books, ledger, disputed>>
      /\ overlappedBooks \subseteq overlappedBooks'
      /\ overlappedBooks' \subseteq Books
      /\ Busy(b) => b \in overlappedBooks'
  BY <1>0 DEF Request, LibraryTypes
<1>2. new \in Handlers
  BY DEF Handlers, Reading
<1>3. LibraryTypes'
  BY <1>0, <1>1, <1>2 DEF LibraryTypes
<1>4. ASSUME NEW k \in Books \ overlappedBooks' PROVE InOrder(k)'
  <2>1. InOrder(k) /\ (k = b => ~Busy(b))
    BY <1>0, <1>1
  <2>2. handler'[r] = new /\ \A s \in Readers : s # r => handler'[s] = handler[s]
    BY <1>0, <1>1 DEF LibraryTypes
  <2>3. \A s \in Readers : handler'[s] # NoRequest /\ handler'[s].book = k =>
          \/ s = r /\ k = b
          \/ s # r /\ k # b /\ handler[s] # NoRequest /\ handler[s].book = k
    BY <2>1, <2>2 DEF Busy
  <2>4. \A s, t \in Readers :
          /\ handler'[s] # NoRequest /\ handler'[s].book = k
          /\ handler'[t] # NoRequest /\ handler'[t].book = k
          => s = t
    BY <2>1, <2>2, <2>3 DEF InOrder
  <2>5. ASSUME NEW s \in Readers, handler'[s] # NoRequest, handler'[s].book = k
        PROVE  Granted(s)'
    <3>1. CASE s = r
      BY <2>2, <3>1 DEF Granted
    <3>2. CASE s # r
      BY <1>1, <2>1, <2>2, <2>3, <2>5, <3>2 DEF InOrder, Granted
    <3> QED BY <3>1, <3>2
  <2> QED BY <1>1, <2>1, <2>4, <2>5 DEF InOrder
<1> QED BY <1>3, <1>4 DEF LibraryInv

(* An answer that fits ends the request and leaves every other book alone. *)
LEMMA AnswerKeeps ==
  ASSUME LibraryInv, NEW r \in Readers, handler[r] # NoRequest, NEW success,
         Answer(r, success),
         LET b == handler[r].book IN
           /\ books' = [books EXCEPT ![b] = IF success THEN Entry(handler[r].method, @) ELSE @]
           /\ b \notin overlappedBooks => Fits(handler[r].method, success, books[b])
  PROVE  LibraryInv'
<1> DEFINE b == handler[r].book
           method == handler[r].method
<1>0. LibraryTypes /\ \A k \in Books \ overlappedBooks : InOrder(k)
  BY DEF LibraryInv
<1>1. b \in Books /\ method \in Methods
  BY <1>0, BusyHandler
<1>2. /\ handler' = [handler EXCEPT ![r] = NoRequest]
      /\ ledger' = IF success THEN [ledger EXCEPT ![b] = Entry(method, @)] ELSE ledger
      /\ disputed' = IF Fits(method, success, ledger[b]) THEN disputed ELSE disputed \cup {b}
      /\ UNCHANGED overlappedBooks
      /\ books' = [books EXCEPT ![b] = IF success THEN Entry(method, @) ELSE @]
      /\ b \notin overlappedBooks => Fits(method, success, books[b])
  BY DEF Answer
<1>3. \A m \in Methods, state \in States : Entry(m, state) \in States
  BY DEF Entry, Methods, States
<1> HIDE DEF b, method
<1>4. LibraryTypes'
  <2>1. books' \in [Books -> States] /\ ledger' \in [Books -> States]
    <3>1. books[b] \in States /\ ledger[b] \in States
      BY <1>0, <1>1 DEF LibraryTypes
    <3>2. Entry(method, books[b]) \in States /\ Entry(method, ledger[b]) \in States
      BY <1>1, <1>3, <3>1
    <3>3. CASE success
      BY <1>0, <1>2, <3>2, <3>3 DEF LibraryTypes
    <3>4. CASE ~success
      BY <1>0, <1>2, <3>1, <3>4 DEF LibraryTypes
    <3> QED BY <3>3, <3>4
  <2>2. handler' \in [Readers -> Handlers]
    BY <1>0, <1>2 DEF LibraryTypes, Handlers
  <2> QED BY <1>0, <1>1, <1>2, <2>1, <2>2 DEF LibraryTypes
<1>5. ASSUME NEW k \in Books \ overlappedBooks' PROVE InOrder(k)'
  <2>1. InOrder(k) /\ k \notin overlappedBooks
    BY <1>0, <1>2, <1>5
  <2>2. handler'[r] = NoRequest /\ \A s \in Readers : s # r => handler'[s] = handler[s]
    BY <1>0, <1>2 DEF LibraryTypes
  <2>3. books'[k] = ledger'[k] /\ k \notin disputed' /\ (k # b => books'[k] = books[k])
    <3>1. CASE k = b
      <4>1. books[b] = ledger[b] /\ b \notin disputed /\ Fits(method, success, ledger[b])
        BY <1>2, <2>1, <3>1 DEF InOrder
      <4> QED BY <1>0, <1>1, <1>2, <3>1, <4>1 DEF LibraryTypes
    <3>2. CASE k # b
      BY <1>0, <1>1, <1>2, <2>1, <3>2 DEF LibraryTypes, InOrder
    <3> QED BY <3>1, <3>2
  <2>4. ASSUME NEW s \in Readers, handler'[s] # NoRequest, handler'[s].book = k
        PROVE  s # r /\ handler[s] = handler'[s] /\ k # b
    BY <2>1, <2>2, <2>4 DEF InOrder, b
  <2>5. ASSUME NEW s \in Readers, handler'[s] # NoRequest, handler'[s].book = k
        PROVE  Granted(s)'
    BY <2>1, <2>3, <2>4, <2>5 DEF InOrder, Granted
  <2> QED BY <2>1, <2>3, <2>4, <2>5 DEF InOrder
<1> QED BY <1>4, <1>5 DEF LibraryInv

LEMMA ReadKeeps ==
  ASSUME LibraryInv, NEW r \in Readers, Read(r)
  PROVE  LibraryInv'
<1> DEFINE b == handler[r].book
           method == handler[r].method
           refused == Refused(method, books[b])
<1>0. LibraryTypes /\ \A k \in Books \ overlappedBooks : InOrder(k)
  BY DEF LibraryInv
<1>1. handler[r].next = "read" /\ handler[r] # NoRequest /\ b \in Books /\ method \in Methods
  BY <1>0, Handling, BusyHandler DEF Read
<1>2. books[b] \in States
  BY <1>0, <1>1 DEF LibraryTypes
<1>3. CASE refused \/ method = "GET"
  <2>1. Answer(r, ~refused) /\ UNCHANGED books
    BY <1>3 DEF Read
  <2>2. ~refused => method = "GET" /\ Entry(method, books[b]) = books[b]
    BY <1>3 DEF Entry
  <2>3. [books EXCEPT ![b] = IF ~refused THEN Entry(method, @) ELSE @] = books
    BY <1>0, <1>1, <2>2 DEF LibraryTypes
  <2>4. Fits(method, ~refused, books[b])
    BY <1>1, <1>2 DEF Fits, Refused, Methods, States
  <2> HIDE DEF refused
  <2> QED BY <1>1, <2>1, <2>3, <2>4, AnswerKeeps
<1>4. CASE ~(refused \/ method = "GET")
  <2>1. /\ handler' = [handler EXCEPT ![r].next = "write"]
        /\ UNCHANGED <<books, overlappedBooks, ledger, disputed>>
    BY <1>4 DEF Read
  <2>2. handler[r] \in Reading /\ handler \in [Readers -> Handlers]
    BY <1>0, <1>1, Handling DEF LibraryTypes
  <2>3. /\ handler'[r] \in Writing
        /\ handler'[r].method = method /\ handler'[r].book = b
        /\ handler'[r] # NoRequest
        /\ \A s \in Readers : s # r => handler'[s] = handler[s]
        /\ handler' \in [Readers -> Handlers]
    BY <1>4, <2>1, <2>2 DEF Handlers, Reading, Writing, NoRequest
  <2>4. LibraryTypes'
    BY <1>0, <2>1, <2>3 DEF LibraryTypes
  <2>5. ASSUME NEW k \in Books \ overlappedBooks' PROVE InOrder(k)'
    <3>1. InOrder(k)
      BY <1>0, <2>1, <2>5
    <3>2. \A s \in Readers : handler'[s] # NoRequest /\ handler'[s].book = k =>
                             handler[s] # NoRequest /\ handler[s].book = k
      BY <1>1, <2>3
    <3>3. ASSUME NEW s \in Readers, handler'[s] # NoRequest, handler'[s].book = k
          PROVE  Granted(s)'
      <4>1. CASE s = r
        BY <1>4, <2>1, <2>3, <4>1 DEF Granted
      <4>2. CASE s # r
        BY <2>1, <2>3, <3>1, <3>2, <3>3, <4>2 DEF InOrder, Granted
      <4> QED BY <4>1, <4>2
    <3> QED BY <2>1, <3>1, <3>2, <3>3 DEF InOrder
  <2> QED BY <2>4, <2>5 DEF LibraryInv
<1> QED BY <1>3, <1>4

LEMMA WriteKeeps ==
  ASSUME LibraryInv, NEW r \in Readers, Write(r)
  PROVE  LibraryInv'
<1> DEFINE b == handler[r].book
           method == handler[r].method
<1>0. LibraryTypes /\ \A k \in Books \ overlappedBooks : InOrder(k)
  BY DEF LibraryInv
<1>1. handler[r].next = "write" /\ handler[r] # NoRequest /\ b \in Books /\ method \in Methods
  BY <1>0, Handling, BusyHandler DEF Write
<1>2. books[b] \in States
  BY <1>0, <1>1 DEF LibraryTypes
<1>3. method # "GET"
  BY <1>0, <1>1, Handling DEF Writing
<1>4. Answer(r, TRUE)
  BY DEF Write
<1>5. books' = [books EXCEPT ![b] = IF TRUE THEN Entry(method, @) ELSE @]
  <2>1. books' = [books EXCEPT ![b] = Written(method, b)]
    BY DEF Write
  <2>2. Written(method, b) = Entry(method, books[b])
    BY <1>1, <1>3 DEF Written, Entry, Methods
  <2> QED BY <1>0, <1>1, <2>1, <2>2 DEF LibraryTypes
<1>6. ASSUME b \notin overlappedBooks PROVE Fits(method, TRUE, books[b])
  <2>1. ~Refused(method, books[b])
    BY <1>0, <1>1, <1>6 DEF InOrder, Granted
  <2> QED BY <1>1, <1>2, <1>3, <2>1 DEF Fits, Refused, Methods, States
<1> QED BY <1>1, <1>4, <1>5, <1>6, AnswerKeeps

LEMMA LibraryKeeps == LibraryInv /\ [LibraryNext]_libraryVars => LibraryInv'
<1> SUFFICES ASSUME LibraryInv, [LibraryNext]_libraryVars PROVE LibraryInv'
  OBVIOUS
<1>1. CASE UNCHANGED libraryVars
  BY <1>1 DEF libraryVars, LibraryInv, LibraryTypes, InOrder, Granted
<1>2. ASSUME NEW r \in Readers, NEW method \in Methods, NEW b \in Books, Request(r, method, b)
      PROVE  LibraryInv'
  BY <1>2, RequestKeeps
<1>3. ASSUME NEW r \in Readers, Read(r) \/ Write(r) PROVE LibraryInv'
  BY <1>3, ReadKeeps, WriteKeeps
<1>4. ASSUME ConcurrentMapAccess PROVE LibraryInv'
  <2>1. \A r \in Readers : handler'[r] = NoRequest
    BY <1>4 DEF ConcurrentMapAccess
  <2>2. handler' \in [Readers -> Handlers]
    BY <1>4 DEF ConcurrentMapAccess, Handlers
  <2>3. UNCHANGED <<books, overlappedBooks, ledger, disputed>>
    BY <1>4 DEF ConcurrentMapAccess
  <2> QED BY <2>1, <2>2, <2>3 DEF LibraryInv, LibraryTypes, InOrder
<1> QED BY <1>1, <1>2, <1>3, <1>4 DEF LibraryNext

LEMMA LibraryImplies == LibraryInv => LibraryTypeOK /\ AnswersAgree
<1> SUFFICES ASSUME LibraryInv PROVE LibraryTypeOK /\ AnswersAgree
  OBVIOUS
<1>1. \A r \in Readers : handler[r] = NoRequest \/ handler[r].book \in Books
  BY BusyHandler DEF LibraryInv
<1> QED BY <1>1 DEF LibraryInv, LibraryTypes, States, LibraryTypeOK, AnswersAgree, InOrder

(* Types of the library, for any books and readers.                        *)
THEOREM LibraryTypeCorrect == LibrarySpec => []LibraryTypeOK
<1> QED BY LibraryStarts, LibraryKeeps, LibraryImplies, PTL DEF LibrarySpec

(* What POST, PUT and DELETE answer about a book agrees with the requests  *)
(* before it, for as many books and clients as there are, while no two     *)
(* requests for the book overlap: the map is read and written in one       *)
(* handler.                                                                *)
THEOREM LibraryAnswersAgree == LibrarySpec => []AnswersAgree
<1> QED BY LibraryStarts, LibraryKeeps, LibraryImplies, PTL DEF LibrarySpec

-----------------------------------------------------------------------------
(* A set of numbers that is not empty has a least one.                     *)
LEMMA LeastOf ==
  ASSUME NEW S \in SUBSET Nat, S # {}
  PROVE  \E i \in S : \A j \in S : ~(j < i)
<1>1. IsWellFoundedOn(OpToRel(<, Nat), Nat)
  BY NatLessThanWellFounded
<1>2. PICK i \in S : \A j \in S : <<j, i>> \notin OpToRel(<, Nat)
  BY <1>1, WFMin
<1>3. \A j \in Nat : j < i => <<j, i>> \in OpToRel(<, Nat)
  BY <1>2 DEF OpToRel
<1> QED BY <1>2, <1>3

(* Hence induction over a set: what holds of 0 and of a successor holds.   *)
LEMMA Induction ==
  ASSUME NEW S \in SUBSET Nat, 0 \in S, \A n \in S : n + 1 \in S
  PROVE  S = Nat
<1> SUFFICES ASSUME Nat \ S # {} PROVE FALSE
  OBVIOUS
<1>1. PICK i \in Nat \ S : \A j \in Nat \ S : ~(j < i)
  BY LeastOf
<1>2. i - 1 \in Nat /\ i - 1 < i
  BY <1>1
<1>3. i - 1 \in S
  BY <1>1, <1>2
<1> QED BY <1>1, <1>3

(* Powers of two: the prover has no rule for them, but a set of k elements *)
(* has 2^k subsets, and one element more doubles them.                     *)
LEMMA PowerStep ==
  ASSUME NEW k \in Nat
  PROVE  2^k \in Nat /\ 2^(k + 1) = 2 * 2^k
<1> DEFINE A == SUBSET (1..k)
           B == {T \cup {k + 1} : T \in A}
           f == [T \in A |-> T \cup {k + 1}]
<1>1. /\ IsFiniteSet(1..k) /\ Cardinality(1..k) = k
      /\ IsFiniteSet(1..(k + 1)) /\ Cardinality(1..(k + 1)) = k + 1
  BY FS_Interval
<1>2. IsFiniteSet(A) /\ Cardinality(A) = 2^k
  BY <1>1, FS_SUBSET
<1>3. Cardinality(SUBSET (1..(k + 1))) = 2^(k + 1)
  BY <1>1, FS_SUBSET
<1>4. IsFiniteSet(B) /\ Cardinality(B) = Cardinality(A)
  <2>1. f \in Bijection(A, B)
    <3>1. f \in Surjection(A, B)
      BY DEF Surjection
    <3>2. ASSUME NEW T \in A, NEW U \in A, f[T] = f[U] PROVE T = U
      <4>1. k + 1 \notin T /\ k + 1 \notin U
        OBVIOUS
      <4> QED BY <3>2, <4>1
    <3>3. f \in Injection(A, B)
      BY <3>1, <3>2 DEF Injection, IsInjective, Surjection
    <3> QED BY <3>1, <3>3 DEF Bijection
  <2> QED BY <1>2, <2>1, FS_Bijection DEF ExistsBijection
<1>5. A \cap B = {}
  <2>1. \A T \in A : k + 1 \notin T
    OBVIOUS
  <2> QED BY <2>1
<1>6. SUBSET (1..(k + 1)) = A \cup B
  <2>1. ASSUME NEW T \in SUBSET (1..(k + 1)), k + 1 \in T PROVE T \in B
    <3>1. T \ {k + 1} \in A /\ T = (T \ {k + 1}) \cup {k + 1}
      BY <2>1
    <3> QED BY <3>1
  <2>2. ASSUME NEW T \in SUBSET (1..(k + 1)), k + 1 \notin T PROVE T \in A
    BY <2>2
  <2>3. ASSUME NEW T \in A PROVE T \in SUBSET (1..(k + 1)) /\ T \cup {k + 1} \in SUBSET (1..(k + 1))
    OBVIOUS
  <2>4. ASSUME NEW U \in A \cup B PROVE U \in SUBSET (1..(k + 1))
    <3>1. CASE U \in A
      BY <2>3, <3>1
    <3>2. CASE U \in B
      <4>1. PICK T \in A : U = T \cup {k + 1}
        BY <3>2
      <4> QED BY <2>3, <4>1
    <3> QED BY <3>1, <3>2
  <2> HIDE DEF A, B
  <2> QED BY <2>1, <2>2, <2>4
<1>7. Cardinality(A) \in Nat /\ Cardinality({}) = 0
  BY <1>2, FS_CardinalityType, FS_EmptySet
<1> HIDE DEF A, B
<1>8. Cardinality(A \cup B) = Cardinality(A) + Cardinality(B) - Cardinality(A \cap B)
  BY <1>2, <1>4, FS_Union
<1>9. Cardinality(A \cup B) = Cardinality(A) + Cardinality(A)
  BY <1>4, <1>5, <1>7, <1>8
<1>10. 2^(k + 1) = 2^k + 2^k /\ 2^k \in Nat
  BY <1>2, <1>3, <1>6, <1>7, <1>9
<1> QED BY <1>10

LEMMA PowerOfNought == 2^0 = 1
OBVIOUS

LEMMA PowerBeyond == \A k \in Nat : k < 2^k
<1> DEFINE S == {k \in Nat : k < 2^k}
<1>1. 0 \in S
  BY PowerOfNought
<1>2. ASSUME NEW k \in S PROVE k + 1 \in S
  BY PowerStep
<1> HIDE DEF S
<1>3. S = Nat
  BY <1>1, <1>2, Induction DEF S
<1> QED BY <1>3 DEF S

LEMMA PowerProduct == \A i, j \in Nat : 2^(i + j) = 2^i * 2^j
<1> TAKE i \in Nat
<1> DEFINE S == {j \in Nat : 2^(i + j) = 2^i * 2^j}
<1>1. 0 \in S
  BY PowerStep, PowerOfNought
<1>2. ASSUME NEW j \in S PROVE j + 1 \in S
  <2>1. /\ 2^i \in Nat /\ 2^j \in Nat
        /\ 2^(i + j + 1) = 2 * 2^(i + j) /\ 2^(j + 1) = 2 * 2^j
    BY PowerStep
  <2>2. 2 * (2^i * 2^j) = 2^i * (2 * 2^j)
    BY <2>1
  <2>3. i + (j + 1) = i + j + 1 /\ 2^(i + j) = 2^i * 2^j
    OBVIOUS
  <2> QED BY <2>1, <2>2, <2>3
<1> HIDE DEF S
<1>3. S = Nat
  BY <1>1, <1>2, Induction DEF S
<1> QED BY <1>3 DEF S

LEMMA PowerGrows == \A i, j \in Nat : i <= j => 2^i <= 2^j
<1> SUFFICES ASSUME NEW i \in Nat, NEW j \in Nat, i <= j PROVE 2^i <= 2^j
  OBVIOUS
<1>1. j - i \in Nat /\ j = i + (j - i)
  OBVIOUS
<1>2. 2^j = 2^i * 2^(j - i)
  BY <1>1, PowerProduct
<1>3. 2^i \in Nat /\ 2^(j - i) \in Nat /\ 2^(j - i) >= 1
  BY <1>1, PowerStep, PowerBeyond
<1>4. \A a, b \in Nat : b >= 1 => a <= a * b
  OBVIOUS
<1> QED BY <1>2, <1>3, <1>4

LEMMA LogIs ==
  ASSUME NEW a \in Nat, a >= 1
  PROVE  Log2(a) \in Nat /\ 2^Log2(a) <= a /\ a < 2^(Log2(a) + 1)
<1> DEFINE S == {k \in Nat : a < 2^(k + 1)}
<1>1. a \in S
  BY PowerBeyond, PowerStep
<1>2. PICK k \in S : \A j \in S : ~(j < k)
  BY <1>1, LeastOf
<1>3. 2^k <= a
  <2>1. CASE k = 0
    BY <2>1, PowerOfNought
  <2>2. CASE k # 0
    <3>1. k - 1 \in Nat /\ k - 1 < k /\ (k - 1) + 1 = k
      BY <2>2
    <3>2. ~(a < 2^((k - 1) + 1))
      BY <1>2, <3>1
    <3>3. ~(a < 2^k)
      BY <3>1, <3>2
    <3> QED BY <3>3, PowerStep
  <2> QED BY <2>1, <2>2
<1>4. k \in 0..a
  BY <1>3, PowerBeyond, PowerStep
<1> DEFINE P(l) == l \in 0..a /\ 2^l <= a /\ a < 2^(l + 1)
<1>5. P(k)
  BY <1>2, <1>3, <1>4
<1>6. Log2(a) = CHOOSE l : P(l)
  BY Zenon DEF Log2
<1> HIDE DEF P
<1>7. P(Log2(a))
  BY <1>5, <1>6, Zenon
<1> QED BY <1>7 DEF P

LEMMA LogOfProduct ==
  ASSUME NEW a \in Nat, NEW b \in Nat, a >= 1, b >= 1
  PROVE  Log2(a) + Log2(b) <= Log2(a * b)
<1>1. /\ Log2(a) \in Nat /\ 2^Log2(a) <= a /\ Log2(b) \in Nat /\ 2^Log2(b) <= b
  BY LogIs
<1>2. a * b \in Nat /\ a * b >= 1
  BY \A i, j \in Nat : i >= 1 /\ j >= 1 => i * j \in Nat /\ i * j >= 1
<1>3. Log2(a * b) \in Nat /\ a * b < 2^(Log2(a * b) + 1)
  BY <1>2, LogIs
<1>4. 2^(Log2(a) + Log2(b)) <= a * b
  <2>1. \A i, j, m \in Nat : i <= m => i * j <= m * j /\ j * i <= j * m
    OBVIOUS
  <2>2. 2^Log2(a) \in Nat /\ 2^Log2(b) \in Nat
    BY <1>1, PowerStep
  <2>3. 2^Log2(a) * 2^Log2(b) <= a * 2^Log2(b) /\ a * 2^Log2(b) <= a * b
    BY <1>1, <2>1, <2>2
  <2>4. 2^(Log2(a) + Log2(b)) = 2^Log2(a) * 2^Log2(b)
    BY <1>1, PowerProduct
  <2>5. \A i, j \in Nat : i * j \in Nat
    OBVIOUS
  <2> DEFINE m == a * 2^Log2(b)
             n == 2^Log2(a) * 2^Log2(b)
  <2>6. m \in Nat /\ n \in Nat
    BY <2>2, <2>5
  <2>7. n <= m /\ m <= a * b
    BY <2>3
  <2> HIDE DEF m, n
  <2>8. n <= a * b
    BY <1>2, <2>6, <2>7
  <2> QED BY <2>4, <2>8 DEF n
<1> SUFFICES ASSUME Log2(a * b) + 1 <= Log2(a) + Log2(b) PROVE FALSE
  BY <1>1, <1>3
<1>5. 2^(Log2(a * b) + 1) <= 2^(Log2(a) + Log2(b))
  BY <1>1, <1>3, PowerGrows
<1> QED BY <1>1, <1>2, <1>3, <1>4, <1>5, PowerStep

-----------------------------------------------------------------------------
Points == [x : Int, y : Int]

TreasureInv ==
  /\ KeepsTreasure
  /\ border \in Points /\ goal \in Points /\ query \in Points /\ cur \in Points
  /\ low \in Int /\ high \in Int /\ axis \in {"x", "y"}
  /\ asked \in {"nothing", "first", "middle", "beyond", "declared"}
  /\ goal.x \in 1..border.x /\ goal.y \in 1..border.y /\ gx \in 1..border.x
  /\ axis = "y" => gx = goal.x
  /\ turn = "none" => low = 1 /\ axis = "x" /\ asked = "nothing" /\ border = Corner
  /\ turn = "tracker" /\ asked # "nothing" => lastDistance = Distance(cur)
  /\ turn = "judge" /\ asked = "beyond" =>
       /\ low < high /\ lastDistance = Distance(cur)
       /\ cur = Point(mid) /\ query = Point(mid + 1)

LEMMA Middle ==
  ASSUME NEW l \in Int, NEW h \in Int, l < h
  PROVE  (l + h) \div 2 \in Int /\ l <= (l + h) \div 2 /\ (l + h) \div 2 < h
OBVIOUS

LEMMA TreasureStarts == TreasureInit => TreasureInv
BY DEF TreasureInit, TreasureInv, KeepsTreasure, Corner, Points

(* A question in the ground is asked, of which the tracker knows enough.   *)
LEMMA AskKeeps ==
  ASSUME TreasureInv, NEW what \in {"first", "middle", "beyond", "declared"},
         NEW point \in Points, Ask(what, point),
         point.x \in 1..border.x, point.y \in 1..border.y,
         what = "beyond" => /\ asked # "nothing" /\ low < high
                            /\ cur = Point(mid) /\ point = Point(mid + 1)
  PROVE  TreasureInv'
<1>1. /\ turn = "tracker" /\ turn' = "judge" /\ asked' = what /\ query' = point
      /\ UNCHANGED <<border, goal, cur, axis, low, high, gx, lastDistance, queries, verdict>>
  BY DEF Ask
<1>2. /\ Distance(cur)' = Distance(cur) /\ mid' = mid
      /\ Point(mid)' = Point(mid) /\ Point(mid + 1)' = Point(mid + 1)
  BY <1>1 DEF Distance, mid, Point
<1>3. KeepsTreasure'
  BY <1>1 DEF TreasureInv, KeepsTreasure
<1> QED BY <1>1, <1>2, <1>3 DEF TreasureInv

(* The points asked lie in the ground.                                     *)
LEMMA PointInGround ==
  ASSUME TreasureInv, turn = "tracker", NEW v \in low..high
  PROVE  Point(v) \in Points /\ Point(v).x \in 1..border.x /\ Point(v).y \in 1..border.y
<1>1. v \in Int /\ 1 <= v /\ v <= border[axis] /\ border.x \in Int /\ border.y \in Int
  BY DEF TreasureInv, KeepsTreasure, Points
<1>2. 1 \in 1..border.y
  BY DEF TreasureInv, Points
<1>3. CASE axis = "x"
  BY <1>1, <1>2, <1>3 DEF Point, Points, TreasureInv
<1>4. CASE axis = "y"
  BY <1>1, <1>4 DEF Point, Points, TreasureInv
<1> QED BY <1>3, <1>4 DEF TreasureInv

LEMMA AsksKeep ==
  ASSUME TreasureInv, AskFirst \/ AskMiddle \/ AskBeyond \/ Declare
  PROVE  TreasureInv'
<1>0. low \in Int /\ high \in Int
  BY DEF TreasureInv
<1>1. CASE AskFirst
  <2>1. Corner \in Points /\ Corner.x \in 1..border.x /\ Corner.y \in 1..border.y
    BY DEF Corner, Points, TreasureInv
  <2> QED BY <1>1, <2>1, AskKeeps DEF AskFirst
<1>2. CASE AskMiddle
  <2>1. turn = "tracker" /\ mid \in low..high
    BY <1>0, <1>2, Middle DEF AskMiddle, Ask, Searching, mid
  <2> QED BY <1>2, <2>1, PointInGround, AskKeeps DEF AskMiddle
<1>3. CASE AskBeyond
  <2>1. turn = "tracker" /\ mid + 1 \in low..high /\ low < high /\ asked # "nothing" /\ cur = Point(mid)
    BY <1>0, <1>3, Middle DEF AskBeyond, Ask, Searching, mid
  <2> QED BY <1>3, <2>1, PointInGround, AskKeeps DEF AskBeyond
<1>4. CASE Declare
  <2>1. turn = "tracker" /\ low \in low..high
    BY <1>0, <1>4 DEF Declare, Ask
  <2> QED BY <1>4, <2>1, PointInGround, AskKeeps DEF Declare
<1> QED BY <1>1, <1>2, <1>3, <1>4

LEMMA SendGroundKeeps ==
  ASSUME TreasureInv, turn = "none", NEW b \in [x : Side, y : Side],
         NEW g \in [x : 1..b.x, y : 1..b.y], SendGround(b, g)
  PROVE  TreasureInv'
<1>1. /\ border' = b /\ goal' = g /\ turn' = "tracker" /\ high' = b.x
      /\ UNCHANGED <<asked, query, cur, axis, low, gx, lastDistance, queries, verdict>>
      /\ low = 1 /\ axis = "x" /\ asked = "nothing" /\ border = Corner
  BY DEF SendGround, TreasureInv
<1>2. /\ b \in Points /\ g \in Points /\ b.x >= 1 /\ b.y >= 1
      /\ g.x \in 1..b.x /\ g.y \in 1..b.y /\ b.x \in Int /\ b.y \in Int
  BY TreasureAssumption DEF Side, Points
<1>3. gx = 1 /\ query.x = 1 /\ query.y = 1
  BY <1>1 DEF TreasureInv, KeepsTreasure, Corner, Points
<1>4. KeepsTreasure'
  BY <1>1, <1>2, <1>3 DEF KeepsTreasure
<1> QED BY <1>1, <1>2, <1>3, <1>4 DEF TreasureInv

LEMMA StartYKeeps ==
  ASSUME TreasureInv, StartY
  PROVE  TreasureInv'
<1>1. /\ turn = "tracker" /\ asked # "nothing" /\ axis = "x" /\ low = high
      /\ gx' = low /\ axis' = "y" /\ low' = 1 /\ high' = border.y
      /\ UNCHANGED <<border, goal, turn, asked, query, cur, lastDistance, queries, verdict>>
  BY DEF StartY
<1>2. /\ low = goal.x /\ border.y \in Int /\ border.y >= 1
      /\ goal.x \in 1..border.x /\ goal.y \in 1..border.y
  BY <1>1 DEF TreasureInv, KeepsTreasure, Points
<1>3. Distance(cur)' = Distance(cur)
  BY <1>1 DEF Distance
<1>4. KeepsTreasure'
  BY <1>1, <1>2 DEF TreasureInv, KeepsTreasure
<1> QED BY <1>1, <1>2, <1>3, <1>4 DEF TreasureInv

(* One step along a line: closer exactly when the treasure lies beyond it. *)
LEMMA OneStep ==
  ASSUME NEW g \in Int, NEW m \in Int, NEW other \in Int
  PROVE  /\ Abs(g - (m + 1)) + other < Abs(g - m) + other <=> g >= m + 1
         /\ Abs(g - (m + 1)) + other > Abs(g - m) + other <=> g <= m
BY DEF Abs

LEMMA NarrowedKeeps ==
  ASSUME TreasureInv, turn = "judge", asked = "beyond",
         Narrowed(Distance(query) < lastDistance, Distance(query) > lastDistance)
  PROVE  /\ low' \in Int /\ high' \in Int /\ low' \in 1..high' /\ high' <= border[axis]
         /\ goal[axis] \in low'..high'
         /\ (low' = mid + 1 /\ high' = high) \/ (low' = low /\ high' = mid)
<1>0. /\ low \in Int /\ high \in Int /\ low < high /\ 1 <= low /\ high <= border[axis]
      /\ goal[axis] \in low..high /\ goal[axis] \in Int /\ border[axis] \in Int
  BY DEF TreasureInv, KeepsTreasure, Points
<1>1. mid \in Int /\ low <= mid /\ mid < high
  BY <1>0, Middle DEF mid
<1>2. query = Point(mid + 1) /\ lastDistance = Distance(Point(mid))
  BY DEF TreasureInv
<1>3. /\ Distance(query) < lastDistance <=> goal[axis] >= mid + 1
      /\ Distance(query) > lastDistance <=> goal[axis] <= mid
  <2> DEFINE m == mid
  <2>1. goal.x \in Int /\ goal.y \in Int /\ gx \in Int
    BY DEF TreasureInv, Points
  <2>2. CASE axis = "x"
    <3>1. /\ Distance(query) = Abs(goal.x - (mid + 1)) + Abs(goal.y - 1)
          /\ lastDistance = Abs(goal.x - mid) + Abs(goal.y - 1)
      BY <1>2, <2>2 DEF Distance, Point
    <3>2. Abs(goal.y - 1) \in Int
      BY <2>1 DEF Abs
    <3> QED BY <1>1, <2>1, <2>2, <3>1, <3>2, OneStep
  <2>3. CASE axis = "y"
    <3>1. /\ Distance(query) = Abs(goal.x - gx) + Abs(goal.y - (mid + 1))
          /\ lastDistance = Abs(goal.x - gx) + Abs(goal.y - mid)
      BY <1>2, <2>3 DEF Distance, Point
    <3>2. Abs(goal.x - gx) \in Int /\ Abs(goal.y - (mid + 1)) \in Int /\ Abs(goal.y - mid) \in Int
      BY <1>1, <2>1 DEF Abs
    <3>3. /\ Distance(query) = Abs(goal.y - (mid + 1)) + Abs(goal.x - gx)
          /\ lastDistance = Abs(goal.y - mid) + Abs(goal.x - gx)
      BY <3>1, <3>2
    <3> QED BY <1>1, <2>1, <2>3, <3>2, <3>3, OneStep
  <2> QED BY <2>2, <2>3 DEF TreasureInv
<1>4. CASE goal[axis] >= mid + 1
  <2>1. low' = mid + 1 /\ high' = high
    BY <1>3, <1>4 DEF Narrowed
  <2> QED BY <1>0, <1>1, <1>4, <2>1
<1>5. CASE goal[axis] <= mid
  <2>1. ~(goal[axis] >= mid + 1)
    BY <1>0, <1>1, <1>5
  <2>2. low' = low /\ high' = mid
    BY <1>3, <1>5, <2>1 DEF Narrowed
  <2> QED BY <1>0, <1>1, <1>5, <2>2
<1> QED BY <1>0, <1>1, <1>4, <1>5

LEMMA AnswerQueryKeeps ==
  ASSUME TreasureInv, AnswerQuery
  PROVE  TreasureInv'
<1>1. /\ turn = "judge" /\ turn' = "tracker" /\ cur' = query /\ lastDistance' = Distance(query)
      /\ UNCHANGED <<border, goal, asked, query, axis, gx, verdict>>
      /\ asked = "beyond" => Narrowed(Distance(query) < lastDistance, Distance(query) > lastDistance)
      /\ asked # "beyond" => UNCHANGED <<low, high>>
  BY DEF AnswerQuery
<1>2. /\ low' \in Int /\ high' \in Int /\ low' \in 1..high' /\ high' <= border[axis]
      /\ goal[axis] \in low'..high'
  <2>1. CASE asked = "beyond"
    BY <1>1, <2>1, NarrowedKeeps
  <2>2. CASE asked # "beyond"
    BY <1>1, <2>2 DEF TreasureInv, KeepsTreasure
  <2> QED BY <2>1, <2>2
<1>3. Distance(cur)' = Distance(query)
  BY <1>1 DEF Distance
<1>4. KeepsTreasure'
  BY <1>1, <1>2 DEF TreasureInv, KeepsTreasure
<1> QED BY <1>1, <1>2, <1>3, <1>4 DEF TreasureInv

LEMMA TreasureStays ==
  ASSUME TreasureInv,
         border' = border, goal' = goal, asked' = asked, query' = query, cur' = cur,
         axis' = axis, low' = low, high' = high, gx' = gx, lastDistance' = lastDistance,
         turn' = turn \/ (turn = "judge" /\ turn' = "over")
  PROVE  TreasureInv'
<1>1. /\ Distance(cur)' = Distance(cur) /\ mid' = mid
      /\ Point(mid)' = Point(mid) /\ Point(mid + 1)' = Point(mid + 1)
  BY DEF Distance, mid, Point
<1>2. KeepsTreasure'
  BY DEF TreasureInv, KeepsTreasure
<1> QED BY <1>1, <1>2 DEF TreasureInv

LEMMA TreasureKeeps == TreasureInv /\ [TreasureNext]_treasureVars => TreasureInv'
<1> SUFFICES ASSUME TreasureInv, [TreasureNext]_treasureVars PROVE TreasureInv'
  OBVIOUS
<1>1. ASSUME turn = "none", NEW b \in [x : Side, y : Side], NEW g \in [x : 1..b.x, y : 1..b.y],
             SendGround(b, g)
      PROVE  TreasureInv'
  BY <1>1, SendGroundKeeps
<1>2. CASE AskFirst \/ AskMiddle \/ AskBeyond \/ Declare
  BY <1>2, AsksKeep
<1>3. CASE StartY
  BY <1>3, StartYKeeps
<1>4. CASE AnswerQuery
  BY <1>4, AnswerQueryKeeps
<1>5. CASE Found
  BY <1>5, TreasureStays DEF Found, End
<1>6. CASE UNCHANGED treasureVars
  <2>1. /\ border' = border /\ goal' = goal /\ asked' = asked /\ query' = query
        /\ cur' = cur /\ axis' = axis /\ low' = low /\ high' = high /\ gx' = gx
        /\ lastDistance' = lastDistance /\ turn' = turn
    BY <1>6 DEF treasureVars
  <2> QED BY <2>1, TreasureStays
<1> QED BY <1>1, <1>2, <1>3, <1>4, <1>5, <1>6 DEF TreasureNext

(* What the tracker has spent of its questions, the one on its way to the  *)
(* judge included, but for those of a halving that is not over: at most    *)
(* two questions halve the interval.  A coordinate of at most 2^k          *)
(* candidates costs 2k questions.                                          *)
Halfway == Searching /\ cur = Point(mid)
spent == IF asked = "nothing" \/ (turn = "judge" /\ asked = "first") THEN queries + 1
         ELSE IF turn = "judge" /\ asked = "middle" THEN queries
         ELSE IF turn = "judge" \/ Halfway THEN queries - 1
         ELSE queries
Cost(side) == 2 * (Log2(side) + 1)

Affordable ==
  \E k \in Nat :
    /\ high - low < 2^k
    /\ spent + 2 * k + (IF axis = "x" THEN Cost(border.y) ELSE 0)
         <= 1 + Cost(border.x) + Cost(border.y)

BudgetInv ==
  /\ queries \in Nat /\ (turn \in {"judge", "over"} => queries < maxQuery)
  /\ turn = "none" => queries = 0
  /\ (turn \in {"tracker", "judge"} /\ asked # "declared") => Affordable
  /\ turn = "tracker" => asked # "declared"
  /\ turn = "judge" => asked # "nothing"
  /\ (turn = "judge" /\ asked = "middle") => low < high /\ query = Point(mid)
  /\ (turn = "judge" /\ asked = "declared") => query = goal

LEMMA GroundLogs ==
  ASSUME NEW b, b.x \in Nat, b.x >= 1, b.y \in Nat, b.y >= 1
  PROVE  /\ Log2(b.x) \in Nat /\ Log2(b.y) \in Nat /\ Log2(b.x * b.y) \in Nat
         /\ b.x < 2^(Log2(b.x) + 1) /\ b.y < 2^(Log2(b.y) + 1)
         /\ Cost(b.x) \in Nat /\ Cost(b.y) \in Nat
         /\ 2 + Cost(b.x) + Cost(b.y) <= 3 * (Log2(b.x * b.y) + 2)
<1>1. b.x * b.y \in Nat /\ b.x * b.y >= 1
  BY \A i, j \in Nat : i >= 1 /\ j >= 1 => i * j \in Nat /\ i * j >= 1
<1>2. /\ Log2(b.x) \in Nat /\ Log2(b.y) \in Nat /\ Log2(b.x * b.y) \in Nat
      /\ b.x < 2^(Log2(b.x) + 1) /\ b.y < 2^(Log2(b.y) + 1)
      /\ Log2(b.x) + Log2(b.y) <= Log2(b.x * b.y)
  BY <1>1, LogIs, LogOfProduct
<1> QED BY <1>2 DEF Cost

LEMMA Budget ==
  ASSUME TreasureInv
  PROVE  /\ Log2(border.x) \in Nat /\ Log2(border.y) \in Nat
         /\ border.x < 2^(Log2(border.x) + 1) /\ border.y < 2^(Log2(border.y) + 1)
         /\ Cost(border.x) \in Nat /\ Cost(border.y) \in Nat /\ maxQuery \in Nat
         /\ 2 + Cost(border.x) + Cost(border.y) <= maxQuery
<1>1. border.x \in Nat /\ border.x >= 1 /\ border.y \in Nat /\ border.y >= 1
  BY DEF TreasureInv, Points
<1> QED BY <1>1, GroundLogs DEF maxQuery

LEMMA TakesPower ==
  ASSUME NEW k \in Nat, NEW l \in Int, NEW h \in Int, l < h, h - l < 2^k
  PROVE  k # 0
<1>1. k = 0 => 2^k = 1
  BY PowerOfNought
<1> QED BY <1>1

\* An affordable search that waits for an answer or has a halving to do ends in time.
LEMMA InTime ==
  ASSUME TreasureInv, queries \in Nat, Affordable, turn = "tracker"
  PROVE  queries < maxQuery
<1>1. PICK k \in Nat :
        /\ high - low < 2^k
        /\ spent + 2 * k + (IF axis = "x" THEN Cost(border.y) ELSE 0)
             <= 1 + Cost(border.x) + Cost(border.y)
  BY DEF Affordable
<1>2. spent \in Int /\ low \in Int /\ high \in Int
  BY DEF spent, TreasureInv
<1>3. CASE Halfway
  <2>1. low < high /\ queries <= spent + 1
    BY <1>3 DEF Halfway, Searching, spent
  <2>2. k # 0
    BY <1>1, <1>2, <2>1, TakesPower
  <2> QED BY <1>1, <1>2, <2>1, <2>2, Budget
<1>4. CASE ~Halfway
  <2>1. queries <= spent
    BY <1>4 DEF spent
  <2> QED BY <1>1, <1>2, <2>1, Budget
<1> QED BY <1>3, <1>4

LEMMA BudgetStarts == TreasureInit => BudgetInv
BY DEF TreasureInit, BudgetInv

(* What a question on its way costs is what is left of its halving.        *)
LEMMA AsksAffordable ==
  ASSUME TreasureInv, BudgetInv, AskFirst \/ AskMiddle \/ AskBeyond \/ Declare
  PROVE  BudgetInv'
<1>1. /\ turn = "tracker" /\ turn' = "judge" /\ queries < maxQuery
      /\ UNCHANGED <<border, goal, cur, axis, low, high, gx, queries>>
  BY DEF AskFirst, AskMiddle, AskBeyond, Declare, Ask
<1>2. mid' = mid /\ Point(mid)' = Point(mid) /\ maxQuery' = maxQuery
  BY <1>1 DEF mid, Point, maxQuery
<1>3. ASSUME spent' = spent, Affordable PROVE Affordable'
  BY <1>1, <1>3 DEF Affordable, Cost
<1>4. CASE AskFirst
  <2>1. asked = "nothing" /\ asked' = "first"
    BY <1>4 DEF AskFirst, Ask
  <2>2. spent' = spent /\ Affordable
    BY <1>1, <2>1 DEF spent, BudgetInv
  <2> QED BY <1>1, <1>2, <1>3, <2>1, <2>2 DEF BudgetInv
<1>5. CASE AskMiddle
  <2>1. /\ asked # "nothing" /\ asked' = "middle" /\ query' = Point(mid) /\ low < high
        /\ ~Halfway /\ asked # "declared"
    BY <1>1, <1>5 DEF AskMiddle, Ask, Searching, Halfway, BudgetInv
  <2>2. spent' = spent /\ Affordable
    BY <1>1, <2>1 DEF spent, BudgetInv
  <2> QED BY <1>1, <1>2, <1>3, <2>1, <2>2 DEF BudgetInv
<1>6. CASE AskBeyond
  <2>1. asked # "nothing" /\ asked' = "beyond" /\ Halfway /\ asked # "declared"
    BY <1>1, <1>6 DEF AskBeyond, Ask, Halfway, Searching, BudgetInv
  <2>2. spent' = spent /\ Affordable
    BY <1>1, <2>1 DEF spent, BudgetInv
  <2> QED BY <1>1, <1>2, <1>3, <2>1, <2>2 DEF BudgetInv
<1>7. CASE Declare
  <2>1. axis = "y" /\ low = high /\ asked' = "declared" /\ query' = Point(low)
    BY <1>7 DEF Declare, Ask
  <2>2. goal.y = low /\ gx = goal.x
    BY <1>1, <2>1 DEF TreasureInv, KeepsTreasure, Points
  <2>3. query' = goal'
    BY <1>1, <2>1, <2>2 DEF Point, TreasureInv, Points
  <2> QED BY <1>1, <1>2, <2>1, <2>3 DEF BudgetInv
<1> QED BY <1>4, <1>5, <1>6, <1>7

(* An answer ends a halving, half of it, or none.                          *)
LEMMA AnswerAffordable ==
  ASSUME TreasureInv, BudgetInv, AnswerQuery
  PROVE  BudgetInv'
<1>1. /\ turn = "judge" /\ turn' = "tracker" /\ query # goal
      /\ cur' = query /\ queries' = queries + 1
      /\ UNCHANGED <<border, goal, asked, query, axis, gx>>
      /\ asked = "beyond" => Narrowed(Distance(query) < lastDistance, Distance(query) > lastDistance)
      /\ asked # "beyond" => UNCHANGED <<low, high>>
  BY DEF AnswerQuery
<1>2. TreasureInv' /\ low \in Int /\ high \in Int /\ queries \in Nat
  BY AnswerQueryKeeps DEF TreasureInv, BudgetInv
<1>3. asked # "declared"
  BY <1>1 DEF BudgetInv
<1>4. PICK k \in Nat :
        /\ high - low < 2^k
        /\ spent + 2 * k + (IF axis = "x" THEN Cost(border.y) ELSE 0)
             <= 1 + Cost(border.x) + Cost(border.y)
  BY <1>1, <1>3 DEF BudgetInv, Affordable
<1>5. spent \in Int /\ spent' \in Int /\ Cost(border.x) \in Nat /\ Cost(border.y) \in Nat
  BY <1>1, <1>2, Budget DEF spent
<1>6. Affordable'
  <2>1. CASE asked = "beyond"
    <3>1. low < high /\ ((low' = mid + 1 /\ high' = high) \/ (low' = low /\ high' = mid))
      BY <1>1, <2>1, NarrowedKeeps DEF TreasureInv
    <3>2. k # 0
      BY <1>2, <1>4, <3>1, TakesPower
    <3>3. k - 1 \in Nat /\ (k - 1) + 1 = k
      BY <3>2
    <3>4. 2^(k - 1) \in Nat /\ 2^k = 2 * 2^(k - 1)
      BY <3>3, PowerStep
    <3> DEFINE half == 2^(k - 1)
    <3>5. half \in Nat /\ high - low < 2 * half
      BY <1>4, <3>4
    <3> HIDE DEF half
    <3>6. high' - low' < half
      BY <1>2, <3>1, <3>5 DEF mid
    <3>7. spent = queries - 1 /\ spent' <= queries + 1
      BY <1>1, <1>2, <2>1 DEF spent
    <3>8. spent' + 2 * (k - 1) + (IF axis = "x" THEN Cost(border.y) ELSE 0)
            <= 1 + Cost(border.x) + Cost(border.y)
      BY <1>2, <1>4, <1>5, <3>7
    <3> QED BY <1>1, <3>3, <3>6, <3>8 DEF Affordable, Cost, half
  <2>2. CASE asked # "beyond"
    <3>1. spent' <= spent
      <4>1. CASE asked = "middle"
        <5>1. low < high /\ query = Point(mid) /\ Point(mid)' = Point(mid)
          BY <1>1, <2>2, <4>1 DEF BudgetInv, Point, mid
        <5>2. Halfway'
          BY <1>1, <2>2, <4>1, <5>1 DEF Halfway, Searching
        <5> QED BY <1>1, <1>2, <4>1, <5>2 DEF spent
      <4>2. CASE asked # "middle"
        <5>1. asked = "first"
          BY <1>1, <1>3, <2>2, <4>2 DEF TreasureInv, BudgetInv
        <5> QED BY <1>1, <1>2, <5>1 DEF spent
      <4> QED BY <4>1, <4>2
    <3>2. spent' + 2 * k + (IF axis = "x" THEN Cost(border.y) ELSE 0)
            <= 1 + Cost(border.x) + Cost(border.y)
      BY <1>4, <1>5, <3>1
    <3> QED BY <1>1, <1>4, <2>2, <3>2 DEF Affordable, Cost
  <2> QED BY <2>1, <2>2
<1> QED BY <1>1, <1>2, <1>3, <1>6 DEF BudgetInv

(* A search along a line of b points costs no more than was set aside.     *)
LEMMA StartsAffordable ==
  ASSUME TreasureInv, BudgetInv,
         \/ StartY
         \/ turn = "none" /\ \E b \in [x : Side, y : Side] : \E g \in [x : 1..b.x, y : 1..b.y] :
                               SendGround(b, g)
  PROVE  BudgetInv'
<1>1. CASE StartY
  <2>1. /\ turn = "tracker" /\ asked # "nothing" /\ axis = "x" /\ low = high
        /\ axis' = "y" /\ low' = 1 /\ high' = border.y
        /\ UNCHANGED <<border, goal, turn, asked, query, cur, queries>>
    BY <1>1 DEF StartY
  <2>2. asked # "declared" /\ queries \in Nat
    BY <2>1 DEF BudgetInv
  <2>3. PICK k \in Nat : spent + 2 * k + Cost(border.y) <= 1 + Cost(border.x) + Cost(border.y)
    BY <2>1, <2>2 DEF BudgetInv, Affordable
  <2>4. spent = queries /\ spent' <= queries /\ spent' \in Int
    BY <2>1, <2>2 DEF spent, Halfway, Searching, TreasureInv
  <2> DEFINE l == Log2(border.y) + 1
  <2>5. l \in Nat /\ Cost(border.y) = 2 * l /\ border.y - 1 < 2^l /\ Cost(border.x) \in Nat
    <3>1. border.y \in Int /\ 2^l \in Nat
      BY PowerStep, Budget DEF TreasureInv, Points
    <3> QED BY <3>1, Budget DEF Cost
  <2>6. high' - low' < 2^l /\ spent' + 2 * l + 0 <= 1 + Cost(border.x) + Cost(border.y)
    BY <2>1, <2>2, <2>3, <2>4, <2>5
  <2>7. Affordable'
    BY <2>1, <2>5, <2>6 DEF Affordable, Cost
  <2> QED BY <2>1, <2>2, <2>7 DEF BudgetInv, maxQuery
<1>2. ASSUME turn = "none", NEW b \in [x : Side, y : Side], NEW g \in [x : 1..b.x, y : 1..b.y],
             SendGround(b, g)
      PROVE  BudgetInv'
  <2>1. /\ turn' = "tracker" /\ border' = b /\ high' = b.x
        /\ low' = 1 /\ axis' = "x" /\ asked' = "nothing" /\ queries' = 0
    BY <1>2 DEF SendGround, TreasureInv, BudgetInv
  <2> DEFINE l == Log2(b.x) + 1
  <2>3. /\ l \in Nat /\ b.x < 2^l /\ Cost(b.x) = 2 * l /\ Cost(b.y) \in Nat
    BY GroundLogs, TreasureAssumption DEF Cost, Side
  <2>4. b.x \in Int /\ 2^l \in Nat
    BY <2>3, PowerStep, TreasureAssumption DEF Side
  <2>5. spent' = 1
    BY <2>1 DEF spent
  <2>6. high' - low' < 2^l /\ spent' + 2 * l + Cost(b.y) <= 1 + Cost(b.x) + Cost(b.y)
    BY <2>1, <2>3, <2>4, <2>5
  <2>7. Affordable'
    BY <2>1, <2>3, <2>6 DEF Affordable, Cost
  <2> QED BY <2>1, <2>3, <2>7 DEF BudgetInv
<1> QED BY <1>1, <1>2

LEMMA BudgetKeeps == TreasureInv /\ BudgetInv /\ [TreasureNext]_treasureVars => BudgetInv'
<1> SUFFICES ASSUME TreasureInv, BudgetInv, [TreasureNext]_treasureVars PROVE BudgetInv'
  OBVIOUS
<1>1. CASE Found
  BY <1>1 DEF Found, End, BudgetInv, maxQuery
<1>2. CASE UNCHANGED treasureVars
  BY <1>2 DEF treasureVars, BudgetInv, Affordable, spent, Cost, Halfway, Searching, Point, mid, maxQuery
<1> QED BY <1>1, <1>2, AsksAffordable, AnswerAffordable, StartsAffordable DEF TreasureNext

(* Whatever the ground and wherever the treasure lies, each answer of the  *)
(* judge halves the interval around it: FindTreasure never asks outside    *)
(* the ground and never searches where the treasure is not.                *)
THEOREM TreasureKept == TreasureSpec => []KeepsTreasure
<1>1. TreasureInv => KeepsTreasure
  BY DEF TreasureInv
<1> QED BY <1>1, TreasureStarts, TreasureKeeps, PTL DEF TreasureSpec

(* Nor does it ever use up its questions, however large the ground: a      *)
(* coordinate takes two for each halving, and with the first and the last  *)
(* question that is within three times the logarithm and six (findMaxQuery *)
(* in main_test.go).                                                       *)
THEOREM TreasureInBudget == TreasureSpec => []TreasureTypeOK
<1>1. TreasureInv /\ BudgetInv => TreasureTypeOK
  <2> SUFFICES ASSUME TreasureInv, BudgetInv PROVE TreasureTypeOK
    OBVIOUS
  <2>1. turn = "tracker" => queries < maxQuery
    BY InTime DEF BudgetInv
  <2>2. maxQuery \in Nat
    BY Budget
  <2> QED BY <2>1, <2>2 DEF TreasureInv, KeepsTreasure, BudgetInv, TreasureTypeOK
<1> QED BY <1>1, TreasureStarts, TreasureKeeps, BudgetStarts, BudgetKeeps, PTL DEF TreasureSpec

(* A tracker that declares a point declares the treasure's, so that the    *)
(* judge never answers a declaration with a distance (main.go, the end of  *)
(* FindTreasure).                                                          *)
DeclaresTreasure == asked = "declared" => query = goal

THEOREM TreasureDeclared == TreasureSpec => []DeclaresTreasure
<1> DEFINE OverInv == turn = "over" => query = goal
<1>1. TreasureInit => OverInv
  BY DEF TreasureInit
<1>2. OverInv /\ [TreasureNext]_treasureVars => OverInv'
  BY DEF TreasureNext, SendGround, AskFirst, AskMiddle, AskBeyond, StartY, Declare, Ask,
         AnswerQuery, Found, End, treasureVars
<1>3. TreasureInv /\ BudgetInv /\ OverInv => DeclaresTreasure
  BY DEF TreasureInv, KeepsTreasure, BudgetInv, DeclaresTreasure
<1> QED BY <1>1, <1>2, <1>3, TreasureStarts, TreasureKeeps, BudgetStarts, BudgetKeeps, PTL
        DEF TreasureSpec

-----------------------------------------------------------------------------
USE DEF Temps

(* A temperature on its way to the target stays in range and gets closer.  *)
LEMMA CloserBetween ==
  ASSUME TypeOK, NEW r \in Rooms, ~AtTarget(r)
  PROVE  /\ Closer(r) \in Temps
         /\ Closer(r) # current[r]
         /\ \/ target[r] >= Closer(r) /\ Closer(r) > current[r]
            \/ target[r] <= Closer(r) /\ Closer(r) < current[r]
  <1>1. current[r] \in Temps /\ target[r] \in Temps /\ current[r] # target[r]
    BY DEF TypeOK, AtTarget
  <1> QED BY <1>1, ThermostatAssumption DEF Closer

LEMMA InitTypeOK == Init => TypeOK
  BY ThermostatAssumption DEF Init, TypeOK, Todo, NoCall

(* A call that has still to start or stop a fan knows its room.            *)
LEMMA CallersRoom ==
  ASSUME TypeOK, NEW c \in Callers, caller[c].at \in {"start", "stop"}
  PROVE  caller[c].room \in Rooms
  <1>1. caller[c] \in Todo
    BY DEF TypeOK
  <1>2. caller[c] # NoCall
    BY DEF NoCall
  <1> QED BY <1>1, <1>2 DEF Todo

LEMMA StepTypeOK == TypeOK /\ [Next]_vars => TypeOK'
  <1> SUFFICES ASSUME TypeOK, [Next]_vars PROVE TypeOK'
    OBVIOUS
  <1>1. ASSUME NEW c \in Callers, NEW r \in Rooms, AddRoom(c, r) PROVE TypeOK'
    BY <1>1, ThermostatAssumption DEF AddRoom, Call, TypeOK
  <1>2. ASSUME NEW c \in Callers, NEW r \in Rooms, UpdateRoomTemperature(c, r) PROVE TypeOK'
    <2>1. PICK temp \in Temps :
            /\ current' = [current EXCEPT ![r] = temp]
            /\ caller' = [caller EXCEPT ![c] = [at |-> AfterUpdate(temp, r), room |-> r]]
      BY <1>2 DEF UpdateRoomTemperature
    <2>2. [at |-> AfterUpdate(temp, r), room |-> r] \in Todo
      BY DEF AfterUpdate, Todo
    <2>3. current' \in [Rooms -> Temps] /\ caller' \in [Callers -> Todo]
      BY <2>1, <2>2 DEF TypeOK
    <2> QED BY <1>2, <2>3, ThermostatAssumption DEF UpdateRoomTemperature, Call, TypeOK
  <1>3. ASSUME NEW c \in Callers, NEW r \in Rooms, SetOccupancy(c, r) PROVE TypeOK'
    <2>1. PICK occ \in BOOLEAN :
            /\ occupied' = [occupied EXCEPT ![r] = occ]
            /\ caller' = [caller EXCEPT ![c] = AfterOccupancy(occ, r)]
      BY <1>3 DEF SetOccupancy
    <2>2. AfterOccupancy(occ, r) \in Todo
      BY DEF AfterOccupancy, Todo
    <2>3. occupied' \in [Rooms -> BOOLEAN] /\ caller' \in [Callers -> Todo]
      BY <2>1, <2>2 DEF TypeOK
    <2>4. emptied' \in [Rooms -> BOOLEAN]
      BY <1>3 DEF SetOccupancy, TypeOK
    <2> QED BY <1>3, <2>3, <2>4, ThermostatAssumption DEF SetOccupancy, Call, TypeOK
  <1>4. ASSUME NEW r \in Rooms, RunStart(r)
        PROVE  /\ fans' \in [Rooms -> Nat]
               /\ {fanRunning', emptied'} \subseteq [Rooms -> BOOLEAN]
    <2>1. CASE Startable(r)
      <3>1. fans' = [fans EXCEPT ![r] = @ + 1]
        BY <1>4, <2>1 DEF RunStart
      <3>2. fanRunning' = [fanRunning EXCEPT ![r] = TRUE]
        BY <1>4, <2>1 DEF RunStart
      <3>3. emptied' = [emptied EXCEPT ![r] = FALSE]
        BY <1>4, <2>1 DEF RunStart
      <3> QED BY <3>1, <3>2, <3>3 DEF TypeOK
    <2>2. CASE ~Startable(r)
      BY <1>4, <2>2 DEF RunStart, TypeOK
    <2> QED BY <2>1, <2>2
  <1>5. ASSUME NEW r \in Rooms, RunStop(r)
        PROVE  fans' \in [Rooms -> Nat] /\ fanRunning' \in [Rooms -> BOOLEAN]
    BY <1>5 DEF RunStop, TypeOK
  <1>6. ASSUME NEW c \in Callers, NEW r \in Rooms, StartFan(c, r) PROVE TypeOK'
    BY <1>6, <1>4, ThermostatAssumption DEF StartFan, Call, RunStart, TypeOK
  <1>7. ASSUME NEW c \in Callers, NEW r \in Rooms, StopFan(c, r) PROVE TypeOK'
    BY <1>7, <1>5, ThermostatAssumption DEF StopFan, Call, RunStop, TypeOK
  <1>8. ASSUME NEW c \in Callers, Return(c) PROVE caller' \in [Callers -> Todo] /\ calls' = calls
    BY <1>8 DEF Return, TypeOK, Todo
  <1>9. ASSUME NEW c \in Callers, ThenStart(c) PROVE TypeOK'
    <2>1. caller[c].room \in Rooms
      BY <1>9, CallersRoom DEF ThenStart
    <2> QED BY <1>9, <2>1, <1>4, <1>8 DEF ThenStart, RunStart, TypeOK
  <1>10. ASSUME NEW c \in Callers, ThenStop(c) PROVE TypeOK'
    <2>1. caller[c].room \in Rooms
      BY <1>10, CallersRoom DEF ThenStop
    <2> QED BY <1>10, <2>1, <1>5, <1>8 DEF ThenStop, RunStop, TypeOK
  <1>11. ASSUME NEW r \in Rooms, Tick(r) PROVE TypeOK'
    <2>a. Ended(r) => fans' \in [Rooms -> Nat]
      BY <1>11 DEF Tick, Ended, TypeOK
    <2>b. Finished(r) => fanRunning' \in [Rooms -> BOOLEAN]
      BY DEF Finished, TypeOK
    <2>1. /\ Ended(r) => fans' \in [Rooms -> Nat]
          /\ Finished(r) => /\ fans' \in [Rooms -> Nat]
                            /\ fanRunning' \in [Rooms -> BOOLEAN]
      BY <2>a, <2>b DEF Finished
    <2>2. CASE Leaves(r)
      BY <1>11, <2>1, <2>2 DEF Tick, TypeOK
    <2>3. CASE ~Leaves(r) /\ AtTarget(r)
      BY <1>11, <2>1, <2>3 DEF Tick, TypeOK
    <2>4. CASE ~Leaves(r) /\ ~AtTarget(r)
      <3>1. Closer(r) \in Temps
        BY <2>4, CloserBetween
      <3>2. current' \in [Rooms -> Temps]
        BY <1>11, <2>4, <3>1 DEF Tick, TypeOK
      <3>3. fans' \in [Rooms -> Nat] /\ fanRunning' \in [Rooms -> BOOLEAN]
        BY <1>11, <2>1, <2>4 DEF Tick, TypeOK
      <3> QED BY <1>11, <3>2, <3>3 DEF Tick, TypeOK
    <2> QED BY <2>2, <2>3, <2>4
  <1>12. CASE UNCHANGED vars
    BY <1>12 DEF vars, TypeOK
  <1> QED BY <1>1, <1>2, <1>3, <1>6, <1>7, <1>9, <1>10, <1>11, <1>12 DEF Next

-----------------------------------------------------------------------------
(* What makes IdleFanBeingStopped inductive is that it names the call that *)
(* is to stop the fan: a step of another caller leaves that call alone,    *)
(* and the step of this one stops the fan.                                 *)

LEMMA InitIdleFan == Init => IdleFanBeingStopped
  BY DEF Init, IdleFanBeingStopped

(* A caller that has nothing to do is not the one that stops a fan.        *)
LEMMA StopperKept ==
  ASSUME TypeOK, IdleFanBeingStopped, NEW c \in Callers, caller[c].at # "stop",
         NEW todo, caller' = [caller EXCEPT ![c] = todo],
         NEW q \in Rooms, fanRunning[q], AtTarget(q)
  PROVE  \E d \in Callers : caller'[d].at = "stop" /\ caller'[d].room = q
  <1>1. PICK d \in Callers : caller[d].at = "stop" /\ caller[d].room = q
    BY DEF IdleFanBeingStopped
  <1>2. caller'[d] = caller[d]
    BY <1>1 DEF TypeOK
  <1> QED BY <1>1, <1>2

LEMMA StepIdleFan == TypeOK /\ IdleFanBeingStopped /\ [Next]_vars => IdleFanBeingStopped'
  <1> SUFFICES ASSUME TypeOK, IdleFanBeingStopped, [Next]_vars,
                      NEW q \in Rooms, fanRunning'[q], AtTarget(q)'
               PROVE  \E d \in Callers : caller'[d].at = "stop" /\ caller'[d].room = q
    BY DEF IdleFanBeingStopped
  <1>1. ASSUME fanRunning[q], AtTarget(q), UNCHANGED caller
        PROVE  \E d \in Callers : caller'[d].at = "stop" /\ caller'[d].room = q
    BY <1>1 DEF IdleFanBeingStopped
  <1>2. ASSUME NEW c \in Callers, NEW r \in Rooms, AddRoom(c, r)
        PROVE  \E d \in Callers : caller'[d].at = "stop" /\ caller'[d].room = q
    BY <1>1, <1>2 DEF AddRoom, AtTarget
  <1>3. ASSUME NEW c \in Callers, NEW r \in Rooms, UpdateRoomTemperature(c, r)
        PROVE  \E d \in Callers : caller'[d].at = "stop" /\ caller'[d].room = q
    <2>1. PICK temp \in Temps :
            /\ current' = [current EXCEPT ![r] = temp]
            /\ caller' = [caller EXCEPT ![c] = [at |-> AfterUpdate(temp, r), room |-> r]]
      BY <1>3 DEF UpdateRoomTemperature
    <2>2. CASE q = r
      <3>1. current'[q] = temp
        BY <2>1, <2>2 DEF TypeOK
      <3>2. temp = target[r]
        BY <1>3, <2>2, <3>1 DEF AtTarget, UpdateRoomTemperature
      <3>3. caller'[c] = [at |-> "stop", room |-> q]
        BY <2>1, <2>2, <3>2 DEF AfterUpdate, TypeOK
      <3> QED BY <3>3
    <2>3. CASE q # r
      <3>1. current'[q] = current[q]
        BY <2>1, <2>3 DEF TypeOK
      <3>2. fanRunning[q] /\ AtTarget(q)
        BY <1>3, <3>1 DEF AtTarget, UpdateRoomTemperature
      <3>3. caller[c].at # "stop"
        BY <1>3 DEF UpdateRoomTemperature, Call, NoCall
      <3> QED BY <2>1, <3>2, <3>3, StopperKept
    <2> QED BY <2>2, <2>3
  <1>4. ASSUME NEW c \in Callers, NEW r \in Rooms, SetOccupancy(c, r)
        PROVE  \E d \in Callers : caller'[d].at = "stop" /\ caller'[d].room = q
    <2>1. fanRunning[q] /\ AtTarget(q)
      BY <1>4 DEF SetOccupancy, AtTarget
    <2>2. caller[c].at # "stop"
      BY <1>4 DEF SetOccupancy, Call, NoCall
    <2>3. PICK occ \in BOOLEAN : caller' = [caller EXCEPT ![c] = AfterOccupancy(occ, r)]
      BY <1>4 DEF SetOccupancy
    <2> QED BY <2>1, <2>2, <2>3, StopperKept
  (* Only a room that is away from its target gets a fan started.          *)
  <1>5. ASSUME NEW r \in Rooms, RunStart(r) PROVE fanRunning[q] /\ AtTarget(q)
    <2>1. AtTarget(q)
      BY <1>5 DEF RunStart, AtTarget
    <2>2. CASE Startable(r)
      <3>1. q # r
        BY <2>1, <2>2 DEF Startable
      <3> QED BY <1>5, <2>1, <2>2, <3>1 DEF RunStart, TypeOK
    <2>3. CASE ~Startable(r)
      BY <1>5, <2>1, <2>3 DEF RunStart
    <2> QED BY <2>2, <2>3
  <1>6. ASSUME NEW r \in Rooms, RunStop(r) PROVE q # r /\ fanRunning[q] /\ AtTarget(q)
    <2>1. fanRunning' = [fanRunning EXCEPT ![r] = FALSE]
      BY <1>6 DEF RunStop
    <2>2. q # r
      BY <2>1 DEF TypeOK
    <2>3. fanRunning[q]
      BY <2>1, <2>2 DEF TypeOK
    <2> QED BY <1>6, <2>2, <2>3 DEF RunStop, AtTarget
  <1>7. ASSUME NEW c \in Callers, NEW r \in Rooms, StartFan(c, r)
        PROVE  \E d \in Callers : caller'[d].at = "stop" /\ caller'[d].room = q
    BY <1>7, <1>5, <1>1 DEF StartFan
  <1>8. ASSUME NEW c \in Callers, NEW r \in Rooms, StopFan(c, r)
        PROVE  \E d \in Callers : caller'[d].at = "stop" /\ caller'[d].room = q
    BY <1>8, <1>6, <1>1 DEF StopFan
  <1>9. ASSUME NEW c \in Callers, ThenStart(c)
        PROVE  \E d \in Callers : caller'[d].at = "stop" /\ caller'[d].room = q
    <2>1. caller[c].room \in Rooms
      BY <1>9, CallersRoom DEF ThenStart
    <2>2. fanRunning[q] /\ AtTarget(q)
      BY <1>9, <2>1, <1>5 DEF ThenStart
    <2> QED BY <1>9, <2>2, StopperKept DEF ThenStart, Return
  <1>10. ASSUME NEW c \in Callers, ThenStop(c)
         PROVE  \E d \in Callers : caller'[d].at = "stop" /\ caller'[d].room = q
    <2>1. caller[c].room \in Rooms
      BY <1>10, CallersRoom DEF ThenStop
    <2>2. q # caller[c].room /\ fanRunning[q] /\ AtTarget(q)
      BY <1>10, <2>1, <1>6 DEF ThenStop
    <2>3. PICK d \in Callers : caller[d].at = "stop" /\ caller[d].room = q
      BY <2>2 DEF IdleFanBeingStopped
    <2>4. caller'[d] = caller[d]
      BY <1>10, <2>2, <2>3 DEF ThenStop, Return, TypeOK
    <2> QED BY <2>3, <2>4
  <1>11. ASSUME NEW r \in Rooms, Tick(r)
         PROVE  \E d \in Callers : caller'[d].at = "stop" /\ caller'[d].room = q
    <2>1. fanRunning[q] /\ current'[q] = current[q]
      <3>1. CASE Leaves(r)
        BY <1>11, <3>1 DEF Tick
      <3>2. CASE ~Leaves(r) /\ AtTarget(r)
        <4>1. fanRunning' = [fanRunning EXCEPT ![r] = FALSE] /\ UNCHANGED current
          BY <1>11, <3>2 DEF Tick, Finished
        <4>2. q # r
          BY <4>1 DEF TypeOK
        <4> QED BY <4>1, <4>2 DEF TypeOK
      <3>3. CASE ~Leaves(r) /\ ~AtTarget(r)
        <4>1. current' = [current EXCEPT ![r] = Closer(r)]
          BY <1>11, <3>3 DEF Tick
        <4>2. CASE Closer(r) = target[r]
          <5>1. fanRunning' = [fanRunning EXCEPT ![r] = FALSE]
            BY <1>11, <3>3, <4>2 DEF Tick, Finished
          <5>2. q # r
            BY <5>1 DEF TypeOK
          <5> QED BY <4>1, <5>1, <5>2 DEF TypeOK
        <4>3. CASE Closer(r) # target[r]
          <5>1. fanRunning' = fanRunning /\ target' = target
            BY <1>11, <3>3, <4>3 DEF Tick
          <5>2. q # r
            BY <4>1, <4>3, <5>1 DEF TypeOK, AtTarget
          <5> QED BY <4>1, <5>1, <5>2 DEF TypeOK
        <4> QED BY <4>2, <4>3
      <3> QED BY <3>1, <3>2, <3>3
    <2> QED BY <1>11, <2>1, <1>1 DEF Tick, AtTarget
  <1>12. CASE UNCHANGED vars
    BY <1>12, <1>1 DEF vars, AtTarget
  <1> QED BY <1>2, <1>3, <1>4, <1>7, <1>8, <1>9, <1>10, <1>11, <1>12 DEF Next

-----------------------------------------------------------------------------
(* OnMeansDriven needs its second conjunct to be inductive: the goroutine  *)
(* that ends without clearing the flag has found its room empty.           *)

LEMMA InitDriven == Init => OnMeansDriven
  BY DEF Init, OnMeansDriven

LEMMA StepDriven == TypeOK /\ OnMeansDriven /\ [Next]_vars => OnMeansDriven'
  <1> SUFFICES ASSUME TypeOK, OnMeansDriven, [Next]_vars, NEW q \in Rooms, fanRunning'[q]
               PROVE  (fans'[q] > 0 \/ emptied'[q]) /\ (occupied'[q] \/ emptied'[q])
    BY DEF OnMeansDriven
  <1>1. ASSUME fanRunning[q], UNCHANGED <<fans, occupied, emptied>>
        PROVE  (fans'[q] > 0 \/ emptied'[q]) /\ (occupied'[q] \/ emptied'[q])
    BY <1>1 DEF OnMeansDriven
  <1>2. ASSUME NEW c \in Callers, NEW r \in Rooms,
               AddRoom(c, r) \/ UpdateRoomTemperature(c, r)
        PROVE  (fans'[q] > 0 \/ emptied'[q]) /\ (occupied'[q] \/ emptied'[q])
    BY <1>1, <1>2 DEF AddRoom, UpdateRoomTemperature
  <1>3. ASSUME NEW c \in Callers, NEW r \in Rooms, SetOccupancy(c, r)
        PROVE  (fans'[q] > 0 \/ emptied'[q]) /\ (occupied'[q] \/ emptied'[q])
    <2>1. PICK occ \in BOOLEAN :
            /\ occupied' = [occupied EXCEPT ![r] = occ]
            /\ emptied' = [emptied EXCEPT ![r] = @ \/ ~occ]
      BY <1>3 DEF SetOccupancy
    <2>2. /\ fans[q] > 0 \/ emptied[q]
          /\ occupied[q] \/ emptied[q]
          /\ fans' = fans
      BY <1>3 DEF SetOccupancy, OnMeansDriven
    <2>3. CASE q = r
      BY <2>1, <2>2, <2>3 DEF TypeOK
    <2>4. CASE q # r
      BY <2>1, <2>2, <2>4 DEF TypeOK
    <2> QED BY <2>3, <2>4
  <1>4. ASSUME NEW r \in Rooms, RunStart(r)
        PROVE  (fans'[q] > 0 \/ emptied'[q]) /\ (occupied'[q] \/ emptied'[q])
    <2>1. CASE ~Startable(r)
      BY <1>1, <1>4, <2>1 DEF RunStart
    <2>2. CASE Startable(r)
      <3>1. /\ fanRunning' = [fanRunning EXCEPT ![r] = TRUE]
            /\ fans' = [fans EXCEPT ![r] = @ + 1]
            /\ emptied' = [emptied EXCEPT ![r] = FALSE]
            /\ occupied' = occupied
        BY <1>4, <2>2 DEF RunStart
      <3>2. CASE q = r
        BY <2>2, <3>1, <3>2 DEF Startable, TypeOK
      <3>3. CASE q # r
        BY <3>1, <3>3 DEF OnMeansDriven, TypeOK
      <3> QED BY <3>2, <3>3
    <2> QED BY <2>1, <2>2
  <1>5. ASSUME NEW r \in Rooms, RunStop(r)
        PROVE  (fans'[q] > 0 \/ emptied'[q]) /\ (occupied'[q] \/ emptied'[q])
    <2>1. fanRunning' = [fanRunning EXCEPT ![r] = FALSE]
      BY <1>5 DEF RunStop
    <2>2. fanRunning[q]
      BY <2>1 DEF TypeOK
    <2> QED BY <1>1, <1>5, <2>2 DEF RunStop
  <1>6. ASSUME NEW c \in Callers, NEW r \in Rooms, StartFan(c, r) \/ StopFan(c, r)
        PROVE  (fans'[q] > 0 \/ emptied'[q]) /\ (occupied'[q] \/ emptied'[q])
    BY <1>4, <1>5, <1>6 DEF StartFan, StopFan
  <1>7. ASSUME NEW c \in Callers, ThenStart(c) \/ ThenStop(c)
        PROVE  (fans'[q] > 0 \/ emptied'[q]) /\ (occupied'[q] \/ emptied'[q])
    <2>1. caller[c].room \in Rooms
      BY <1>7, CallersRoom DEF ThenStart, ThenStop
    <2> QED BY <1>4, <1>5, <1>7, <2>1 DEF ThenStart, ThenStop
  <1>8. ASSUME NEW r \in Rooms, Tick(r)
        PROVE  (fans'[q] > 0 \/ emptied'[q]) /\ (occupied'[q] \/ emptied'[q])
    <2>1. UNCHANGED <<occupied, emptied>>
      BY <1>8 DEF Tick
    (* The goroutine that turns the fan off turns off that of its room.    *)
    <2>2. CASE Finished(r)
      <3>1. /\ fanRunning' = [fanRunning EXCEPT ![r] = FALSE]
            /\ fans' = [fans EXCEPT ![r] = @ - 1]
        BY <2>2 DEF Finished, Ended
      <3>2. q # r /\ fanRunning[q] /\ fans'[q] = fans[q]
        BY <3>1 DEF TypeOK
      <3> QED BY <2>1, <3>2 DEF OnMeansDriven
    <2>3. CASE Leaves(r) /\ Ended(r) /\ UNCHANGED fanRunning
      <3>1. fans' = [fans EXCEPT ![r] = @ - 1] /\ fanRunning[q]
        BY <2>3 DEF Ended
      <3>2. CASE q = r
        <4>1. ~occupied[q]
          BY <2>3, <3>1, <3>2 DEF Leaves
        <4> QED BY <2>1, <3>1, <4>1 DEF OnMeansDriven
      <3>3. CASE q # r
        <4>1. fans'[q] = fans[q]
          BY <3>1, <3>3 DEF TypeOK
        <4> QED BY <2>1, <3>1, <4>1 DEF OnMeansDriven
      <3> QED BY <3>2, <3>3
    <2>4. CASE UNCHANGED <<fans, fanRunning>>
      BY <1>1, <2>1, <2>4
    <2> QED BY <1>8, <2>2, <2>3, <2>4 DEF Tick
  <1>9. CASE UNCHANGED vars
    BY <1>1, <1>9 DEF vars
  <1> QED BY <1>2, <1>3, <1>6, <1>7, <1>8, <1>9 DEF Next

-----------------------------------------------------------------------------
(* No fan is left running in a room at its target, for any rooms and       *)
(* callers: whatever updates, ticks, occupancy changes and direct calls of *)
(* StartFan and StopFan happen between the two critical sections of a      *)
(* call; temperatures stay within those that were set; and a fan that is   *)
(* on has a live goroutine, unless its room was empty since its start.     *)
THEOREM RoomsInvariant == Spec => []Inv
  <1>1. Init => Inv
    BY InitTypeOK, InitIdleFan, InitDriven DEF Inv
  <1>2. Inv /\ [Next]_vars => Inv'
    BY StepTypeOK, StepIdleFan, StepDriven DEF Inv
  <1> QED BY <1>1, <1>2, PTL DEF Spec

-----------------------------------------------------------------------------
(***************************************************************************)
(* A run of one of the programs beside the others, which stand still, is a *)
(* behaviour of each: what the run checks is checked of the programs       *)
(* themselves.                                                             *)
(***************************************************************************)
THEOREM EachRunsAlone ==
  GoroutinesSpec => /\ TikTakSpec /\ FuturesSpec /\ ShopSpec
                    /\ LibrarySpec /\ TreasureSpec /\ QutexSpec
<1> DEFINE all == <<program, tiktakVars, futureVars, shopVars, libraryVars,
                    treasureVars, qutexVars>>
<1>1. GoroutinesInit => /\ TikTakInit /\ FuturesInit /\ ShopInit
                        /\ LibraryInit /\ TreasureInit /\ QutexInit
  BY DEF GoroutinesInit
<1>2. [GoroutinesNext]_all => /\ [TikTakNext]_tiktakVars /\ [FuturesNext]_futureVars
                              /\ [ShopNext]_shopVars /\ [LibraryNext]_libraryVars
                              /\ [TreasureNext]_treasureVars /\ [QutexNext]_qutexVars
  BY DEF GoroutinesNext, RunTikTak, RunFutures, RunShop, RunLibrary, RunTreasure, RunQutex
<1>3. GoroutinesSpec => GoroutinesInit /\ [][GoroutinesNext]_all
  BY DEF GoroutinesSpec
<1> HIDE DEF all
<1> QED BY <1>1, <1>2, <1>3, PTL
        DEF TikTakSpec, FuturesSpec, ShopSpec, LibrarySpec, TreasureSpec, QutexSpec

(***************************************************************************)
(* Each of the programs keeps its types, the search its treasure and its   *)
(* budget, the words their order and the lock its holder.                  *)
(***************************************************************************)
THEOREM GoroutinesTypesOK == GoroutinesSpec => []TypesOK
<1>1. (/\ TikTakTypeOK /\ Alternates /\ FuturesTypeOK /\ ShopTypeOK
       /\ LibraryTypeOK /\ TreasureTypeOK /\ Excludes) => TypesOK
  BY DEF TypesOK
<1> QED BY <1>1, EachRunsAlone, TikTakTypeCorrect, WordsAlternate, FuturesTypeCorrect,
           ShopTypeCorrect, LibraryTypeCorrect, TreasureInBudget, QutexExcludes, PTL
=============================================================================
