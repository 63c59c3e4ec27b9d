----------------------------- MODULE Calculator -----------------------------
(***************************************************************************)
(* calculator-api-net-dial and calculator-api-net-http: one connection to  *)
(* the adding and subtracting server, in either transport.  A request      *)
(* carries an operation and tokens; the handler folds them into an int64   *)
(* and checks for overflow before each step, in arithmetic that itself     *)
(* wraps around.                                                           *)
(***************************************************************************)
EXTENDS Integers, Sequences

CONSTANTS MaxInt,     \* math.MaxInt64
          Servers,    \* transports, a subset of {"dial", "http"}
          MaxTokens   \* bound on the tokens of a request

ASSUME CalculatorAssumption ==
  MaxInt \in Nat /\ MaxTokens \in Nat /\ Servers \subseteq {"dial", "http"}

MinInt == (-MaxInt) - 1
Int64 == MinInt..MaxInt

\* One wrap is enough for the sum or difference of two values of Int64.
Wrap(x) == IF x > MaxInt THEN x - 2 * (MaxInt + 1)
           ELSE IF x < MinInt THEN x + 2 * (MaxInt + 1) ELSE x

(***************************************************************************)
(* A token: an integer as written, which ParseInt may find too large; an   *)
(* empty one; or text that is no integer.                                  *)
(***************************************************************************)
Empty == [kind |-> "empty"]
Text == [kind |-> "text"]
Number(n) == [kind |-> "number", value |-> n]
Parses(t) == t.kind = "number" /\ t.value \in Int64

VARIABLES server, op, at, todo,
          acc,    \* the int64 accumulator
          exact,  \* the same fold over the integers
          reply   \* the last answer
vars == <<server, op, at, todo, acc, exact, reply>>

Result == [kind |-> "result", value |-> acc]
Overflow == [kind |-> "overflow"]
Missing == [kind |-> "missing"]
\* net-http answers every malformed token as a missing parameter.
Malformed == IF server = "http" THEN Missing ELSE [kind |-> "format"]

Init == /\ server \in Servers
        /\ op = "add" /\ at = "idle" /\ todo = <<>> /\ acc = 0 /\ exact = 0
        /\ reply = [kind |-> "none"]

Tokens == {Empty, Text} \cup {Number(n) : n \in MinInt - 1 .. MaxInt + 1}

\* strings.Split of a text that is not blank: one token is not empty.
Receive ==
  /\ at = "idle"
  /\ op' \in {"add", "sub"}
  /\ \E n \in 1..MaxTokens : todo' \in [1..n -> Tokens]
  /\ todo' # <<Empty>>
  /\ at' = IF op' = "add" THEN "fold" ELSE "seed"
  /\ acc' = 0 /\ exact' = 0
  /\ UNCHANGED <<server, reply>>

Answer(r) == reply' = r /\ at' = "idle" /\ todo' = <<>> /\ UNCHANGED <<server, op>>

\* A blank parameter, or an action the dial server does not know.
Refuse ==
  /\ at = "idle"
  /\ \/ Answer(Missing)
     \/ server = "dial" /\ Answer(Malformed)
  /\ UNCHANGED <<acc, exact>>

\* A subtraction starts from its first number.
Seed ==
  /\ at = "seed" /\ Parses(Head(todo))
  /\ acc' = Head(todo).value /\ exact' = Head(todo).value
  /\ todo' = Tail(todo)
  /\ at' = "fold"
  /\ UNCHANGED <<server, op, reply>>

Reject ==
  /\ at \in {"seed", "fold"} /\ todo # <<>> /\ ~Parses(Head(todo))
  /\ Answer(Malformed)
  /\ UNCHANGED <<acc, exact>>

\* A slip: addition's check used for subtraction.
SubOverflowsAsAdd(n) == \/ n > 0 /\ acc > Wrap(MaxInt - n)
                        \/ n < 0 /\ acc < Wrap(MinInt - n)
AddOverflows(n) == \/ n > 0 /\ acc > Wrap(MaxInt - n)
                   \/ n < 0 /\ acc < Wrap(MinInt - n)
SubOverflows(n) == \/ n > 0 /\ acc < Wrap(MinInt + n)
                   \/ n < 0 /\ acc > Wrap(MaxInt + n)

Fold(n, overflows, wrapped, true) ==
  /\ exact' = true
  /\ IF overflows
     THEN Answer(Overflow) /\ UNCHANGED acc
     ELSE /\ acc' = wrapped
          /\ todo' = Tail(todo)
          /\ UNCHANGED <<server, op, at, reply>>

Ready(o) == at = "fold" /\ op = o /\ todo # <<>> /\ Parses(Head(todo))

Add == /\ Ready("add")
       /\ LET n == Head(todo).value
          IN  Fold(n, AddOverflows(n), Wrap(acc + n), exact + n)

Sub == /\ Ready("sub")
       /\ LET n == Head(todo).value
          IN  Fold(n, SubOverflows(n), Wrap(acc - n), exact - n)

Finish == /\ at = "fold" /\ todo = <<>>
          /\ Answer(Result)
          /\ UNCHANGED <<acc, exact>>

Next == Receive \/ Refuse \/ Seed \/ Reject \/ Add \/ Sub \/ Finish

Spec == Init /\ [][Next]_vars

-----------------------------------------------------------------------------
(***************************************************************************)
(* Every variable stays in its type; only the dial server tells a          *)
(* malformed token from a missing one.                                     *)
(***************************************************************************)
TypeOK ==
  /\ server \in Servers /\ op \in {"add", "sub"} /\ at \in {"idle", "seed", "fold"}
  /\ todo \in Seq(Tokens) /\ Len(todo) <= MaxTokens
  /\ at = "seed" => op = "sub" /\ todo # <<>>
  /\ reply.kind \in {"none", "result", "overflow", "missing", "format"}
  /\ reply.kind = "format" => server = "dial"

(***************************************************************************)
(* The accumulator is always the exact value, within int64: no step, and   *)
(* no check made before it, wraps around unnoticed.  A result answered is  *)
(* the exact one, and "Overflow" is answered only when the exact value has *)
(* left int64, and always then (net-dial README, "Overflow Handling").     *)
(***************************************************************************)
Exact ==
  /\ at = "fold" => acc = exact /\ acc \in Int64
  /\ (at = "idle" /\ reply.kind = "result") => reply.value = exact /\ exact \in Int64
  /\ (at = "idle" /\ reply.kind = "overflow") => exact \notin Int64
=============================================================================
