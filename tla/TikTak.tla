------------------------------- MODULE TikTak -------------------------------
(***************************************************************************)
(* tiktak: two goroutines that print in turn.  tikCh has one slot, filled  *)
(* by NewTikTak; takCh has none, so that a send on it meets its receive.   *)
(***************************************************************************)
EXTENDS Naturals, Sequences

CONSTANT N  (* the number of rounds                                        *)

ASSUME TikTakAssumption == N \in Nat

VARIABLES
  tik, tak,    (* where the goroutines are: "receive", "say" or "send"     *)
  tiks, taks,  (* their loop variables                                     *)
  tikCh,       (* the number of tokens in tikCh                            *)
  output       (* what was printed                                         *)

tiktakVars == <<tik, tak, tiks, taks, tikCh, output>>

(* A slip: the first token was forgotten.                                  *)
TikTakInitWithoutToken ==
  /\ tik = "receive" /\ tak = "receive"
  /\ tiks = 0 /\ taks = 0
  /\ tikCh = 0
  /\ output = <<>>
TikTakInit ==
  /\ tik = "receive" /\ tak = "receive"
  /\ tiks = 0 /\ taks = 0
  /\ tikCh = 1
  /\ output = <<>>

TikReturned == tik = "receive" /\ tiks = N
TakReturned == tak = "receive" /\ taks = N

TikReceive ==
  /\ tik = "receive" /\ tiks < N /\ tikCh > 0
  /\ tikCh' = tikCh - 1
  /\ tik' = "say"
  /\ UNCHANGED <<tak, tiks, taks, output>>

SayTik ==
  /\ tik = "say"
  /\ output' = Append(output, "Tik")
  /\ tik' = "send"
  /\ UNCHANGED <<tak, tiks, taks, tikCh>>

(* t.takCh <- struct{}{} and <-t.takCh.                                    *)
HandOver ==
  /\ tik = "send" /\ tak = "receive" /\ taks < N
  /\ tik' = "receive" /\ tiks' = tiks + 1
  /\ tak' = "say"
  /\ UNCHANGED <<taks, tikCh, output>>

SayTak ==
  /\ tak = "say"
  /\ output' = Append(output, "Tak")
  /\ tak' = "send"
  /\ UNCHANGED <<tik, tiks, taks, tikCh>>

TakSend ==
  /\ tak = "send" /\ tikCh < 1
  /\ tikCh' = tikCh + 1
  /\ tak' = "receive" /\ taks' = taks + 1
  /\ UNCHANGED <<tik, tiks, output>>

Tik == TikReceive \/ SayTik \/ HandOver
Tak == HandOver \/ SayTak \/ TakSend
TikTakNext == Tik \/ Tak

(* Goroutines that can run do so, in the end.                              *)
TikTakFairness == WF_tiktakVars(Tik) /\ WF_tiktakVars(Tak)

TikTakSpec == TikTakInit /\ [][TikTakNext]_tiktakVars

-----------------------------------------------------------------------------
(* Both goroutines stay within their loops, the slot within its capacity.  *)
TikTakTypeOK ==
  /\ tik \in {"receive", "say", "send"} /\ tak \in {"receive", "say", "send"}
  /\ tiks \in 0..N /\ taks \in 0..N
  /\ tikCh \in 0..1

Line(n) == [i \in 1..2 * n |-> IF i % 2 = 1 THEN "Tik" ELSE "Tak"]

(* Every goroutine says its word only on its turn: the words alternate,    *)
(* a Tik first.                                                            *)
Alternates == \A i \in DOMAIN output : output[i] = IF i % 2 = 1 THEN "Tik" ELSE "Tak"

(* Tik and Tak both return, having printed the whole line (TestTikTak).    *)
LinePrinted == <>[](TikReturned /\ TakReturned /\ output = Line(N))
=============================================================================
