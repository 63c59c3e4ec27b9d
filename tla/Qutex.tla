-------------------------------- MODULE Qutex -------------------------------
(***************************************************************************)
(* golang-implementation: a lock made of a channel of capacity one.        *)
(* Whoever fills the slot holds the lock; Unlock empties it whoever calls. *)
(***************************************************************************)
EXTENDS Naturals

CONSTANT Goroutines

VARIABLES
  ch,        (* the number of values in Qutex.ch                           *)
  holding,   (* history: who has locked and not unlocked since             *)
  misused,   (* history: somebody unlocked who did not hold the lock       *)
  panicked   (* Unlock found the slot empty                                *)

qutexVars == <<ch, holding, misused, panicked>>

QutexInit == ch = 0 /\ holding = {} /\ misused = FALSE /\ panicked = FALSE

(* The send waits while the slot is full, on the holder's own as well.     *)
Lock(g) ==
  /\ ~panicked /\ ch < 1
  /\ ch' = ch + 1
  /\ holding' = holding \cup {g}
  /\ UNCHANGED <<misused, panicked>>

Unlock(g) ==
  /\ ~panicked
  /\ IF ch > 0
     THEN ch' = ch - 1 /\ UNCHANGED panicked
     ELSE panicked' = TRUE /\ UNCHANGED ch
  /\ holding' = holding \ {g}
  /\ misused' = (misused \/ g \notin holding)

QutexNext == \E g \in Goroutines : Lock(g) \/ Unlock(g)

QutexSpec == QutexInit /\ [][QutexNext]_qutexVars

-----------------------------------------------------------------------------
(* As long as only holders unlock, one goroutine at most holds the lock,   *)
(* it is free exactly when nobody does, and no Unlock panics.              *)
Excludes ==
  /\ ch \in 0..1
  /\ ~misused => /\ ~panicked
                 /\ \A g, h \in holding : g = h
                 /\ holding = {} <=> ch = 0
=============================================================================
