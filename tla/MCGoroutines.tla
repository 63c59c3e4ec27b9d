---------------------------- MODULE MCGoroutines ----------------------------
(* The small concurrent programs of the repository, one of them at a time: *)
(* the first state chooses which, and the others stay as they are.         *)
EXTENDS TikTak, Futures, Shop, Library, Treasure, Qutex

CONSTANTS task, timed, late,  (* futures                                   *)
          ruby, emma,         (* books                                     *)
          c1, c2              (* clients, readers, goroutines              *)

VARIABLE program  (* which one                                             *)

OnePlain == {task}
TwoTimed == {timed, late}
TimedFirst == <<timed, task>>
TwoBooks == {ruby, emma}
TwoClients == {c1, c2}

Programs == {"tiktak", "futures", "shop", "library", "treasure", "qutex"}

GoroutinesInit ==
  /\ program \in Programs
  /\ TikTakInit /\ FuturesInit /\ ShopInit /\ LibraryInit /\ TreasureInit /\ QutexInit

RunTikTak ==
  /\ program = "tiktak" /\ TikTakNext
  /\ UNCHANGED <<program, futureVars, shopVars, libraryVars, treasureVars, qutexVars>>
RunFutures ==
  /\ program = "futures" /\ FuturesNext
  /\ UNCHANGED <<program, tiktakVars, shopVars, libraryVars, treasureVars, qutexVars>>
RunShop ==
  /\ program = "shop" /\ ShopNext
  /\ UNCHANGED <<program, tiktakVars, futureVars, libraryVars, treasureVars, qutexVars>>
RunLibrary ==
  /\ program = "library" /\ LibraryNext
  /\ UNCHANGED <<program, tiktakVars, futureVars, shopVars, treasureVars, qutexVars>>
RunTreasure ==
  /\ program = "treasure" /\ TreasureNext
  /\ UNCHANGED <<program, tiktakVars, futureVars, shopVars, libraryVars, qutexVars>>
RunQutex ==
  /\ program = "qutex" /\ QutexNext
  /\ UNCHANGED <<program, tiktakVars, futureVars, shopVars, libraryVars, treasureVars>>

GoroutinesNext ==
  RunTikTak \/ RunFutures \/ RunShop \/ RunLibrary \/ RunTreasure \/ RunQutex

GoroutinesSpec ==
  /\ GoroutinesInit
  /\ [][GoroutinesNext]_<<program, tiktakVars, futureVars, shopVars, libraryVars,
                           treasureVars, qutexVars>>
  /\ program = "tiktak" => TikTakFairness
  /\ program = "futures" => FuturesFairness
  /\ program = "treasure" => TreasureFairness

-----------------------------------------------------------------------------
(* The running program's variables stay in their types, a search for the   *)
(* treasure keeps it in its interval (Treasure), the words alternate       *)
(* (TikTak), and the lock excludes while only holders unlock (Qutex).      *)
TypesOK ==
  /\ program = "tiktak" => TikTakTypeOK /\ Alternates
  /\ program = "futures" => FuturesTypeOK
  /\ program = "shop" => ShopTypeOK
  /\ program = "library" => LibraryTypeOK
  /\ program = "treasure" => TreasureTypeOK
  /\ program = "qutex" => Excludes

(* Futures are answered in the end (Futures).                              *)
FuturesAnswered == program = "futures" => Answered

(* The line is printed in the end (TikTak).                                *)
TikTakReturns == program = "tiktak" => LinePrinted

(* The treasure is found within the judge's budget (Treasure).             *)
TreasureIsFound == program = "treasure" => TreasureFound
=============================================================================
