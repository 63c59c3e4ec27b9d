----------------------------- MODULE Thermostat -----------------------------
(***************************************************************************)
(* smart-thermostat: rooms, their fans, and the goroutine a started fan    *)
(* runs (main.go:287-326).  A call locks the room, copies what it needs,   *)
(* unlocks, and then calls StartFan or StopFan, which lock again: other    *)
(* calls and ticks run in between.  Callers are the goroutines that use    *)
(* the controller; a tick of one fan goroutine is one step.                *)
(***************************************************************************)
EXTENDS Naturals

CONSTANTS Rooms, Callers,
          MaxTemp,    \* bound on the temperatures set
          MaxCalls    \* bound on the calls made

ASSUME ThermostatAssumption == MaxTemp \in Nat /\ MaxCalls \in Nat

Temps == 0..MaxTemp

VARIABLES registered,  \* SystemController.Rooms
          current, target, occupied, fanRunning,  \* the fields of each Room
          fans,        \* number of live fan goroutines of each room
          emptied,     \* history: the room was empty since its fan was started
          caller,      \* what each caller still has to call
          calls        \* counter for the bound
vars == <<registered, current, target, occupied, fanRunning, fans, emptied,
          caller, calls>>

NoCall == [at |-> "idle"]
Todo == {NoCall} \cup [at : {"start", "stop"}, room : Rooms]

(***************************************************************************)
(* Every variable stays in its type: in particular a fan never drives the  *)
(* temperature of a room out of the temperatures anybody set.              *)
(***************************************************************************)
TypeOK == /\ registered \subseteq Rooms
          /\ {current, target} \subseteq [Rooms -> Temps]
          /\ {occupied, fanRunning, emptied} \subseteq [Rooms -> BOOLEAN]
          /\ fans \in [Rooms -> Nat]
          /\ caller \in [Callers -> Todo]
          /\ calls \in 0..MaxCalls

Init == /\ registered = {}
        /\ current \in [Rooms -> Temps] /\ target \in [Rooms -> Temps]
        /\ occupied \in [Rooms -> BOOLEAN]
        /\ fanRunning = [r \in Rooms |-> FALSE]
        /\ fans = [r \in Rooms |-> 0]
        /\ emptied = [r \in Rooms |-> FALSE]
        /\ caller = [c \in Callers |-> NoCall]
        /\ calls = 0

Call(c) == caller[c] = NoCall /\ calls < MaxCalls /\ calls' = calls + 1

AtTarget(r) == current[r] = target[r]

\* "room already exists" leaves the map alone.
AddRoom(c, r) ==
  /\ Call(c)
  /\ registered' = registered \cup {r}
  /\ UNCHANGED <<current, target, occupied, fanRunning, fans, emptied, caller>>

AfterUpdate(temp, r) == IF temp = target[r] \/ ~occupied[r] THEN "stop" ELSE "start"

\* A negative temperature and a room that is not registered are refused.
UpdateRoomTemperature(c, r) ==
  /\ Call(c) /\ r \in registered
  /\ \E temp \in Temps :
       /\ current' = [current EXCEPT ![r] = temp]
       /\ caller' = [caller EXCEPT ![c] = [at |-> AfterUpdate(temp, r), room |-> r]]
  /\ UNCHANGED <<registered, target, occupied, fanRunning, fans, emptied>>

\* An empty room with a running fan calls StartFan (main.go:233).
AfterOccupancy(occ, r) ==
  CASE ~occ /\ fanRunning[r] -> [at |-> "start", room |-> r]
    [] occ /\ AtTarget(r) /\ fanRunning[r] -> [at |-> "stop", room |-> r]
    [] occ /\ ~AtTarget(r) /\ ~fanRunning[r] -> [at |-> "start", room |-> r]
    [] OTHER -> NoCall

SetOccupancy(c, r) ==
  /\ Call(c)
  /\ \E occ \in BOOLEAN :
       /\ occupied' = [occupied EXCEPT ![r] = occ]
       /\ emptied' = [emptied EXCEPT ![r] = @ \/ ~occ]
       /\ caller' = [caller EXCEPT ![c] = AfterOccupancy(occ, r)]
  /\ UNCHANGED <<registered, current, target, fanRunning, fans>>

\* A slip: the temperature is checked by the caller only, before the lock.
StartableUnchecked(r) == ~fanRunning[r] /\ occupied[r]
Startable(r) == ~fanRunning[r] /\ occupied[r] /\ ~AtTarget(r)

RunStart(r) ==
  /\ IF Startable(r)
     THEN /\ fanRunning' = [fanRunning EXCEPT ![r] = TRUE]
          /\ fans' = [fans EXCEPT ![r] = @ + 1]
          /\ emptied' = [emptied EXCEPT ![r] = FALSE]
     ELSE UNCHANGED <<fanRunning, fans, emptied>>
  /\ UNCHANGED <<registered, current, target, occupied>>

RunStop(r) ==
  /\ fanRunning' = [fanRunning EXCEPT ![r] = FALSE]
  /\ UNCHANGED <<registered, current, target, occupied, fans, emptied>>

\* StartFan and StopFan are also public.
StartFan(c, r) == Call(c) /\ RunStart(r) /\ UNCHANGED caller
StopFan(c, r) == Call(c) /\ RunStop(r) /\ UNCHANGED caller

Return(c) == caller' = [caller EXCEPT ![c] = NoCall] /\ UNCHANGED calls
ThenStart(c) == caller[c].at = "start" /\ RunStart(caller[c].room) /\ Return(c)
ThenStop(c) == caller[c].at = "stop" /\ RunStop(caller[c].room) /\ Return(c)

Leaves(r) == ~fanRunning[r] \/ ~occupied[r]

Closer(r) == IF current[r] < target[r] THEN current[r] + 1 ELSE current[r] - 1

Ended(r) == fans' = [fans EXCEPT ![r] = @ - 1]

\* The goroutine that finds or brings the room at its target turns the fan
\* off.  A slip: it only ends.
FinishedOnly(r) == Ended(r) /\ UNCHANGED fanRunning
Finished(r) == Ended(r) /\ fanRunning' = [fanRunning EXCEPT ![r] = FALSE]

\* One tick of one fan goroutine of r; when it leaves because the room is
\* empty it does not clear fanRunning.
Tick(r) ==
  /\ fans[r] > 0
  /\ \/ Leaves(r) /\ Ended(r) /\ UNCHANGED <<current, fanRunning>>
     \/ ~Leaves(r) /\ AtTarget(r) /\ Finished(r) /\ UNCHANGED current
     \/ /\ ~Leaves(r) /\ ~AtTarget(r)
        /\ current' = [current EXCEPT ![r] = Closer(r)]
        /\ IF Closer(r) = target[r]
           THEN Finished(r)
           ELSE UNCHANGED <<fans, fanRunning>>
  /\ UNCHANGED <<registered, target, occupied, emptied, caller, calls>>

Next == \/ \E c \in Callers : \/ \E r \in Rooms : \/ AddRoom(c, r)
                                                  \/ UpdateRoomTemperature(c, r)
                                                  \/ SetOccupancy(c, r)
                                                  \/ StartFan(c, r)
                                                  \/ StopFan(c, r)
                              \/ ThenStart(c)
                              \/ ThenStop(c)
        \/ \E r \in Rooms : Tick(r)

Spec == Init /\ [][Next]_vars

\* The ticker of a live goroutine keeps ticking, a call that is under way
\* goes on; nobody has to make a call.
Fairness == /\ \A r \in Rooms : WF_vars(Tick(r))
            /\ \A c \in Callers : WF_vars(ThenStart(c) \/ ThenStop(c))

FairSpec == Spec /\ Fairness

-----------------------------------------------------------------------------
(***************************************************************************)
(* A fan that runs in a room at its target (main.go:159 calls it a thing   *)
(* that should rarely happen) is always about to be stopped by a call that *)
(* is under way: however calls and ticks interleave between the two locks  *)
(* of a call, no fan is left running there.                                *)
(***************************************************************************)
IdleFanBeingStopped ==
  \A r \in Rooms : (fanRunning[r] /\ AtTarget(r)) =>
    \E c \in Callers : caller[c].at = "stop" /\ caller[c].room = r

(***************************************************************************)
(* A fan that is on is moved by a live goroutine, unless its room was      *)
(* empty since the fan was started: a goroutine that finds the room empty  *)
(* ends and leaves the flag set (main.go:295), and nobody starts another.  *)
(* However often StopFan and StartFan leave several goroutines moving one  *)
(* room, the one that turns the fan off leaves no fan on behind it.        *)
(***************************************************************************)
OnMeansDriven ==
  \A r \in Rooms : fanRunning[r] =>
    /\ fans[r] > 0 \/ emptied[r]
    /\ occupied[r] \/ emptied[r]

(***************************************************************************)
(* The invariant of the rooms: temperatures stay within those set, no fan  *)
(* is left running at its target, and a fan that is on is driven.          *)
(***************************************************************************)
Inv == TypeOK /\ IdleFanBeingStopped /\ OnMeansDriven

(***************************************************************************)
(* A fan that is on brings its room to the target, whether one goroutine   *)
(* moves the room or several do, unless somebody stops the fan or the room *)
(* was empty since it was started; the updates that push the temperature   *)
(* away again are bounded by MaxCalls.                                     *)
(***************************************************************************)
FanReachesTarget ==
  \A r \in Rooms :
    fanRunning[r] ~> (AtTarget(r) \/ ~fanRunning[r] \/ emptied[r])
=============================================================================
