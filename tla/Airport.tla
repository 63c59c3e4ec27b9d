------------------------------- MODULE Airport -------------------------------
(***************************************************************************)
(* airport, the "admin" question: how many runways Tehran needs, found by  *)
(* a sweep over the moments at which flights occupy and release one.       *)
(***************************************************************************)
EXTENDS Integers, Sequences, FiniteSetsExt

CONSTANTS
  Times,      (* TehranTime of a flight in minutes; 0 where parsing failed *)
  MaxFlights  (* bound on the number of lines read                         *)

ASSUME AirportAssumption == Times \subseteq Int /\ MaxFlights \in Nat

VARIABLES
  flights,    (* the flights read                                          *)
  events,     (* the events still to be swept over                         *)
  current, maxRunways,
  phase       (* "read", "sweep" or "printed"                              *)

airportVars == <<flights, events, current, maxRunways, phase>>

Flight == [TehranTime : Times, FromTehran : BOOLEAN]

AirportInit ==
  /\ flights = <<>> /\ events = {}
  /\ current = 0 /\ maxRunways = 0
  /\ phase = "read"

ReadFlight(f) ==
  /\ phase = "read" /\ Len(flights) < MaxFlights
  /\ flights' = Append(flights, f)
  /\ UNCHANGED <<events, current, maxRunways, phase>>

(* A runway is occupied five minutes before a departure, ten before a      *)
(* landing, until five minutes after it.                                   *)
Start(f) == f.TehranTime - (IF f.FromTehran THEN 5 ELSE 10)
End(f) == f.TehranTime + 5

Scheduled == {i \in DOMAIN flights : flights[i].TehranTime # 0}
StartOf(i) == [t |-> Start(flights[i]), delta |-> 1, flight |-> i]
EndOf(i) == [t |-> End(flights[i]), delta |-> -1, flight |-> i]
Events == {StartOf(i) : i \in Scheduled} \cup {EndOf(i) : i \in Scheduled}

(* A runway needed at the moment another is released counts as a second.   *)
ReleaseFirst(e, f) == e.t < f.t \/ (e.t = f.t /\ e.delta < f.delta)
Earlier(e, f) == e.t < f.t \/ (e.t = f.t /\ e.delta > f.delta)

Admin ==
  /\ phase = "read"
  /\ events' = Events
  /\ phase' = "sweep"
  /\ UNCHANGED <<flights, current, maxRunways>>

(* sort.Slice leaves events of one moment and one kind in any order.       *)
SweepEvent(e) ==
  /\ phase = "sweep" /\ \A f \in events : ~Earlier(f, e)
  /\ events' = events \ {e}
  /\ current' = current + e.delta
  /\ maxRunways' = IF current' > maxRunways THEN current' ELSE maxRunways
  /\ UNCHANGED <<flights, phase>>

PrintRunways ==
  /\ phase = "sweep" /\ events = {}
  /\ phase' = "printed"
  /\ UNCHANGED <<flights, events, current, maxRunways>>

AirportNext ==
  \/ \E f \in Flight : ReadFlight(f)
  \/ Admin
  \/ \E e \in events : SweepEvent(e)
  \/ PrintRunways

AirportSpec == AirportInit /\ [][AirportNext]_airportVars

-----------------------------------------------------------------------------
(* The count never drops below zero, and comes back to it.                 *)
AirportTypeOK ==
  /\ flights \in Seq(Flight)
  /\ current \in 0..Len(flights) /\ maxRunways \in current..Len(flights)
  /\ phase \in {"read", "sweep", "printed"}
  /\ phase = "printed" => current = 0

(* The number printed is the largest number of flights that occupy a       *)
(* runway at one moment, both ends of each flight's interval included.     *)
Occupation(i) == Start(flights[i])..End(flights[i])
Occupying(m) == {i \in Scheduled : m \in Occupation(i)}
Moments == UNION {Occupation(i) : i \in Scheduled}
RunwaysNeeded ==
  phase = "printed" =>
    maxRunways = Max({0} \cup {Cardinality(Occupying(m)) : m \in Moments})
=============================================================================
