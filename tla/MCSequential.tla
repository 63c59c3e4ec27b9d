---------------------------- MODULE MCSequential ----------------------------
(* The sequential programs of the repository, one of them at a time: the   *)
(* first state chooses which, and the others stay as they are, so that the *)
(* states are the sum of the programs' states.                             *)
EXTENDS Calculator, Editor, VersionControl, PhoneBook, Hangar, Airport,
        MessageQueue

CONSTANTS file, letter, msg1, msg2

VARIABLE program  (* which one *)

BothServers == {"dial", "http"}
TwoRunes == {"a", "b"}
ShortText == <<"a", "b">>

OneFile == {file}
OneChar == {letter}
TwoMessages == {msg1, msg2}

(* Six characters stand for eleven: two numbers that differ in their       *)
(* prefix only, one of each further score, one with a letter, a short one. *)
PhoneNumbers ==
  {<<0, 9, 1, 1, 1, 1>>, <<-1, 9, 1, 1, 1, 1>>, <<0, 9, 1, 2, 1, 3>>,
   <<0, 9, 1, 2, 2, 1>>, <<0, 9, 1, 2, 10, 1>>, <<9>>}
FourNames == 1..4

(* Two aircraft to take parts from, one with two wings to repair.          *)
Slot(nest, a, k, i) == [nest |-> nest, aircraft |-> a, kind |-> k, index |-> i]
DonorSlots == <<Slot("old", 1, "cabin", 1), Slot("old", 1, "wing", 1), Slot("old", 1, "wheel", 1),
                Slot("old", 2, "cabin", 1), Slot("old", 2, "wing", 1)>>
RepairedSlots == <<Slot("new", 1, "cabin", 1), Slot("new", 1, "wing", 1),
                   Slot("new", 1, "wing", 2), Slot("new", 1, "wheel", 1)>>

(* Flights that overlap, that touch, that do neither, and one unparsed.   *)
FlightTimes == {0, 20, 25, 30, 35, 50}

ThreePriorities == {1, 2, 3}

Programs == {"calculator", "editor", "queue", "versions", "phonebook", "hangar", "airport"}

SequentialInit ==
  /\ program \in Programs
  /\ Init /\ (program # "calculator" => server = "dial")
  /\ EditorInit /\ QueueInit /\ VCInit /\ BookInit /\ HangarInit /\ AirportInit


CalculatorStays == UNCHANGED vars
EditorStays == UNCHANGED editorVars
QueueStays == UNCHANGED queueVars
VersionsStay == UNCHANGED vcVars
BookStays == UNCHANGED bookVars
HangarStays == UNCHANGED hangarVars
AirportStays == UNCHANGED airportVars

RunCalculator ==
  /\ program = "calculator" /\ Next /\ UNCHANGED program
  /\ EditorStays /\ QueueStays /\ VersionsStay /\ BookStays /\ HangarStays /\ AirportStays
RunEditor ==
  /\ program = "editor" /\ EditorNext /\ UNCHANGED program
  /\ CalculatorStays /\ QueueStays /\ VersionsStay /\ BookStays /\ HangarStays /\ AirportStays
RunQueue ==
  /\ program = "queue" /\ QueueNext /\ UNCHANGED program
  /\ CalculatorStays /\ EditorStays /\ VersionsStay /\ BookStays /\ HangarStays /\ AirportStays
RunVersions ==
  /\ program = "versions" /\ VCNext /\ UNCHANGED program
  /\ CalculatorStays /\ EditorStays /\ QueueStays /\ BookStays /\ HangarStays /\ AirportStays
RunBook ==
  /\ program = "phonebook" /\ BookNext /\ UNCHANGED program
  /\ CalculatorStays /\ EditorStays /\ QueueStays /\ VersionsStay /\ HangarStays /\ AirportStays
RunHangar ==
  /\ program = "hangar" /\ HangarNext /\ UNCHANGED program
  /\ CalculatorStays /\ EditorStays /\ QueueStays /\ VersionsStay /\ BookStays /\ AirportStays
RunAirport ==
  /\ program = "airport" /\ AirportNext /\ UNCHANGED program
  /\ CalculatorStays /\ EditorStays /\ QueueStays /\ VersionsStay /\ BookStays /\ HangarStays

SequentialNext ==
  \/ RunCalculator \/ RunEditor \/ RunQueue \/ RunVersions
  \/ RunBook \/ RunHangar \/ RunAirport

SequentialSpec == SequentialInit /\ [][SequentialNext]_<<program, vars, editorVars, queueVars,
                    vcVars, bookVars, hangarVars, airportVars>>

-----------------------------------------------------------------------------
(* The running program's variables stay in their types.                    *)
TypesOK ==
  /\ program = "calculator" => TypeOK
  /\ program = "editor" => EditorTypeOK
  /\ program = "queue" => QueueTypeOK
  /\ program = "versions" => VCTypeOK
  /\ program = "phonebook" => BookTypeOK
  /\ program = "hangar" => HangarTypeOK
  /\ program = "airport" => AirportTypeOK
=============================================================================
