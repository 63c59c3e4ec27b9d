----------------------------- MODULE PhoneBook ------------------------------
(***************************************************************************)
(* phone-book: contacts by name, the removal of invalid and of duplicate   *)
(* numbers, and the choice of the catchiest ones.  A number is a sequence  *)
(* of characters: digits as themselves, a plus sign and a letter.          *)
(***************************************************************************)
EXTENDS Integers, Sequences, SequencesExt, FiniteSetsExt

CONSTANTS
  Names,        (* contact names, integers in alphabetical order           *)
  Numbers,      (* phone numbers                                           *)
  NumberLength  (* 11 in the code                                          *)

ASSUME BookAssumption == Names \subseteq Int /\ Numbers \subseteq Seq(Int)

VARIABLES
  contacts,    (* Phonebook.Contacts                                       *)
  bookAt,      (* "idle", a pass of DeleteDuplicatePhoneNumbers, "crashed" *)
  ranged,      (* the names the pass has still to visit                    *)
  bestName,    (* phoneToBestName                                          *)
  bookAnswer,  (* what the last call returned                              *)
  original     (* history: the contacts when the removal began             *)

bookVars == <<contacts, bookAt, ranged, bestName, bookAnswer, original>>

Plus == -1
Letter == 10
IsDigit(c) == c \in 0..9

None == [x \in {} |-> x]
Added == [kind |-> "Phone Number Added"]
Updated == [kind |-> "Phone Number Updated"]
NoChange == [kind |-> "No Change"]
BookDone == [kind |-> "done"]

BookInit ==
  /\ contacts = None /\ bookAt = "idle" /\ ranged = {} /\ bestName = None
  /\ bookAnswer = BookDone /\ original = None

RemovalIdle == bookAt = "idle" /\ UNCHANGED <<bookAt, ranged, bestName, original>>

-----------------------------------------------------------------------------
AddContact(name, number) ==
  /\ RemovalIdle
  /\ contacts' = [n \in DOMAIN contacts \cup {name} |->
                    IF n = name THEN number ELSE contacts[n]]
  /\ bookAnswer' = IF name \notin DOMAIN contacts THEN Added
               ELSE IF contacts[name] = number THEN NoChange ELSE Updated

Drop(S) == contacts' = [n \in DOMAIN contacts \ S |-> contacts[n]]

International(number) == Len(number) >= 2 /\ number[1] = Plus /\ number[2] = 9
National(number) == Len(number) >= 2 /\ number[1] = 0 /\ number[2] = 9
Valid(number) ==
  /\ Len(number) = NumberLength
  /\ National(number) \/ International(number)
  /\ \A i \in 2..Len(number) : IsDigit(number[i])

DeleteInvalidPhoneNumbers ==
  /\ RemovalIdle
  /\ Drop({n \in DOMAIN contacts : ~Valid(contacts[n])})
  /\ bookAnswer' = BookDone

-----------------------------------------------------------------------------
(* DeleteDuplicatePhoneNumbers: both passes range over the map in an order *)
(* of the runtime's choice, and the second deletes while it ranges.        *)

(* "+9..." becomes "09...".                                                *)
AsWritten(number) == number
Normalized(number) == IF International(number) THEN <<0>> \o Tail(number) ELSE number

DeleteDuplicatePhoneNumbers ==
  /\ bookAt = "idle"
  /\ bookAt' = "best" /\ ranged' = DOMAIN contacts
  /\ bestName' = None /\ original' = contacts
  /\ bookAnswer' = BookDone
  /\ UNCHANGED contacts

Better(name, number) == number \notin DOMAIN bestName \/ name < bestName[number]

FindBest(name) ==
  /\ bookAt = "best" /\ name \in ranged
  /\ LET number == Normalized(contacts[name]) IN
     bestName' = IF ~Better(name, number) THEN bestName
                 ELSE [x \in DOMAIN bestName \cup {number} |->
                         IF x = number THEN name ELSE bestName[x]]
  /\ ranged' = ranged \ {name}
  /\ UNCHANGED <<contacts, bookAt, bookAnswer, original>>

StartSweep ==
  /\ bookAt = "best" /\ ranged = {}
  /\ bookAt' = "sweep" /\ ranged' = DOMAIN contacts
  /\ UNCHANGED <<contacts, bestName, bookAnswer, original>>

Sweep(name) ==
  /\ bookAt = "sweep" /\ name \in ranged
  /\ Drop(IF name = bestName[Normalized(contacts[name])] THEN {} ELSE {name})
  /\ ranged' = ranged \ {name}
  /\ UNCHANGED <<bookAt, bestName, bookAnswer, original>>

EndSweep ==
  /\ bookAt = "sweep" /\ ranged = {}
  /\ bookAt' = "idle" /\ bestName' = None /\ original' = None
  /\ bookAnswer' = [kind |-> "deduplicated", of |-> original]
  /\ UNCHANGED <<contacts, ranged>>

-----------------------------------------------------------------------------
(* Score of the digits after the first two.                                *)

(* strconv.Atoi of two characters, with 0 for an error.                    *)
Atoi(c, d) == IF IsDigit(c) /\ IsDigit(d) THEN 10 * c + d
              ELSE IF c = Plus /\ IsDigit(d) THEN d ELSE 0

Score(s) ==
  LET n == Len(s)
      triples == {i \in 1..n - 2 : s[i] = s[i+1] /\ s[i+1] = s[i+2]}
      runs == {i \in 1..n - 3 : Atoi(s[i+2], s[i+3]) - Atoi(s[i], s[i+1]) \in {-1, 1}}
      mirrors == {i \in 1..n - 3 : s[i] = s[i+3] /\ s[i+1] = s[i+2]}
  IN 10 * Cardinality(triples) + 15 * Cardinality(runs) + 20 * Cardinality(mirrors)

ScoreOf(number) == Score(SubSeq(number, 3, Len(number)))

Lexicographic(s, t) ==
  \E i \in 1..Len(t) :
    /\ \A j \in 1..i - 1 : j <= Len(s) /\ s[j] = t[j]
    /\ i = Len(s) + 1 \/ (i <= Len(s) /\ s[i] < t[i])
Catchier(s, t) ==
  \/ ScoreOf(s) > ScoreOf(t)
  \/ ScoreOf(s) = ScoreOf(t) /\ Lexicographic(s, t)

(* sort.Slice leaves equal numbers in any order.                           *)
Orders ==
  {names \in SetToSeqs(DOMAIN contacts) :
     \A i, j \in DOMAIN names :
       i < j => ~Catchier(contacts[names[j]], contacts[names[i]])}

(* Where the loop stops: the best three, and any that tie with the third.  *)
ThreeExactly(names, limit) == limit = IF Len(names) <= 3 THEN Len(names) ELSE 3
BestThree(names, limit) ==
  LET score(i) == ScoreOf(contacts[names[i]]) IN
  IF Len(names) <= 3 THEN limit = Len(names)
  ELSE /\ limit \in 3..Len(names)
       /\ \A i \in 4..limit : score(i) = score(3)
       /\ limit < Len(names) => score(limit + 1) # score(3)

(* number[2:] of a shorter number panics.                                  *)
TooShort == \E n \in DOMAIN contacts : Len(contacts[n]) < 2

FindCatchyPhoneNumbers ==
  /\ bookAt = "idle" /\ ~TooShort
  /\ \E names \in Orders, limit \in 0..Cardinality(DOMAIN contacts) :
       /\ BestThree(names, limit)
       /\ bookAnswer' = [kind |-> "catchy",
                         numbers |-> [i \in 1..limit |-> contacts[names[i]]]]
  /\ UNCHANGED <<contacts, bookAt, ranged, bestName, original>>

Panic ==
  /\ bookAt = "idle" /\ TooShort
  /\ bookAt' = "crashed"
  /\ UNCHANGED <<contacts, ranged, bestName, bookAnswer, original>>

BookNext ==
  \/ \E name \in Names, number \in Numbers : AddContact(name, number)
  \/ DeleteInvalidPhoneNumbers
  \/ DeleteDuplicatePhoneNumbers
  \/ \E name \in Names : FindBest(name) \/ Sweep(name)
  \/ StartSweep \/ EndSweep
  \/ FindCatchyPhoneNumbers \/ Panic

BookSpec == BookInit /\ [][BookNext]_bookVars

-----------------------------------------------------------------------------
(* Every variable stays in its type, and only a book with an invalid       *)
(* number crashes.                                                         *)
BookTypeOK ==
  /\ DOMAIN contacts \subseteq Names /\ Range(contacts) \subseteq Numbers
  /\ bookAt \in {"idle", "best", "sweep", "crashed"}
  /\ ranged \subseteq DOMAIN original
  /\ bookAt = "crashed" => \E n \in DOMAIN contacts : ~Valid(contacts[n])

(* Whatever order the map is ranged in, the removal of duplicates keeps of *)
(* the contacts that share a number, written either way, exactly the first *)
(* in the alphabet, and it touches no number.                              *)
SameNumber(s, t) ==
  \/ s = t
  \/ /\ Len(s) >= 2 /\ s[2] = 9 /\ Len(t) = Len(s) /\ Tail(s) = Tail(t)
     /\ {s[1], t[1]} = {0, Plus}
FirstOfEachNumber ==
  bookAnswer.kind = "deduplicated" =>
    LET whole == bookAnswer.of
        first(n) == \A m \in DOMAIN whole : SameNumber(whole[m], whole[n]) => n <= m
    IN contacts = [n \in {m \in DOMAIN whole : first(m)} |-> whole[n]]

(* The catchy numbers are those of the contacts that fewer than three      *)
(* others beat, each as often as it is in the book, the best first.        *)
Catchiest(book, numbers) ==
  LET score(n) == ScoreOf(book[n])
      beaters(n) == {m \in DOMAIN book : score(m) > score(n)}
      chosen == {n \in DOMAIN book : Cardinality(beaters(n)) < 3}
  IN /\ Len(numbers) = Cardinality(chosen)
     /\ \A n \in chosen :
          Cardinality({m \in chosen : book[m] = book[n]})
            = Cardinality({i \in DOMAIN numbers : numbers[i] = book[n]})
     /\ \A i \in 2..Len(numbers) : ScoreOf(numbers[i]) <= ScoreOf(numbers[i - 1])
CatchiestChosen ==
  bookAnswer.kind = "catchy" => Catchiest(contacts, bookAnswer.numbers)
=============================================================================
