-------------------------------- MODULE Shop --------------------------------
(***************************************************************************)
(* junk-shop-queue: a goroutine per client works on the slice of paintings *)
(* and on the index of the first one unsold, which all of them share with  *)
(* no lock.  Every load and store of either is a step.                     *)
(***************************************************************************)
EXTENDS Integers, Sequences, SequencesExt, FiniteSets

CONSTANTS
  Clients,
  MaxPaintings,  (* bound on the paintings brought to the shop             *)
  MaxSales       (* bound on the sales                                     *)

ASSUME ShopAssumption == MaxPaintings \in Nat /\ MaxSales \in Nat

VARIABLES
  paintings,    (* the slice; a painting is the number of its delivery     *)
  firstUnsold,  (* counted from 0, as in the code                          *)
  lastSeen,     (* client -> ClientState.lastSeen, or Nothing              *)
  at,           (* client -> where handleMessage is                        *)
  loaded,       (* client -> what it has loaded for its next store         *)
  delivered,    (* the number of paintings brought                         *)
  crashed,
  shown,        (* history: client -> the painting last shown to it        *)
  sales,        (* history: the paintings sold, as shown to their buyers   *)
  overlapped,   (* history: two requests were handled at a time            *)
  answer        (* the last answer                                         *)

shopVars == <<paintings, firstUnsold, lastSeen, at, loaded, delivered, crashed,
              shown, sales, overlapped, answer>>

Nothing == -1

ShopInit ==
  /\ paintings = <<>> /\ firstUnsold = 0
  /\ lastSeen = [c \in Clients |-> Nothing]
  /\ at = [c \in Clients |-> "idle"]
  /\ loaded = [c \in Clients |-> Nothing]
  /\ delivered = 0 /\ crashed = FALSE
  /\ shown = [c \in Clients |-> Nothing]
  /\ sales = <<>> /\ overlapped = FALSE /\ answer = [kind |-> "none"]

Painting(i) == paintings[i + 1]

Goto(c, place) == at' = [at EXCEPT ![c] = place]
Load(c, what) == loaded' = [loaded EXCEPT ![c] = what]

(* The client's message is received, a painting to be sold with it; its    *)
(* handler begins.                                                         *)
Begin(c, place) ==
  /\ ~crashed /\ at[c] = "idle"
  /\ Goto(c, place)
  /\ overlapped' = (overlapped \/ \E d \in Clients : at[d] # "idle")
  /\ UNCHANGED <<paintings, firstUnsold, lastSeen, crashed, shown, sales, answer>>

ReceiveMessage(c, place) == Begin(c, place) /\ UNCHANGED <<loaded, delivered>>
ReceivePainting(c) ==
  /\ Begin(c, "sell") /\ delivered < MaxPaintings
  /\ delivered' = delivered + 1
  /\ Load(c, delivered')

At(c, place) == ~crashed /\ at[c] = place /\ UNCHANGED <<overlapped, crashed>>

Reply(c, a) ==
  /\ answer' = a
  /\ Goto(c, "idle")
  /\ loaded' = [loaded EXCEPT ![c] = Nothing]

-----------------------------------------------------------------------------
(* "what do dou have?": firstUnsold is loaded for the comparison, for      *)
(* lastSeen and for the index, which is out of range when the slice was    *)
(* replaced by a shorter one in between.                                   *)
InfoCompare(c) ==
  /\ At(c, "info")
  /\ IF firstUnsold >= Len(paintings)
     THEN Reply(c, [kind |-> "i have nothing"])
     ELSE Goto(c, "see") /\ UNCHANGED <<loaded, answer>>
  /\ UNCHANGED <<paintings, firstUnsold, lastSeen, delivered, shown, sales>>

InfoSee(c) ==
  /\ At(c, "see")
  /\ lastSeen' = [lastSeen EXCEPT ![c] = firstUnsold]
  /\ Goto(c, "show")
  /\ UNCHANGED <<paintings, firstUnsold, loaded, delivered, shown, sales, answer>>

InfoShow(c) ==
  /\ At(c, "show") /\ firstUnsold < Len(paintings)
  /\ shown' = [shown EXCEPT ![c] = Painting(firstUnsold)]
  /\ Reply(c, [kind |-> "painting"])
  /\ UNCHANGED <<paintings, firstUnsold, lastSeen, delivered, sales>>

InfoPanic(c) ==
  /\ ~crashed /\ at[c] = "show" /\ firstUnsold >= Len(paintings)
  /\ crashed' = TRUE
  /\ UNCHANGED <<paintings, firstUnsold, lastSeen, at, loaded, delivered, shown,
                 sales, overlapped, answer>>

(* "i have <name>": append loads the slice and stores the longer one.      *)
SellLoad(c) ==
  /\ At(c, "sell")
  /\ Load(c, Append(paintings, loaded[c]))
  /\ Goto(c, "append")
  /\ UNCHANGED <<paintings, firstUnsold, lastSeen, delivered, shown, sales, answer>>

(* Appends that overlap may share an array, in which one overwrites what    *)
(* another appended: each painting is then the one that some slice has     *)
(* there.                                                                  *)
Slices == {paintings} \cup {loaded[d] : d \in {d \in Clients : at[d] = "append"}}
InSharedArray(slice) ==
  {s \in [DOMAIN slice -> 1..MaxPaintings] :
     \A i \in DOMAIN s : \E other \in Slices : i \in DOMAIN other /\ s[i] = other[i]}

SellStore(c) ==
  /\ At(c, "append")
  /\ paintings' \in InSharedArray(loaded[c])
  /\ Reply(c, [kind |-> "thank you"])
  /\ UNCHANGED <<firstUnsold, lastSeen, delivered, shown, sales>>

(* "i will buy it": two comparisons, then firstUnsold++.                   *)
Bought(c) == [kind |-> "sold", painting |-> shown[c]]

BuyCompare(c) ==
  /\ At(c, "buy")
  /\ IF lastSeen[c] = Nothing THEN Reply(c, [kind |-> "which one?"])
     ELSE IF lastSeen[c] < firstUnsold THEN Reply(c, Bought(c))
     ELSE Goto(c, "same?") /\ UNCHANGED <<loaded, answer>>
  /\ UNCHANGED <<paintings, firstUnsold, lastSeen, delivered, shown, sales>>

BuySame(c) ==
  /\ At(c, "same?")
  /\ IF lastSeen[c] = firstUnsold
     THEN Goto(c, "increment") /\ UNCHANGED <<loaded, answer>>
     ELSE Reply(c, Bought(c))
  /\ UNCHANGED <<paintings, firstUnsold, lastSeen, delivered, shown, sales>>

IncrementLoad(c) ==
  /\ At(c, "increment")
  /\ Load(c, firstUnsold)
  /\ Goto(c, "store")
  /\ UNCHANGED <<paintings, firstUnsold, lastSeen, delivered, shown, sales, answer>>

(* The slip: the index is passed by value and the increment is lost.       *)
Unincremented(c) == firstUnsold
Incremented(c) == loaded[c] + 1

IncrementStore(c) ==
  /\ At(c, "store") /\ Len(sales) < MaxSales
  /\ firstUnsold' = Incremented(c)
  /\ sales' = Append(sales, shown[c])
  /\ Reply(c, [kind |-> "worth it :))"])
  /\ UNCHANGED <<paintings, lastSeen, delivered, shown>>

ShopNext ==
  \E c \in Clients :
    \/ \E place \in {"info", "buy"} : ReceiveMessage(c, place)
    \/ ReceivePainting(c)
    \/ InfoCompare(c) \/ InfoSee(c) \/ InfoShow(c) \/ InfoPanic(c)
    \/ SellLoad(c) \/ SellStore(c)
    \/ BuyCompare(c) \/ BuySame(c) \/ IncrementLoad(c) \/ IncrementStore(c)

ShopSpec == ShopInit /\ [][ShopNext]_shopVars

-----------------------------------------------------------------------------
(* Every variable stays in its type.                                       *)
ShopTypeOK ==
  /\ paintings \in Seq(1..MaxPaintings) /\ firstUnsold \in 0..MaxSales
  /\ \A c \in Clients : lastSeen[c] \in Nothing..MaxSales
  /\ sales \in Seq({Nothing} \cup 1..MaxPaintings) /\ Len(sales) <= MaxSales

(* However the handlers interleave, firstUnsold never passes more          *)
(* paintings than were sold.  And until two handlers have overlapped,      *)
(* however the clients take turns: the paintings are sold once each and in *)
(* the order they were brought in, to clients that were shown them; a      *)
(* painting refused as sold was sold, and the shop has nothing only when   *)
(* it has sold everything; and it does not crash.                          *)
SellsEachOnce ==
  /\ firstUnsold <= Len(sales)
  /\ ~overlapped =>
       /\ sales = SubSeq(paintings, 1, firstUnsold)
       /\ answer.kind = "sold" => Contains(sales, answer.painting)
       /\ answer.kind = "i have nothing" => Len(sales) = Len(paintings)
       /\ ~crashed
=============================================================================
