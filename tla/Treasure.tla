------------------------------- MODULE Treasure ------------------------------
(***************************************************************************)
(* treasure-tracker: FindTreasure asks the judge of the tests, over one    *)
(* unbuffered channel, whether a point is closer to the treasure than the  *)
(* point before it, and finds first the one and then the other coordinate  *)
(* by bisection.  One step delivers one question or one answer.            *)
(***************************************************************************)
EXTENDS Integers

CONSTANT MaxSide  (* bound on the sides of the ground                      *)

ASSUME TreasureAssumption == MaxSide \in Nat

VARIABLES
  border, goal,  (* the judge's arguments                                  *)
  turn,          (* "none", "tracker", "judge" or "over"                   *)
  asked,         (* what the question under way is for                     *)
  query,         (* the point asked                                        *)
  cur,           (* the tracker's curX, curY                               *)
  axis,          (* the coordinate it is looking for                       *)
  low, high,     (* Lx, Rx or Ly, Ry                                       *)
  gx,            (* the first coordinate, once found                       *)
  lastDistance, queries,  (* the judge's                                   *)
  verdict        (* what the judge sent on res                             *)

treasureVars == <<border, goal, turn, asked, query, cur, axis, low, high, gx,
                  lastDistance, queries, verdict>>

Side == 1..MaxSide
Corner == [x |-> 1, y |-> 1]

TreasureInit ==
  /\ border = Corner /\ goal = Corner
  /\ turn = "none" /\ asked = "nothing"
  /\ query = Corner /\ cur = Corner
  /\ axis = "x" /\ low = 1 /\ high = 1 /\ gx = 1
  /\ lastDistance = -1 /\ queries = 0
  /\ verdict = "none"

(* findMaxQuery: int(log2 x + log2 y + 2) * 3.                             *)
Log2(a) == CHOOSE k \in 0..a : 2^k <= a /\ a < 2^(k + 1)
maxQuery == 3 * (Log2(border.x * border.y) + 2)

(* The judge is called and sends the size of the ground.                   *)
SendGround(b, g) ==
  /\ border' = b /\ goal' = g
  /\ turn' = "tracker" /\ high' = b.x
  /\ UNCHANGED <<asked, query, cur, axis, low, gx, lastDistance, queries, verdict>>

-----------------------------------------------------------------------------
(* The tracker's next question.                                            *)

mid == (low + high) \div 2
Point(v) == IF axis = "x" THEN [x |-> v, y |-> 1] ELSE [x |-> gx, y |-> v]

Ask(what, point) ==
  /\ turn = "tracker" /\ queries < maxQuery
  /\ asked' = what /\ query' = point
  /\ turn' = "judge"
  /\ UNCHANGED <<border, goal, cur, axis, low, high, gx, lastDistance, queries, verdict>>

AskFirst == asked = "nothing" /\ Ask("first", Corner)

(* Go to the middle, so that it is the point the judge compares with.      *)
Searching == asked # "nothing" /\ low < high
AskMiddle == Searching /\ cur # Point(mid) /\ Ask("middle", Point(mid))
AskBeyond == Searching /\ cur = Point(mid) /\ Ask("beyond", Point(mid + 1))

StartY ==
  /\ turn = "tracker" /\ asked # "nothing" /\ axis = "x" /\ low = high
  /\ gx' = low
  /\ axis' = "y" /\ low' = 1 /\ high' = border.y
  /\ UNCHANGED <<border, goal, turn, asked, query, cur, lastDistance, queries, verdict>>

Declare ==
  /\ asked \notin {"nothing", "declared"} /\ axis = "y" /\ low = high
  /\ Ask("declared", Point(low))

-----------------------------------------------------------------------------
(* The judge's answer, and what the tracker does with it.  The judge also  *)
(* fails a tracker that leaves the ground or uses up its questions: by     *)
(* TreasureTypeOK neither happens.                                         *)

Abs(k) == IF k < 0 THEN -k ELSE k
Distance(p) == Abs(goal.x - p.x) + Abs(goal.y - p.y)

(* A slip: the bisection as if the point beyond were the middle.           *)
NarrowedPast(closer, further) ==
  /\ low' = IF closer THEN mid + 1 ELSE low
  /\ high' = IF closer THEN high ELSE IF further THEN mid - 1 ELSE mid + 1
Narrowed(closer, further) ==
  IF closer THEN low' = mid + 1 /\ high' = high
  ELSE IF further THEN low' = low /\ high' = mid
  ELSE IF mid + 1 - low > high - mid THEN low' = mid /\ high' = high
  ELSE low' = low /\ high' = mid + 1

AnswerQuery ==
  /\ turn = "judge" /\ query # goal
  /\ query.x \in 1..border.x /\ query.y \in 1..border.y
  /\ LET d == Distance(query) IN
     /\ lastDistance' = d
     /\ IF asked = "beyond"
        THEN Narrowed(d < lastDistance, d > lastDistance)
        ELSE UNCHANGED <<low, high>>
  /\ cur' = query
  /\ queries' = queries + 1
  /\ turn' = "tracker"
  /\ UNCHANGED <<border, goal, asked, query, axis, gx, verdict>>

End(v) ==
  /\ verdict' = v /\ turn' = "over"
  /\ UNCHANGED <<border, goal, asked, query, cur, axis, low, high, gx, lastDistance, queries>>

Found == turn = "judge" /\ query = goal /\ End("found")

TreasureNext ==
  \/ /\ turn = "none"
     /\ \E b \in [x : Side, y : Side] : \E g \in [x : 1..b.x, y : 1..b.y] : SendGround(b, g)
  \/ AskFirst \/ AskMiddle \/ AskBeyond \/ StartY \/ Declare
  \/ AnswerQuery \/ Found

(* The tracker's goroutine and the judge's both run.                       *)
TreasureFairness == WF_treasureVars(TreasureNext)

TreasureSpec == TreasureInit /\ [][TreasureNext]_treasureVars

-----------------------------------------------------------------------------
(* The search never leaves the ground, and the interval always holds the   *)
(* coordinate looked for.                                                  *)
KeepsTreasure ==
  /\ turn \in {"none", "tracker", "judge", "over"}
  /\ query.x \in 1..border.x /\ query.y \in 1..border.y
  /\ low \in 1..high /\ high <= border[axis]
  /\ turn # "none" => goal[axis] \in low..high

(* Besides, the judge's budget is never used up.                           *)
TreasureTypeOK ==
  /\ KeepsTreasure
  /\ queries <= maxQuery /\ (turn = "tracker" => queries < maxQuery)

(* Wherever the treasure lies, FindTreasure asks for its point before the  *)
(* judge's budget of questions is used up, so the judge finds for it.      *)
TreasureFound == (turn = "tracker") ~> (verdict = "found")
=============================================================================
