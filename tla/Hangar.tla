------------------------------- MODULE Hangar -------------------------------
(***************************************************************************)
(* airplane-hangar: Repair moves parts from an old nest into the empty     *)
(* slots of a new one.  Each of its four loops over the slots of a nest    *)
(* is a stage, one slot per step.  A nest is a function from its slots to  *)
(* parts; an engine hangs in a wing and goes where it goes.                *)
(***************************************************************************)
EXTENDS Naturals, Sequences, SequencesExt

CONSTANTS
  OldSlots, NewSlots,  (* the nests' slots in loop order, with their kind  *)
  Nil                  (* a missing part                                   *)

VARIABLES
  oldNest, newNest,  (* slot -> part or Nil                                *)
  engineOf,          (* wing -> engine or Nil                              *)
  spare,             (* kind of part -> its queue in UsableParts           *)
  slotsLeft,         (* the slots that the loop has still to visit         *)
  stage,             (* "idle", one of the four loops, or "repaired"       *)
  before             (* history: the nests and engines when Repair began   *)

hangarVars == <<oldNest, newNest, engineOf, spare, slotsLeft, stage, before>>

Kinds == {"cabin", "wing", "wheel", "engine"}
Loops == {"queue parts", "fill slots", "queue engines", "hang engines"}
AllSlots == Range(OldSlots) \cup Range(NewSlots)

(* No slot is in two nests, nor twice in the old one.                      *)
ASSUME HangarAssumption ==
  /\ OldSlots \in Seq(AllSlots) /\ NewSlots \in Seq(AllSlots)
  /\ IsInjective(OldSlots) /\ Range(OldSlots) \cap Range(NewSlots) = {}
  /\ \A x \in AllSlots : x.kind \in Kinds \ {"engine"} /\ x # Nil

(* A part is named after the slot, or the wing, that had it first.         *)
Lacking(S, missing) == [x \in S |-> IF x \in missing THEN Nil ELSE x]
Wings == {x \in AllSlots : x.kind = "wing"}

HangarInit ==
  /\ oldNest = Lacking(Range(OldSlots), {})
  /\ newNest = Lacking(Range(NewSlots), {})
  /\ engineOf = Lacking(Wings, {})
  /\ spare = [k \in Kinds |-> <<>>]
  /\ slotsLeft = <<>>
  /\ stage = "idle"
  /\ before = [old |-> oldNest, new |-> newNest, engineOf |-> engineOf]

Repair(missing, bare) ==
  /\ stage = "idle"
  /\ oldNest' = Lacking(Range(OldSlots), missing)
  /\ newNest' = Lacking(Range(NewSlots), missing)
  /\ engineOf' = Lacking(Wings, bare)
  /\ stage' = "queue parts" /\ slotsLeft' = OldSlots
  /\ before' = [old |-> oldNest', new |-> newNest', engineOf |-> engineOf']
  /\ UNCHANGED spare

(* The next loop, or the end.                                              *)
NextLoop(from, to, slots) ==
  /\ stage = from /\ slotsLeft = <<>>
  /\ stage' = to /\ slotsLeft' = slots
  /\ UNCHANGED <<oldNest, newNest, engineOf, spare, before>>

EndLoop ==
  \/ NextLoop("queue parts", "fill slots", NewSlots)
  \/ NextLoop("fill slots", "queue engines", OldSlots)
  \/ NextLoop("queue engines", "hang engines", NewSlots)
  \/ NextLoop("hang engines", "repaired", <<>>)

-----------------------------------------------------------------------------
slot == Head(slotsLeft)
Visiting(loop) == stage = loop /\ slotsLeft # <<>>
Visited == slotsLeft' = Tail(slotsLeft) /\ UNCHANGED <<stage, before>>

Enqueue(k, part) == spare' = [spare EXCEPT ![k] = Append(@, part)]
Dequeue(k) == spare' = [spare EXCEPT ![k] = Tail(@)]

(* The old nest's cabins, wings and wheels, the nils of its empty slots    *)
(* as well.                                                                *)
QueuePart ==
  /\ Visiting("queue parts")
  /\ Enqueue(slot.kind, oldNest[slot])
  /\ Visited
  /\ UNCHANGED <<oldNest, newNest, engineOf>>

(* A slip: the donor slot keeps its pointer.                               *)
LeftInOld(part) == oldNest
TakenFromOld(part) ==
  [x \in DOMAIN oldNest |-> IF oldNest[x] = part THEN Nil ELSE oldNest[x]]

NeedsPart == newNest[slot] = Nil /\ spare[slot.kind] # <<>>
FillSlot ==
  /\ Visiting("fill slots") /\ NeedsPart
  /\ LET part == Head(spare[slot.kind])
     IN newNest' = [newNest EXCEPT ![slot] = part] /\ oldNest' = TakenFromOld(part)
  /\ Dequeue(slot.kind)
  /\ Visited
  /\ UNCHANGED engineOf

(* Once the wings are in place, the engines still in the old nest.         *)
Nobody(w) == FALSE
Hanging(w) == w # Nil /\ engineOf[w] # Nil
HasEngine == slot.kind = "wing" /\ Hanging(oldNest[slot])
QueueEngine ==
  /\ Visiting("queue engines") /\ HasEngine
  /\ Enqueue("engine", engineOf[oldNest[slot]])
  /\ Visited
  /\ UNCHANGED <<oldNest, newNest, engineOf>>

NeedsEngine ==
  /\ slot.kind = "wing" /\ newNest[slot] # Nil
  /\ engineOf[newNest[slot]] = Nil /\ spare["engine"] # <<>>
HangEngine ==
  /\ Visiting("hang engines") /\ NeedsEngine
  /\ LET engine == Head(spare["engine"])
         donors == {w \in Range(oldNest) \cap Wings : engineOf[w] = engine}
     IN engineOf' = [w \in Wings |-> IF w = newNest[slot] THEN engine
                                     ELSE IF w \in donors THEN Nil ELSE engineOf[w]]
  /\ Dequeue("engine")
  /\ Visited
  /\ UNCHANGED <<oldNest, newNest>>

PassBy ==
  /\ \/ Visiting("fill slots") /\ ~NeedsPart
     \/ Visiting("queue engines") /\ ~HasEngine
     \/ Visiting("hang engines") /\ ~NeedsEngine
  /\ Visited
  /\ UNCHANGED <<oldNest, newNest, engineOf, spare>>

HangarNext ==
  \/ \E missing \in SUBSET AllSlots : \E bare \in SUBSET (Wings \ missing) : Repair(missing, bare)
  \/ QueuePart \/ FillSlot \/ QueueEngine \/ HangEngine \/ PassBy \/ EndLoop

HangarSpec == HangarInit /\ [][HangarNext]_hangarVars

-----------------------------------------------------------------------------
Parts(nest) == Range(nest) \ {Nil}
Hung(engines, old, new) ==
  {engines[w] : w \in Wings \cap (Parts(old) \cup Parts(new))} \ {Nil}

(* Slots hold parts of their own kind, and engines hang in wings only.     *)
HangarTypeOK ==
  /\ \A nest \in {oldNest, newNest} : \A x \in DOMAIN nest :
       nest[x] # Nil => nest[x] \in AllSlots /\ nest[x].kind = x.kind
  /\ engineOf \in [Wings -> Wings \cup {Nil}]
  /\ stage \in {"idle", "repaired"} \cup Loops

(* At every step of Repair no part is lost, made or in two places: each    *)
(* part and each engine that was there at the start is in exactly one slot *)
(* of one nest or in exactly one wing of them, and what the new nest had   *)
(* is where it was.                                                        *)
Conserved ==
  /\ Parts(oldNest) \cup Parts(newNest) = Parts(before.old) \cup Parts(before.new)
  /\ Parts(oldNest) \cap Parts(newNest) = {}
  /\ \A nest \in {oldNest, newNest} : \A x, y \in DOMAIN nest :
       nest[x] = nest[y] => x = y \/ nest[x] = Nil
  /\ \A x \in DOMAIN newNest : newNest[x] = before.new[x] \/ before.new[x] = Nil
  /\ Hung(engineOf, oldNest, newNest) = Hung(before.engineOf, before.old, before.new)
  /\ \A v, w \in Wings \cap (Parts(oldNest) \cup Parts(newNest)) :
       engineOf[v] = engineOf[w] => v = w \/ engineOf[v] = Nil

(* What the repair leaves undone it could not do: of a kind whose donor    *)
(* slots were all filled, a new slot stays empty only when the old nest    *)
(* has none left; and a wing stays without an engine only when no wing of  *)
(* the old nest has one.                                                   *)
NothingSpared ==
  stage = "repaired" =>
    /\ \A x \in DOMAIN newNest :
         /\ newNest[x] = Nil
         /\ \A y \in DOMAIN oldNest : y.kind = x.kind => before.old[y] # Nil
         => \A y \in DOMAIN oldNest : y.kind = x.kind => oldNest[y] = Nil
    /\ (\E w \in Wings \cap Parts(newNest) : engineOf[w] = Nil) =>
         \A w \in Wings \cap Parts(oldNest) : engineOf[w] = Nil
=============================================================================
