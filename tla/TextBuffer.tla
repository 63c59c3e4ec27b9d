----------------------------- MODULE TextBuffer -----------------------------
(***************************************************************************)
(* What an editor promises: one text and a cursor between two of its       *)
(* runes.  Editor implements this specification with two stacks.           *)
(***************************************************************************)
EXTENDS Naturals, Sequences

CONSTANTS Runes, InitialText, MaxText

VARIABLES text, cursor

Before == SubSeq(text, 1, cursor)
After == SubSeq(text, cursor + 1, Len(text))

Strings == UNION {[1..n -> Runes] : n \in 0..MaxText}

BufferInit == text = InitialText /\ cursor = 0

Insert(s) ==
  /\ text' = Before \o s \o After
  /\ cursor' = cursor + Len(s)

MoveLeft == cursor > 0 /\ cursor' = cursor - 1 /\ UNCHANGED text
MoveRight == cursor < Len(text) /\ cursor' = cursor + 1 /\ UNCHANGED text

DeleteAfter ==
  /\ cursor < Len(text)
  /\ text' = Before \o Tail(After)
  /\ UNCHANGED cursor

DeleteBefore ==
  /\ cursor > 0
  /\ text' = SubSeq(text, 1, cursor - 1) \o After
  /\ cursor' = cursor - 1

BufferNext ==
  \/ \E s \in Strings : Insert(s)
  \/ MoveLeft \/ MoveRight \/ DeleteAfter \/ DeleteBefore

BufferSpec == BufferInit /\ [][BufferNext]_<<text, cursor>>
=============================================================================
