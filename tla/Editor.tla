------------------------------- MODULE Editor -------------------------------
(***************************************************************************)
(* text-editor: a text with a cursor kept as two stacks, the runes left of *)
(* the cursor and, nearest on top, those right of it.                      *)
(***************************************************************************)
EXTENDS Naturals, Sequences

CONSTANTS
  Runes,        (* the runes a text is made of                             *)
  InitialText,  (* the argument of NewTwoStackEditor                       *)
  MaxText       (* bound on the length of the whole text                   *)

ASSUME EditorAssumption == InitialText \in Seq(Runes) /\ MaxText \in Nat

VARIABLES left, right  (* LeftStack.text and RightStack.text, the top last *)

editorVars == <<left, right>>

Top(s) == s[Len(s)]
Pushed(s, r) == Append(s, r)
Popped(s) == SubSeq(s, 1, Len(s) - 1)
Backwards(s) == [i \in 1..Len(s) |-> s[Len(s) + 1 - i]]

Strings == UNION {[1..n -> Runes] : n \in 0..MaxText}

EditorInit == left = <<>> /\ right = Backwards(InitialText)

Fits(n) == Len(left) + Len(right) + n <= MaxText

InsertRune(r) ==
  /\ Fits(1)
  /\ left' = Pushed(left, r)
  /\ UNCHANGED right

InsertString(s) ==
  /\ Fits(Len(s))
  /\ left' = left \o s
  /\ UNCHANGED right

(* Each of these returns at once when its stack is empty.                  *)
CursorLeft ==
  /\ left # <<>>
  /\ left' = Popped(left)
  /\ right' = Pushed(right, Top(left))

CursorRight ==
  /\ right # <<>>
  /\ right' = Popped(right)
  /\ left' = Pushed(left, Top(right))

DeleteForward ==
  /\ right # <<>>
  /\ right' = Popped(right)
  /\ UNCHANGED left

DeleteBackward ==
  /\ left # <<>>
  /\ left' = Popped(left)
  /\ UNCHANGED right

EditorNext ==
  \/ \E r \in Runes : InsertRune(r)
  \/ \E s \in Strings : InsertString(s)
  \/ CursorLeft \/ CursorRight \/ DeleteForward \/ DeleteBackward

EditorSpec == EditorInit /\ [][EditorNext]_editorVars

WholeTextUnturned == left \o right
WholeText == left \o Backwards(right)

-----------------------------------------------------------------------------
(* Both stacks hold runes.                                                 *)
EditorTypeOK == left \in Seq(Runes) /\ right \in Seq(Runes)

Buffer == INSTANCE TextBuffer WITH text <- WholeText, cursor <- Len(left)

(* The two stacks behave as one text with a cursor: every operation edits  *)
(* WholeText at the cursor and nowhere else, and moving the cursor leaves  *)
(* the text alone.                                                         *)
ImplementsTextBuffer == Buffer!BufferSpec
=============================================================================
