-------------------------- MODULE SequentialProofs ---------------------------
(***************************************************************************)
(* Proofs about the sequential programs, for any constants.  The sections  *)
(* are independent of each other, but for the last. Editor: two stacks,    *)
(* one of them upside down, are one text with a cursor. A text is cut at   *)
(* the cursor (Cut), and what is popped from one stack is the last of it   *)
(* (LastApart), the first of it turned (Turned). VersionControl: the       *)
(* directories that are written to are never those of commits (HeldApart). *)
(* PhoneBook: of the names visited, bestName has the least for each        *)
(* normalised number (BestAmong). Hangar: no part is in two places at any  *)
(* step, and what a loop has passed by was not to be had (HangarInv).      *)
(* Airport: what was swept over is not later than what was not             *)
(* (SweptFirst), so that the flights counted share a moment, and no moment *)
(* by which nothing more begins needs more (Counted). MessageQueue: the    *)
(* array is a heap but for the place where up (HeapAbove) or down          *)
(* (HeapBelow) has come to; the root of a heap goes first, since the least *)
(* index that went before it would have a parent that does too (RootFirst, *)
(* by LeastOf). Calculator: its arithmetic is exact, for every width of    *)
(* integer. Last, a run of one program beside the others is a behaviour    *)
(* of each of them.                                                        *)
(***************************************************************************)
EXTENDS MCSequential, FiniteSetTheorems, SequenceTheorems, WellFoundedInduction,
        TLAPS

(* Turning a stack over.                                                   *)
LEMMA Turned ==
  ASSUME NEW s \in Seq(Runes)
  PROVE  /\ Backwards(s) \in Seq(Runes)
         /\ Len(Backwards(s)) = Len(s)
         /\ \A i \in 1..Len(s) : Backwards(s)[i] = s[Len(s) + 1 - i]
<1>1. Len(s) \in Nat
  BY LenProperties
<1>2. \A i \in 1..Len(s) : s[Len(s) + 1 - i] \in Runes
  BY <1>1, ElementOfSeq
<1> QED BY <1>1, <1>2 DEF Backwards

(* Turning it over twice.                                                  *)
LEMMA TurnedTwice ==
  ASSUME NEW s \in Seq(Runes)
  PROVE  Backwards(Backwards(s)) = s
<1>1. /\ Backwards(Backwards(s)) \in Seq(Runes)
      /\ Len(Backwards(Backwards(s))) = Len(s)
      /\ \A i \in 1..Len(s) : Backwards(Backwards(s))[i] = Backwards(s)[Len(s) + 1 - i]
  BY Turned
<1>2. \A i \in 1..Len(s) : Backwards(s)[Len(s) + 1 - i] = s[i]
  BY Turned, LenProperties
<1> QED BY <1>1, <1>2, SeqEqual

(* The top of a stack comes first when it is turned over.                  *)
LEMMA TurnedPush ==
  ASSUME NEW s \in Seq(Runes), NEW r \in Runes
  PROVE  Backwards(Append(s, r)) = <<r>> \o Backwards(s)
<1> DEFINE p == Append(s, r)
           q == <<r>> \o Backwards(s)
<1>1. Len(s) \in Nat
  BY LenProperties
<1>2. /\ p \in Seq(Runes) /\ Len(p) = Len(s) + 1
      /\ \A i \in 1..Len(s) : p[i] = s[i]
      /\ p[Len(s) + 1] = r
  BY AppendProperties
<1>3. /\ Backwards(p) \in Seq(Runes) /\ Len(Backwards(p)) = Len(s) + 1
      /\ \A i \in 1..Len(s) + 1 : Backwards(p)[i] = p[Len(s) + 2 - i]
  <2> HIDE DEF p
  <2> QED BY <1>1, <1>2, Turned
<1>4. /\ q \in Seq(Runes) /\ Len(q) = Len(s) + 1
      /\ \A i \in 1..Len(s) + 1 :
           q[i] = IF i <= 1 THEN r ELSE Backwards(s)[i - 1]
  BY <1>1, Turned, ConcatProperties
<1>5. ASSUME NEW i \in 1..Len(s) + 1 PROVE Backwards(p)[i] = q[i]
  <2>1. CASE i = 1
    BY <1>1, <1>2, <1>3, <1>4, <2>1
  <2>2. CASE i # 1
    <3>1. i - 1 \in 1..Len(s) /\ Len(s) + 2 - i \in 1..Len(s)
      BY <1>1, <2>2
    <3>2. Backwards(s)[i - 1] = s[Len(s) + 2 - i]
      BY <1>1, <3>1, Turned
    <3> QED BY <1>1, <1>2, <1>3, <1>4, <2>2, <3>1, <3>2
  <2> QED BY <2>1, <2>2
<1> HIDE DEF p, q
<1>6. Backwards(p) = q
  BY <1>3, <1>4, <1>5, SeqEqual
<1> QED BY <1>6 DEF p, q

(* A stack that is not empty is what remains of it and its top.            *)
LEMMA LastApart ==
  ASSUME NEW s \in Seq(Runes), s # <<>>
  PROVE  /\ Popped(s) \in Seq(Runes) /\ Top(s) \in Runes
         /\ Len(Popped(s)) = Len(s) - 1 /\ Len(s) \in Nat \ {0}
         /\ <<Top(s)>> \in Seq(Runes)
         /\ s = Popped(s) \o <<Top(s)>>
         /\ Backwards(s) = <<Top(s)>> \o Backwards(Popped(s))
<1>1. PICK t \in Seq(Runes), e \in Runes : s = Append(t, e)
  BY SequenceEmptyOrAppend
<1>2. Len(s) = Len(t) + 1 /\ Len(t) \in Nat /\ Top(s) = e
  BY <1>1, AppendProperties, LenProperties DEF Top
<1>3. Popped(s) = t
  <2>1. Popped(s) = SubSeq(Append(t, e), 1, Len(t))
    BY <1>1, <1>2 DEF Popped
  <2> QED BY <1>1, <1>2, <2>1, AppendProperties, LenProperties
<1>4. s = t \o <<e>>
  BY <1>1, AppendIsConcat
<1>5. <<e>> \in Seq(Runes)
  OBVIOUS
<1>6. s = Popped(s) \o <<Top(s)>>
  BY <1>2, <1>3, <1>4
<1>7. Backwards(Append(t, e)) = <<e>> \o Backwards(t)
  BY TurnedPush
<1>8. Backwards(s) = <<Top(s)>> \o Backwards(Popped(s))
  BY <1>1, <1>2, <1>3, <1>7
<1> QED BY <1>2, <1>3, <1>5, <1>6, <1>8

(* Where the cursor cuts the text.                                         *)
LEMMA Cut ==
  ASSUME NEW l \in Seq(Runes), NEW b \in Seq(Runes)
  PROVE  /\ l \o b \in Seq(Runes) /\ Len(l \o b) = Len(l) + Len(b)
         /\ SubSeq(l \o b, 1, Len(l)) = l
         /\ SubSeq(l \o b, Len(l) + 1, Len(l \o b)) = b
<1>1. /\ l \o b \in Seq(Runes) /\ Len(l \o b) = Len(l) + Len(b)
      /\ Len(l) \in Nat /\ Len(b) \in Nat
      /\ \A i \in 1..Len(l) + Len(b) :
           (l \o b)[i] = IF i <= Len(l) THEN l[i] ELSE b[i - Len(l)]
  BY ConcatProperties, LenProperties
<1>2. SubSeq(l \o b, 1, Len(l)) = l
  <2>1. \A i \in 1..Len(l) : (l \o b)[i] \in Runes
    BY <1>1, ElementOfSeq
  <2>2. /\ SubSeq(l \o b, 1, Len(l)) \in Seq(Runes)
        /\ Len(SubSeq(l \o b, 1, Len(l))) = Len(l)
        /\ \A i \in 1..Len(l) : SubSeq(l \o b, 1, Len(l))[i] = (l \o b)[i]
    BY <1>1, <2>1, SubSeqProperties
  <2> QED BY <1>1, <2>2, SeqEqual
<1>3. SubSeq(l \o b, Len(l) + 1, Len(l \o b)) = b
  <2> DEFINE u == SubSeq(l \o b, Len(l) + 1, Len(l \o b))
  <2>1. \A i \in Len(l) + 1..Len(l \o b) : (l \o b)[i] \in Runes
    BY <1>1, ElementOfSeq
  <2>2. /\ u \in Seq(Runes) /\ Len(u) = Len(b)
        /\ \A i \in 1..Len(b) : u[i] = (l \o b)[Len(l) + i]
    BY <1>1, <2>1, SubSeqProperties
  <2>3. \A i \in 1..Len(b) : (l \o b)[Len(l) + i] = b[i]
    BY <1>1
  <2> HIDE DEF u
  <2>4. u = b
    BY <2>2, <2>3, SeqEqual
  <2> QED BY <2>4 DEF u
<1> QED BY <1>1, <1>2, <1>3

-----------------------------------------------------------------------------
(* What a text reads like around the cursor.                               *)
LEMMA AroundCursor ==
  ASSUME EditorTypeOK
  PROVE  /\ Buffer!Before = left /\ Buffer!After = Backwards(right)
         /\ WholeText \in Seq(Runes) /\ Len(WholeText) = Len(left) + Len(right)
         /\ Len(left) \in Nat /\ Len(right) \in Nat
<1> DEFINE turned == Backwards(right)
<1>1. left \in Seq(Runes) /\ right \in Seq(Runes)
  BY DEF EditorTypeOK
<1>2. turned \in Seq(Runes) /\ Len(turned) = Len(right)
  BY <1>1, Turned
<1>3. Len(left) \in Nat /\ Len(right) \in Nat
  BY <1>1, LenProperties
<1>4. WholeText = left \o turned
  BY DEF WholeText
<1> HIDE DEF turned
<1>5. /\ left \o turned \in Seq(Runes)
      /\ Len(left \o turned) = Len(left) + Len(turned)
      /\ SubSeq(left \o turned, 1, Len(left)) = left
      /\ SubSeq(left \o turned, Len(left) + 1, Len(left \o turned)) = turned
  BY <1>1, <1>2, Cut
<1>6. /\ WholeText \in Seq(Runes) /\ Len(WholeText) = Len(left) + Len(right)
      /\ SubSeq(WholeText, 1, Len(left)) = left
      /\ SubSeq(WholeText, Len(left) + 1, Len(WholeText)) = turned
  BY <1>2, <1>4, <1>5
<1> QED BY <1>3, <1>6 DEF turned, Buffer!Before, Buffer!After

(* InsertRune is the insertion of a text of one rune.                      *)
LEMMA OneRune ==
  ASSUME NEW r \in Runes, Fits(1), EditorTypeOK
  PROVE  <<r>> \in Strings /\ Len(<<r>>) = 1
<1>1. 1 \in 0..MaxText
  BY AroundCursor, EditorAssumption DEF Fits
<1>2. <<r>> \in [1..1 -> Runes]
  OBVIOUS
<1> QED BY <1>1, <1>2 DEF Strings

LEMMA StringsAreTexts ==
  ASSUME NEW s \in Strings
  PROVE  s \in Seq(Runes)
<1>1. PICK n \in 0..MaxText : s \in [1..n -> Runes]
  BY DEF Strings
<1>2. n \in Nat
  BY EditorAssumption
<1> QED BY <1>1, <1>2

(* The stacks hold runes, whatever is done to them.                        *)
LEMMA TypeStep == EditorTypeOK /\ [EditorNext]_editorVars => EditorTypeOK'
<1> SUFFICES ASSUME EditorTypeOK, [EditorNext]_editorVars PROVE EditorTypeOK'
  OBVIOUS
<1> USE DEF EditorTypeOK
<1>1. ASSUME NEW r \in Runes, InsertRune(r) PROVE EditorTypeOK'
  BY <1>1, AppendProperties DEF InsertRune, Pushed
<1>2. ASSUME NEW s \in Strings, InsertString(s) PROVE EditorTypeOK'
  BY <1>2, StringsAreTexts, ConcatProperties DEF InsertString
<1>3. CASE CursorLeft
  BY <1>3, LastApart, AppendProperties DEF CursorLeft, Pushed
<1>4. CASE CursorRight
  BY <1>4, LastApart, AppendProperties DEF CursorRight, Pushed
<1>5. CASE DeleteForward
  BY <1>5, LastApart DEF DeleteForward
<1>6. CASE DeleteBackward
  BY <1>6, LastApart DEF DeleteBackward
<1>7. CASE UNCHANGED editorVars
  BY <1>7 DEF editorVars
<1> QED BY <1>1, <1>2, <1>3, <1>4, <1>5, <1>6, <1>7 DEF EditorNext

(* A new editor shows its text with the cursor at the start.               *)
LEMMA InitIsInit == EditorInit => EditorTypeOK /\ Buffer!BufferInit
<1> SUFFICES ASSUME EditorInit PROVE EditorTypeOK /\ Buffer!BufferInit
  OBVIOUS
<1>1. InitialText \in Seq(Runes)
  BY EditorAssumption
<1>2. EditorTypeOK /\ Len(left) = 0
  BY <1>1, Turned, EmptySeq DEF EditorInit, EditorTypeOK
<1>3. WholeText = <<>> \o InitialText
  BY <1>1, TurnedTwice DEF EditorInit, WholeText
<1>4. WholeText = InitialText
  BY <1>1, <1>3, ConcatEmptySeq
<1> QED BY <1>2, <1>4 DEF Buffer!BufferInit

(* Each operation on the stacks is the one on the text.                    *)
LEMMA StepIsStep ==
  EditorTypeOK /\ [EditorNext]_editorVars => [Buffer!BufferNext]_<<WholeText, Len(left)>>
<1> SUFFICES ASSUME EditorTypeOK, [EditorNext]_editorVars
             PROVE  Buffer!BufferNext \/ UNCHANGED <<WholeText, Len(left)>>
  OBVIOUS
<1>0. /\ left \in Seq(Runes) /\ right \in Seq(Runes) /\ Backwards(right) \in Seq(Runes)
      /\ WholeText = left \o Backwards(right)
  BY Turned DEF EditorTypeOK, WholeText
<1>1. ASSUME NEW s \in Strings, left' = left \o s, right' = right
      PROVE  Buffer!Insert(s)
  <2>1. WholeText' = (left \o s) \o Backwards(right)
    BY <1>1 DEF WholeText, Backwards
  <2>2. Len(left') = Len(left) + Len(s)
    BY <1>0, <1>1, StringsAreTexts, ConcatProperties
  <2> QED BY <2>1, <2>2, AroundCursor DEF Buffer!Insert
<1>2. ASSUME NEW r \in Runes, InsertRune(r) PROVE Buffer!BufferNext
  <2>1. <<r>> \in Strings
    BY <1>2, OneRune DEF InsertRune
  <2>2. left' = left \o <<r>> /\ right' = right
    BY <1>0, <1>2, AppendIsConcat DEF InsertRune, Pushed
  <2> QED BY <1>1, <2>1, <2>2 DEF Buffer!BufferNext, Buffer!Strings, Strings
<1>3. ASSUME NEW s \in Strings, InsertString(s) PROVE Buffer!BufferNext
  BY <1>1, <1>3 DEF InsertString, Buffer!BufferNext, Buffer!Strings, Strings
<1>4. CASE CursorLeft
  <2>1. /\ left # <<>> /\ left' = Popped(left)
        /\ right' = Append(right, Top(left))
    BY <1>4 DEF CursorLeft, Pushed
  <2>2. /\ Popped(left) \in Seq(Runes) /\ Top(left) \in Runes
        /\ Len(Popped(left)) = Len(left) - 1 /\ Len(left) \in Nat \ {0}
        /\ <<Top(left)>> \in Seq(Runes) /\ left = Popped(left) \o <<Top(left)>>
    BY <1>0, <2>1, LastApart
  <2>3. WholeText' = Popped(left) \o (<<Top(left)>> \o Backwards(right))
    <3>1. Backwards(right') = <<Top(left)>> \o Backwards(right)
      BY <1>0, <2>1, <2>2, TurnedPush
    <3>2. WholeText' = left' \o Backwards(right')
      BY DEF WholeText, Backwards
    <3> QED BY <2>1, <3>1, <3>2
  <2>4. (Popped(left) \o <<Top(left)>>) \o Backwards(right)
          = Popped(left) \o (<<Top(left)>> \o Backwards(right))
    <3>1. /\ Popped(left) \in Seq(Runes) /\ <<Top(left)>> \in Seq(Runes)
          /\ Backwards(right) \in Seq(Runes)
      BY <1>0, <2>2
    <3> QED BY ONLY <3>1, ConcatAssociative
  <2>5. WholeText' = WholeText
    BY <1>0, <2>2, <2>3, <2>4
  <2> QED BY <2>1, <2>2, <2>5 DEF Buffer!BufferNext, Buffer!MoveLeft
<1>5. CASE CursorRight
  <2>1. /\ right # <<>> /\ right' = Popped(right)
        /\ left' = Append(left, Top(right))
    BY <1>5 DEF CursorRight, Pushed
  <2>2. /\ Popped(right) \in Seq(Runes) /\ Top(right) \in Runes
        /\ Len(right) \in Nat \ {0}
        /\ Backwards(right) = <<Top(right)>> \o Backwards(Popped(right))
        /\ Backwards(Popped(right)) \in Seq(Runes)
    BY <1>0, <2>1, LastApart, Turned
  <2>3. /\ left' = left \o <<Top(right)>> /\ <<Top(right)>> \in Seq(Runes)
        /\ Len(left') = Len(left) + 1
    BY <1>0, <2>1, <2>2, AppendIsConcat, AppendProperties
  <2>4. WholeText' = (left \o <<Top(right)>>) \o Backwards(Popped(right))
    <3>1. WholeText' = left' \o Backwards(right')
      BY DEF WholeText, Backwards
    <3> QED BY <2>1, <2>3, <3>1
  <2>5. WholeText' = WholeText
    <3>1. (left \o <<Top(right)>>) \o Backwards(Popped(right))
            = left \o (<<Top(right)>> \o Backwards(Popped(right)))
      <4>1. /\ left \in Seq(Runes) /\ <<Top(right)>> \in Seq(Runes)
            /\ Backwards(Popped(right)) \in Seq(Runes)
        BY <1>0, <2>2, <2>3
      <4> QED BY ONLY <4>1, ConcatAssociative
    <3> QED BY <1>0, <2>2, <2>4, <3>1
  <2>6. Len(left) < Len(WholeText)
    BY <2>2, AroundCursor
  <2> QED BY <2>3, <2>5, <2>6 DEF Buffer!BufferNext, Buffer!MoveRight
<1>6. CASE DeleteForward
  <2>1. right # <<>> /\ right' = Popped(right) /\ left' = left
    BY <1>6 DEF DeleteForward
  <2>2. /\ Top(right) \in Runes /\ Len(right) \in Nat \ {0}
        /\ Backwards(right) = <<Top(right)>> \o Backwards(Popped(right))
        /\ Backwards(Popped(right)) \in Seq(Runes)
    BY <1>0, <2>1, LastApart, Turned
  <2>3. Tail(Backwards(right)) = Backwards(Popped(right))
    <3> DEFINE rest == Backwards(Popped(right))
    <3>1. /\ <<Top(right)>> \in Seq(Runes) /\ Len(<<Top(right)>>) = 1
      BY <2>2
    <3>2. Tail(Backwards(right)) = SubSeq(Backwards(right), 2, Len(Backwards(right)))
      BY <1>0, <2>1, <2>2, Turned, TailIsSubSeq, EmptySeq
    <3> HIDE DEF rest
    <3>3. SubSeq(<<Top(right)>> \o rest, 2, Len(<<Top(right)>> \o rest)) = rest
      BY <2>2, <3>1, Cut DEF rest
    <3> QED BY <2>2, <3>2, <3>3 DEF rest
  <2>4. WholeText' = left \o Backwards(Popped(right))
    <3>1. WholeText' = left' \o Backwards(right')
      BY DEF WholeText, Backwards
    <3> QED BY <2>1, <3>1
  <2>5. Len(left) < Len(WholeText)
    BY <2>2, AroundCursor
  <2> QED BY <2>1, <2>3, <2>4, <2>5, AroundCursor DEF Buffer!BufferNext, Buffer!DeleteAfter
<1>7. CASE DeleteBackward
  <2>1. left # <<>> /\ left' = Popped(left) /\ right' = right
    BY <1>7 DEF DeleteBackward
  <2>2. /\ Popped(left) \in Seq(Runes) /\ Len(Popped(left)) = Len(left) - 1
        /\ <<Top(left)>> \in Seq(Runes) /\ left = Popped(left) \o <<Top(left)>>
        /\ Len(left) \in Nat \ {0}
    BY <1>0, <2>1, LastApart
  <2>3. SubSeq(WholeText, 1, Len(left) - 1) = Popped(left)
    <3> DEFINE rest == <<Top(left)>> \o Backwards(right)
    <3>1. rest \in Seq(Runes)
      BY <1>0, <2>2, ConcatProperties
    <3>2. WholeText = Popped(left) \o rest
      <4>1. (Popped(left) \o <<Top(left)>>) \o Backwards(right) = Popped(left) \o rest
        <5>1. /\ Popped(left) \in Seq(Runes) /\ <<Top(left)>> \in Seq(Runes)
              /\ Backwards(right) \in Seq(Runes)
          BY <1>0, <2>2
        <5> QED BY ONLY <5>1, ConcatAssociative
      <4> HIDE DEF rest
      <4> QED BY <1>0, <2>2, <4>1
    <3> HIDE DEF rest
    <3> QED BY <2>2, <3>1, <3>2, Cut
  <2>4. WholeText' = Popped(left) \o Backwards(right)
    BY <2>1 DEF WholeText, Backwards
  <2>5. WholeText' = SubSeq(WholeText, 1, Len(left) - 1) \o Buffer!After
    BY <2>3, <2>4, AroundCursor
  <2>6. Len(left) > 0 /\ Len(left') = Len(left) - 1
    BY <2>1, <2>2
  <2> QED BY <2>5, <2>6 DEF Buffer!BufferNext, Buffer!DeleteBefore
<1>8. CASE UNCHANGED editorVars
  BY <1>8 DEF editorVars, WholeText, Backwards
<1> QED BY <1>2, <1>3, <1>4, <1>5, <1>6, <1>7, <1>8 DEF EditorNext

(* The two stacks of text-editor implement one text with a cursor: every   *)
(* InsertRune, InsertString, CursorLeft, CursorRight, DeleteForward and    *)
(* DeleteBackward edits the text at the cursor and nowhere else.           *)
THEOREM EditorIsBuffer == EditorSpec => ImplementsTextBuffer
BY InitIsInit, TypeStep, StepIsStep, PTL
   DEF EditorSpec, ImplementsTextBuffer, Buffer!BufferSpec

(* The stacks of text-editor hold nothing but runes.                       *)
THEOREM EditorTypeCorrect == EditorSpec => []EditorTypeOK
BY InitIsInit, TypeStep, PTL DEF EditorSpec

-----------------------------------------------------------------------------
CommitRecords == [message : Messages, snapshot : Nat]
PastRecords == [message : Messages, directory : Directories]

(* Every variable's type, and each commit's snapshot a directory of its    *)
(* own that the caller does not hold.                                      *)
VCTypes ==
  /\ heap \in Seq(Directories) /\ Len(heap) \in 1..MaxHeap
  /\ commits \in Seq(CommitRecords) /\ Len(commits) <= MaxCommits
  /\ past \in Seq(PastRecords) /\ Len(past) = Len(commits)
  /\ staged \in Files
  /\ \A i \in 1..Len(commits) : commits[i].snapshot \in 2..Len(heap)
  /\ IsFiniteSet(Snapshots) /\ Cardinality(Snapshots) = Len(commits)
  /\ checkouts \subseteq 1..Len(heap) /\ checkouts \cap Snapshots = {}

(* A snapshot is the directory as it was at its commit.                    *)
Recorded ==
  \A i \in 1..Len(commits) :
    past[i] = [message |-> commits[i].message, directory |-> heap[commits[i].snapshot]]

(* What the last call returned is true of the state.                       *)
Replied ==
  /\ CheckoutRestores
  /\ answer.kind = "committed" => ModifiedFiles \cup StagedFiles = {}
  /\ answer.kind = "all staged" => ModifiedFiles = {}

VCInv == VCTypes /\ Recorded /\ Replied

(* The lengths are numbers.                                                *)
LEMMA VCNumbers ==
  ASSUME VCTypes
  PROVE  /\ Len(heap) \in Nat /\ Len(commits) \in Nat /\ Len(past) \in Nat
         /\ DOMAIN heap = 1..Len(heap) /\ DOMAIN commits = 1..Len(commits)
         /\ wd \in 1..Len(heap)
BY LenProperties DEF VCTypes, wd

LEMMA EmptyFiles == [p \in {} |-> <<>>] \in Files /\ InitEmptyWorkDir \in Directories
<1>1. [p \in {} |-> <<>>] \in [{} -> Contents]
  OBVIOUS
<1>2. [p \in {} |-> <<>>] \in Files
  BY <1>1 DEF Files
<1> QED BY <1>2 DEF InitEmptyWorkDir, Directories

LEMMA VCStarts == VCInit => VCInv
<1> SUFFICES ASSUME VCInit PROVE VCInv
  OBVIOUS
<1>1. heap = <<InitEmptyWorkDir>> /\ heap \in Seq(Directories) /\ Len(heap) = 1
  BY EmptyFiles DEF VCInit
<1>2. /\ commits = <<>> /\ commits \in Seq(CommitRecords) /\ Len(commits) = 0
      /\ past = <<>> /\ past \in Seq(PastRecords) /\ Len(past) = 0
  BY EmptySeq DEF VCInit
<1>3. Snapshots = {}
  BY <1>2 DEF Snapshots
<1>4. answer.kind = "done" /\ checkouts = {}
  BY DEF VCInit, Done
<1> QED
  BY <1>1, <1>2, <1>3, <1>4, EmptyFiles, FS_EmptySet, VCAssumption
  DEF VCInit, VCInv, VCTypes, Recorded, Replied, CheckoutRestores

(* A call that commits nothing and leaves the snapshots as they are; its   *)
(* own answer is left to be shown true.                                    *)
LEMMA SnapshotsStay ==
  ASSUME VCInv, UNCHANGED <<commits, past>>, staged' \in Files,
         heap' \in Seq(Directories), Len(heap') \in Len(heap)..MaxHeap,
         \A s \in Snapshots : heap'[s] = heap[s],
         checkouts' \subseteq 1..Len(heap'), checkouts' \cap Snapshots = {},
         Replied'
  PROVE  VCInv'
<1> USE DEF VCInv
<1>1. /\ Len(heap') \in 1..MaxHeap
      /\ \A i \in 1..Len(commits) : commits'[i].snapshot \in 2..Len(heap')
  BY VCNumbers, VCAssumption DEF VCTypes
<1>2. Snapshots' = Snapshots
  BY DEF Snapshots
<1>3. VCTypes'
  BY <1>1, <1>2 DEF VCTypes
<1>4. \A i \in 1..Len(commits) : commits[i].snapshot \in Snapshots
  BY VCNumbers DEF Snapshots
<1>5. Recorded'
  BY <1>4 DEF Recorded
<1> QED BY <1>3, <1>5

(* The directories the caller holds are not snapshots.                     *)
LEMMA HeldApart ==
  ASSUME VCTypes, NEW d \in Held
  PROVE  d \in 1..Len(heap) /\ d \notin Snapshots
<1>1. \A s \in Snapshots : s \in 2..Len(heap)
  BY VCNumbers DEF VCTypes, Snapshots
<1>2. wd \in 1..Len(heap) /\ wd \notin Snapshots
  BY <1>1, VCNumbers DEF wd
<1>3. checkouts \subseteq 1..Len(heap) /\ checkouts \cap Snapshots = {}
  BY DEF VCTypes
<1> QED BY <1>2, <1>3 DEF Held

LEMMA PutFile ==
  ASSUME NEW files \in Files, NEW p \in Paths, NEW c \in Contents
  PROVE  Put(files, p, c) \in Files
<1>1. PICK P \in SUBSET Paths : files \in [P -> Contents]
  BY DEF Files
<1>2. Put(files, p, c) \in [P \cup {p} -> Contents]
  BY <1>1 DEF Put
<1> QED BY <1>2 DEF Files

(* Editing a held directory, or failing to.                                *)
LEMMA EditKeeps ==
  ASSUME VCInv, NEW d \in Held, NEW new \in Directories,
         heap' = heap \/ heap' = [heap EXCEPT ![d] = new],
         answer' \in {Done, Failed}, KeepHistory, UNCHANGED checkouts
  PROVE  VCInv'
<1>1. d \in 1..Len(heap) /\ d \notin Snapshots /\ VCTypes
  BY HeldApart DEF VCInv
<1>2. /\ heap' \in Seq(Directories) /\ Len(heap') = Len(heap)
      /\ \A s \in Snapshots : heap'[s] = heap[s]
  <2>1. \A s \in Snapshots : s \in 1..Len(heap)
    BY VCNumbers, <1>1 DEF VCTypes, Snapshots
  <2>2. CASE heap' = heap
    BY <1>1, <2>2 DEF VCTypes
  <2>3. CASE heap' = [heap EXCEPT ![d] = new]
    BY <1>1, <2>1, <2>3, ExceptSeq DEF VCTypes
  <2> QED BY <2>2, <2>3
<1>3. Replied'
  <2>1. answer'.kind = "done" \/ answer'.kind = "error"
    BY DEF Done, Failed
  <2> QED BY <2>1 DEF Replied, CheckoutRestores
<1>4. Len(heap') \in Len(heap)..MaxHeap
  BY <1>1, <1>2, VCNumbers, VCAssumption DEF VCTypes
<1>5. checkouts' \subseteq 1..Len(heap') /\ checkouts' \cap Snapshots = {}
  BY <1>1, <1>2 DEF VCTypes
<1> QED BY <1>1, <1>2, <1>3, <1>4, <1>5, SnapshotsStay DEF KeepHistory, VCTypes

(* A content is a sequence of characters that is not too long.             *)
LEMMA BoundedContents ==
  ASSUME NEW c
  PROVE  c \in Contents <=> c \in Seq(Chars) /\ Len(c) <= MaxLength
<1>1. ASSUME c \in Contents PROVE c \in Seq(Chars) /\ Len(c) <= MaxLength
  <2>1. PICK m \in 0..MaxLength : c \in [1..m -> Chars]
    BY <1>1 DEF Contents, BoundedSeq, SeqOf
  <2>2. c \in Seq(Chars) /\ Len(c) = m
    BY <2>1
  <2> QED BY <2>1, <2>2, VCAssumption
<1>2. ASSUME c \in Seq(Chars), Len(c) <= MaxLength PROVE c \in Contents
  <2>1. c \in [1..Len(c) -> Chars] /\ Len(c) \in Nat
    BY <1>2, LenProperties
  <2>2. Len(c) \in 0..MaxLength
    BY <1>2, <2>1, VCAssumption
  <2> QED BY <2>1, <2>2 DEF Contents, BoundedSeq, SeqOf
<1> QED BY <1>1, <1>2

LEMMA ConcatInContents ==
  ASSUME NEW b \in Contents, NEW c \in Contents, Len(b \o c) <= MaxLength
  PROVE  b \o c \in Contents
<1>1. b \in Seq(Chars) /\ c \in Seq(Chars)
  BY BoundedContents
<1>2. b \o c \in Seq(Chars)
  BY <1>1, ConcatProperties
<1> QED BY <1>2, BoundedContents

LEMMA EditsAreEdits ==
  ASSUME VCInv, NEW d \in Held, NEW p \in Paths,
         \/ CreateFile(d, p) \/ CreateDir(d, p)
         \/ \E c \in Contents : WriteToFile(d, p, c) \/ AppendToFile(d, p, c)
  PROVE  VCInv'
<1>1. d \in 1..Len(heap) /\ VCTypes /\ heap[d] \in Directories
  BY HeldApart, ElementOfSeq DEF VCInv, VCTypes
<1>2. heap[d].files \in Files /\ heap[d].dirs \in SUBSET Paths
  BY <1>1 DEF Directories
<1>3. ASSUME NEW c \in Contents, Store(d, p, c), KeepHistory
      PROVE  VCInv'
  <2>1. Put(heap[d].files, p, c) \in Files
    BY <1>2, PutFile
  <2> DEFINE new == [heap[d] EXCEPT !.files = Put(@, p, c)]
  <2>2. new \in Directories
    BY <1>1, <2>1 DEF Directories
  <2>3. heap' = [heap EXCEPT ![d] = new] /\ answer' = Done /\ UNCHANGED checkouts
    BY <1>3 DEF Store, Reply
  <2> HIDE DEF new
  <2> QED BY <1>3, <2>2, <2>3, EditKeeps
<1>4. ASSUME Fail, KeepHistory
      PROVE  VCInv'
  BY <1>1, <1>4, EditKeeps DEF Fail, Reply
<1>5. <<>> \in Contents
  BY VCAssumption DEF Contents, BoundedSeq, SeqOf
<1>6. CASE CreateFile(d, p)
  BY <1>3, <1>4, <1>5, <1>6 DEF CreateFile
<1>7. CASE CreateDir(d, p)
  <2>1. CASE p \in heap[d].dirs \/ Has(d, p)
    BY <1>4, <1>7, <2>1 DEF CreateDir
  <2>2. CASE ~(p \in heap[d].dirs \/ Has(d, p))
    <3> DEFINE new == [heap[d] EXCEPT !.dirs = @ \cup {p}]
    <3>1. new \in Directories
      BY <1>1, <1>2 DEF Directories
    <3>2. /\ heap' = [heap EXCEPT ![d] = new] /\ answer' = Done
          /\ KeepHistory /\ UNCHANGED checkouts
      BY <1>7, <2>2 DEF CreateDir, Reply
    <3> HIDE DEF new
    <3> QED BY <3>1, <3>2, EditKeeps
  <2> QED BY <2>1, <2>2
<1>8. ASSUME NEW c \in Contents, WriteToFile(d, p, c) PROVE VCInv'
  BY <1>3, <1>4, <1>8 DEF WriteToFile
<1>9. ASSUME NEW c \in Contents, AppendToFile(d, p, c) PROVE VCInv'
  <2>1. CASE ~Has(d, p)
    BY <1>4, <1>9, <2>1 DEF AppendToFile
  <2>2. CASE Has(d, p)
    <3>1. CatFile(d, p) \in Contents
      BY <1>2, <2>2 DEF CatFile, Has, Files
    <3>2. CatFile(d, p) \o c \in Contents
      BY <1>9, <2>2, <3>1, ConcatInContents DEF AppendToFile
    <3> QED BY <1>3, <1>9, <2>2, <3>2 DEF AppendToFile
  <2> QED BY <2>1, <2>2
<1> QED BY <1>6, <1>7, <1>8, <1>9

(* Staging files of the tracked directory.                                 *)
LEMMA StagePuts ==
  ASSUME VCInv, NEW P \in SUBSET DOMAIN heap[wd].files, Stage(P)
  PROVE  /\ staged' \in Files
         /\ \A p \in P : p \in DOMAIN staged' /\ staged'[p] = CatFile(wd, p)
<1>1. heap[wd] \in Directories
  BY VCNumbers, ElementOfSeq DEF VCInv, VCTypes
<1>2. PICK Q \in SUBSET Paths : heap[wd].files \in [Q -> Contents]
  BY <1>1 DEF Directories, Files
<1>3. PICK R \in SUBSET Paths : staged \in [R -> Contents]
  BY DEF VCInv, VCTypes, Files
<1>4. staged' \in [R \cup P -> Contents] /\ \A p \in P : staged'[p] = CatFile(wd, p)
  BY <1>2, <1>3 DEF Stage, CatFile
<1> QED BY <1>2, <1>4 DEF Files

LEMMA AddKeeps ==
  ASSUME VCInv, NEW P \in SUBSET Paths, VCAdd(P) \/ AddAll
  PROVE  VCInv'
<1>1. UNCHANGED <<heap, commits, checkouts, past>> /\ VCTypes
  BY DEF VCAdd, AddAll, VCInv
<1>2. staged' \in Files
  <2>1. CASE VCAdd(P)
    BY <2>1, StagePuts DEF VCAdd, Has
  <2>2. CASE AddAll
    BY <2>2, StagePuts DEF AddAll
  <2> QED BY <2>1, <2>2
<1>3. Replied'
  <2>1. CASE VCAdd(P)
    BY <2>1 DEF VCAdd, Replied, CheckoutRestores, Reply, Done
  <2>2. CASE AddAll
    <3>1. \A p \in DOMAIN heap[wd].files : p \in DOMAIN staged' /\ staged'[p] = CatFile(wd, p)
      BY <2>2, StagePuts DEF AddAll
    <3>2. \A p : CatFile(wd, p)' = CatFile(wd, p)
      BY <1>1 DEF CatFile
    <3>3. ModifiedFiles' = {}
      BY <1>1, <3>1, <3>2 DEF ModifiedFiles, Changed
    <3>4. answer'.kind = "all staged"
      BY <2>2 DEF AddAll, Reply
    <3> QED BY <3>3, <3>4 DEF Replied, CheckoutRestores
  <2> QED BY <2>1, <2>2
<1>4. Len(heap') \in Len(heap)..MaxHeap
  BY <1>1, VCNumbers, VCAssumption DEF VCTypes
<1> QED BY <1>1, <1>2, <1>3, <1>4, SnapshotsStay DEF VCTypes

(* Clone: one more directory, equal to d, the others as they were.         *)
LEMMA CloneAppends ==
  ASSUME VCTypes, NEW d \in 1..Len(heap), heap' = Clone(d).heap
  PROVE  /\ heap' \in Seq(Directories) /\ Len(heap') = Len(heap) + 1
         /\ \A i \in 1..Len(heap) : heap'[i] = heap[i]
         /\ Clone(d).id = Len(heap) + 1 /\ heap'[Len(heap) + 1] = heap[d]
<1>1. heap[d] \in Directories
  BY ElementOfSeq DEF VCTypes
<1> QED BY <1>1, AppendProperties DEF Clone, VCTypes

LEMMA CommitKeeps ==
  ASSUME VCInv, NEW message \in Messages, Commit(message),
         Len(commits) < MaxCommits, Len(heap) < MaxHeap
  PROVE  VCInv'
<1> DEFINE n == Len(commits)
           id == Len(heap) + 1
<1>0. VCTypes /\ Recorded
  BY DEF VCInv
<1>1. /\ heap' \in Seq(Directories) /\ Len(heap') = id /\ heap'[id] = heap[wd]
      /\ \A i \in 1..Len(heap) : heap'[i] = heap[i]
      /\ commits' = Append(commits, [message |-> message, snapshot |-> id])
      /\ past' = Append(past, [message |-> message, directory |-> heap[wd]])
      /\ staged' = [p \in {} |-> <<>>] /\ answer'.kind = "committed"
      /\ checkouts' = checkouts
  BY <1>0, CloneAppends, VCNumbers DEF Commit, Reply
<1>2. n \in Nat /\ id \in Nat /\ heap[wd] \in Directories /\ wd \in 1..Len(heap)
  <2>1. n \in Nat /\ id \in Nat /\ wd \in 1..Len(heap)
    BY <1>0, VCNumbers DEF VCTypes
  <2>2. heap \in Seq(Directories)
    BY <1>0 DEF VCTypes
  <2> QED BY <2>1, <2>2, ElementOfSeq
<1>3. /\ commits' \in Seq(CommitRecords) /\ Len(commits') = n + 1
      /\ \A i \in 1..n : commits'[i] = commits[i]
      /\ commits'[n + 1] = [message |-> message, snapshot |-> id]
  <2>1. [message |-> message, snapshot |-> id] \in CommitRecords
    BY <1>2 DEF CommitRecords
  <2> QED BY <1>0, <1>1, <2>1, AppendProperties DEF VCTypes
<1>4. /\ past' \in Seq(PastRecords) /\ Len(past') = n + 1
      /\ \A i \in 1..n : past'[i] = past[i]
      /\ past'[n + 1] = [message |-> message, directory |-> heap[wd]]
  <2>1. [message |-> message, directory |-> heap[wd]] \in PastRecords
    BY <1>2 DEF PastRecords
  <2> QED BY <1>0, <1>1, <2>1, AppendProperties DEF VCTypes
<1>5. \A i \in 1..n : commits[i].snapshot \in 2..Len(heap)
  BY <1>0 DEF VCTypes
<1> HIDE DEF n, id
<1>6. Snapshots' = Snapshots \cup {id} /\ id \notin Snapshots
  <2>1. DOMAIN commits = 1..n /\ DOMAIN commits' = 1..n + 1
    BY <1>0, <1>3, LenProperties DEF VCTypes, n
  <2>2. \A i \in 1..n + 1 : i \in 1..n \/ i = n + 1
    BY <1>2
  <2>3. 1..n \subseteq 1..n + 1 /\ n + 1 \in 1..n + 1
    BY <1>2
  <2>4. commits'[n + 1].snapshot = id /\ \A i \in 1..n : commits'[i].snapshot = commits[i].snapshot
    BY <1>3
  <2>5. Snapshots' = Snapshots \cup {id}
    BY <2>1, <2>2, <2>3, <2>4 DEF Snapshots
  <2>6. id \notin Snapshots
    BY <1>2, <1>5, <2>1 DEF Snapshots, id
  <2> QED BY <2>5, <2>6
<1>7. IsFiniteSet(Snapshots') /\ Cardinality(Snapshots') = n + 1
  BY <1>0, <1>6, FS_AddElement DEF VCTypes, n
<1>8. VCTypes'
  <2>1. id \in 2..id /\ id \in 1..MaxHeap /\ 2..Len(heap) \subseteq 2..id /\ n + 1 <= MaxCommits
    BY <1>0, <1>2, VCNumbers, VCAssumption DEF id, n
  <2>2. ASSUME NEW i \in 1..n + 1 PROVE commits'[i].snapshot \in 2..id
    <3>1. i \in 1..n \/ i = n + 1
      BY <1>2
    <3> QED BY <1>3, <1>5, <2>1, <3>1
  <2>3. checkouts' \subseteq 1..id /\ checkouts' \cap Snapshots' = {}
    <3>1. checkouts \subseteq 1..Len(heap) /\ checkouts \cap Snapshots = {}
      BY <1>0 DEF VCTypes
    <3>2. 1..Len(heap) \subseteq 1..id /\ id \notin 1..Len(heap)
      BY <1>2, VCNumbers, <1>0 DEF id
    <3> QED BY <1>1, <1>6, <3>1, <3>2
  <2> QED BY <1>1, <1>3, <1>4, <1>7, <2>1, <2>2, <2>3, EmptyFiles DEF VCTypes
<1>9. ASSUME NEW i \in 1..n + 1
      PROVE  past'[i] = [message |-> commits'[i].message, directory |-> heap'[commits'[i].snapshot]]
  <2>1. CASE i \in 1..n
    <3>1. commits[i].snapshot \in 1..Len(heap)
      BY <1>0, <1>5, <2>1, VCNumbers
    <3>2. past[i] = [message |-> commits[i].message, directory |-> heap[commits[i].snapshot]]
      BY <1>0, <2>1 DEF Recorded, n
    <3>3. heap'[commits[i].snapshot] = heap[commits[i].snapshot]
      BY <1>1, <3>1
    <3> QED BY <1>3, <1>4, <2>1, <3>2, <3>3
  <2>2. CASE i = n + 1
    BY <1>1, <1>3, <1>4, <2>2
  <2> QED BY <1>2, <2>1, <2>2
<1>10. ModifiedFiles' = {} /\ StagedFiles' = {}
  <2>1. Last(commits)'.snapshot = id /\ heap'[wd] = heap[wd]
    BY <1>1, <1>2, <1>3 DEF Last
  <2>2. Changed' = {}
    BY <1>1, <2>1 DEF Changed, CatFile
  <2>3. DOMAIN staged' = {}
    BY <1>1
  <2> QED BY <2>2, <2>3 DEF ModifiedFiles, StagedFiles
<1> QED BY <1>1, <1>3, <1>8, <1>9, <1>10 DEF VCInv, Recorded, Replied, CheckoutRestores

(* Log names the commits, the latest first.                                *)
LEMMA LogReads ==
  ASSUME VCTypes, NEW k \in 0..Len(commits) - 1
  PROVE  Log[k + 1] = commits[Len(commits) - k].message
<1> DEFINE messages == [i \in DOMAIN commits |-> commits[i].message]
           n == Len(commits)
<1>1. DOMAIN commits = 1..n /\ n \in Nat
  BY VCNumbers
<1>2. \A i \in 1..n : commits[i] \in CommitRecords
  BY ElementOfSeq DEF VCTypes
<1>3. messages \in [1..n -> Messages] /\ messages \in Seq(Messages)
  BY <1>1, <1>2 DEF CommitRecords
<1>4. Len(messages) = n
  BY <1>1, <1>3, LenProperties
<1>5. k + 1 \in 1..n /\ n - (k + 1) + 1 = n - k /\ n - k \in 1..n
  BY <1>1
<1>6. Log = Reverse(messages)
  BY DEF Log
<1> HIDE DEF messages
<1>7. Log[k + 1] = messages[n - (k + 1) + 1]
  BY <1>4, <1>5, <1>6 DEF Reverse
<1> QED BY <1>1, <1>5, <1>7 DEF messages

LEMMA CheckoutKeeps ==
  ASSUME VCInv, NEW ref \in References, Checkout(ref), Len(heap) < MaxHeap
  PROVE  VCInv'
<1>0. VCTypes /\ Recorded /\ KeepHistory
  BY DEF VCInv, Checkout
<1>1. CASE commits = <<>> \/ ref.kind = "other" \/ ref.count >= Len(commits)
  <2>1. Fail
    BY <1>1 DEF Checkout
  <2>2. wd \in Held /\ wd \in 1..Len(heap) /\ heap[wd] \in Directories
    BY <1>0, VCNumbers, ElementOfSeq DEF Held, VCTypes
  <2> QED BY <1>0, <2>1, <2>2, EditKeeps DEF Fail, Reply
<1>2. CASE ~(commits = <<>> \/ ref.kind = "other" \/ ref.count >= Len(commits))
  <2> DEFINE n == Len(commits)
             k == ref.count
             s == commits[n - k].snapshot
             id == Len(heap) + 1
  <2>1. k \in 0..n - 1 /\ n \in Nat /\ n - k \in 1..n
    <3>1. ref.kind # "other" /\ ref.count \in 0..MaxSteps
      BY <1>2, VCAssumption DEF References
    <3> QED BY <1>0, <1>2, <3>1, VCNumbers, VCAssumption
  <2>2. s \in 1..Len(heap)
    BY <1>0, <2>1, VCNumbers DEF VCTypes
  <2>3. /\ heap' = Clone(s).heap /\ checkouts' = checkouts \cup {Clone(s).id}
        /\ answer' = [kind |-> "checkout", steps |-> k, dir |-> Clone(s).id]
    BY <1>2 DEF Checkout, Reply, Returned
  <2>4. /\ heap' \in Seq(Directories) /\ Len(heap') = id
        /\ \A i \in 1..Len(heap) : heap'[i] = heap[i]
        /\ Clone(s).id = id /\ heap'[id] = heap[s]
    <3> HIDE DEF s
    <3> QED BY <1>0, <2>2, <2>3, CloneAppends
  <2>5. Log[k + 1] = commits[n - k].message /\ Log' = Log
    BY <1>0, <2>1, LogReads DEF Log, KeepHistory
  <2>6. past[n - k] = [message |-> Log[k + 1], directory |-> heap'[id]]
    BY <1>0, <2>1, <2>4, <2>5 DEF Recorded
  <2>7. Len(past') = n /\ past' = past
    BY <1>0 DEF KeepHistory, VCTypes
  <2>8. Replied'
    <3>1. answer'.kind = "checkout" /\ answer'.steps = k /\ answer'.dir = id
      BY <2>3, <2>4
    <3> HIDE DEF k, n, id
    <3> QED BY <2>5, <2>6, <2>7, <3>1 DEF Replied, CheckoutRestores
  <2>9. Len(heap') \in Len(heap)..MaxHeap /\ \A i \in Snapshots : heap'[i] = heap[i]
    <3>1. \A i \in Snapshots : i \in 1..Len(heap)
      BY <1>0, VCNumbers DEF VCTypes, Snapshots
    <3> QED BY <1>0, <2>4, <3>1, VCNumbers, VCAssumption
  (* The directory returned is a new one, that no commit has.              *)
  <2>10. checkouts' \subseteq 1..Len(heap') /\ checkouts' \cap Snapshots = {}
    <3>1. checkouts' = checkouts \cup {id} /\ id \in 1..id /\ 1..Len(heap) \subseteq 1..id
      BY <1>0, <2>3, <2>4, VCNumbers
    <3>2. id \notin Snapshots
      BY <1>0, VCNumbers DEF VCTypes, Snapshots
    <3>3. checkouts \subseteq 1..Len(heap) /\ checkouts \cap Snapshots = {}
      BY <1>0 DEF VCTypes
    <3> HIDE DEF id
    <3> QED BY <2>4, <3>1, <3>2, <3>3
  <2> QED BY <1>0, <2>4, <2>8, <2>9, <2>10, SnapshotsStay DEF KeepHistory, VCTypes
<1> QED BY <1>1, <1>2

LEMMA VCKeeps == VCInv /\ [VCNext]_vcVars => VCInv'
<1> SUFFICES ASSUME VCInv, [VCNext]_vcVars PROVE VCInv'
  OBVIOUS
<1>1. CASE UNCHANGED vcVars
  <2>1. UNCHANGED <<heap, commits, staged, checkouts, answer, past>>
    BY <1>1 DEF vcVars
  <2>2. Snapshots' = Snapshots /\ Log' = Log
    BY <2>1 DEF Snapshots, Log
  <2>3. ModifiedFiles' = ModifiedFiles /\ StagedFiles' = StagedFiles
    BY <2>1 DEF ModifiedFiles, StagedFiles, Changed, CatFile
  <2>4. VCTypes'
    BY <2>1, <2>2 DEF VCInv, VCTypes
  <2>5. Recorded'
    BY <2>1 DEF VCInv, Recorded
  <2>6. Replied'
    BY <2>1, <2>2, <2>3 DEF VCInv, Replied, CheckoutRestores
  <2> QED BY <2>4, <2>5, <2>6 DEF VCInv
<1>2. CASE Edit
  BY <1>2, EditsAreEdits DEF Edit
<1>3. CASE AddAll \/ \E P \in SUBSET Paths : VCAdd(P)
  BY <1>3, AddKeeps
<1>4. ASSUME NEW message \in Messages, Commit(message), Len(commits) < MaxCommits, Len(heap) < MaxHeap
      PROVE  VCInv'
  BY <1>4, CommitKeeps
<1>5. ASSUME NEW ref \in References, Checkout(ref), Len(heap) < MaxHeap
      PROVE  VCInv'
  BY <1>5, CheckoutKeeps
<1> QED BY <1>1, <1>2, <1>3, <1>4, <1>5 DEF VCNext

(* A file that Status does not list is as the last commit recorded it.     *)
LEMMA UnlistedRecorded ==
  ASSUME VCInv, commits # <<>>,
         NEW p \in DOMAIN heap[wd].files \ (ModifiedFiles \cup StagedFiles)
  PROVE  /\ p \in DOMAIN Last(past).directory.files
         /\ Last(past).directory.files[p] = CatFile(wd, p)
<1>1. Len(commits) \in Nat \ {0} /\ Len(past) = Len(commits)
  BY EmptySeq DEF VCInv, VCTypes
<1>2. Last(past).directory = heap[Last(commits).snapshot]
  <2>1. Len(commits) \in 1..Len(commits)
    BY <1>1
  <2>2. Last(past) = past[Len(commits)] /\ Last(commits) = commits[Len(commits)]
    BY <1>1 DEF Last
  <2> DEFINE n == Len(commits)
  <2>3. past[n] = [message |-> commits[n].message, directory |-> heap[commits[n].snapshot]]
    <3> HIDE DEF n
    <3> QED BY <2>1 DEF VCInv, Recorded, n
  <2> QED BY <2>2, <2>3
<1>3. p \notin Changed
  BY DEF ModifiedFiles, StagedFiles
<1> QED BY <1>2, <1>3 DEF Changed

LEMMA VCImplies == VCInv => VCTypeOK /\ CheckoutRestores /\ StatusTells
<1> SUFFICES ASSUME VCInv PROVE VCTypeOK /\ CheckoutRestores /\ StatusTells
  OBVIOUS
<1>1. VCTypeOK
  <2>1. \A i \in 1..Len(commits) :
          commits[i].snapshot \in Snapshots /\ commits[i].snapshot \in 1..Len(heap)
    BY VCNumbers DEF VCInv, VCTypes, Snapshots
  <2>2. Held \subseteq 1..Len(heap) /\ Held \cap Snapshots = {}
    BY HeldApart DEF VCInv
  <2> QED BY <2>1, <2>2, VCNumbers DEF VCTypeOK, VCInv, VCTypes
<1>2. StatusTells
  BY UnlistedRecorded DEF StatusTells, VCInv, Replied
<1> QED BY <1>1, <1>2 DEF VCInv, Replied

(* Every commit has a directory of its own on the heap, never one that the *)
(* caller holds, for any paths, contents and bounds.                       *)
THEOREM VCTypeCorrect == VCSpec => []VCTypeOK
<1> QED BY VCStarts, VCKeeps, VCImplies, PTL DEF VCSpec

(* Checkout gives back the directory of the commit it names, and Log names *)
(* the commits in order, whatever was edited, staged and committed since:  *)
(* nothing writes to a directory that a commit holds.                      *)
THEOREM VCCheckoutRestores == VCSpec => []CheckoutRestores
<1> QED BY VCStarts, VCKeeps, VCImplies, PTL DEF VCSpec

(* After a commit Status lists nothing, after AddAll nothing as modified,  *)
(* and a file it never lists is as the last commit recorded it.            *)
THEOREM VCStatusTells == VCSpec => []StatusTells
<1> QED BY VCStarts, VCKeeps, VCImplies, PTL DEF VCSpec

-----------------------------------------------------------------------------
Books == UNION {[N -> Numbers] : N \in {S \in SUBSET Names : IsFiniteSet(S)}}

(* The key under which phoneToBestName has a contact's number.             *)
Key(n) == Normalized(original[n])
VisitedNames == DOMAIN original \ ranged

(* phoneToBestName has the first name of each number among those in S.     *)
BestAmong(S) ==
  /\ DOMAIN bestName = {Key(n) : n \in S}
  /\ \A x \in DOMAIN bestName : bestName[x] \in S /\ Key(bestName[x]) = x
  /\ \A n \in S : bestName[Key(n)] <= n

(* The pass that deletes has deleted, of those it visited, the others.     *)
Deleted == {n \in VisitedNames : bestName[Key(n)] # n}

BookInv ==
  /\ contacts \in Books /\ original \in Books /\ ranged \subseteq DOMAIN original
  /\ bookAt \in {"idle", "best", "sweep", "crashed"}
  /\ bookAt = "best" => contacts = original /\ BestAmong(VisitedNames)
  /\ bookAt = "sweep" =>
       /\ BestAmong(DOMAIN original)
       /\ contacts = [n \in DOMAIN original \ Deleted |-> original[n]]
  /\ bookAt \in {"idle", "crashed"} => ranged = {}
  /\ bookAt = "crashed" => TooShort
  /\ bookAnswer.kind = "deduplicated" =>
       bookAt \in {"idle", "crashed"} /\ bookAnswer.of \in Books /\ FirstOfEachNumber
  /\ bookAnswer.kind = "catchy" => bookAt \in {"idle", "crashed"} /\ CatchiestChosen

(* Tails are compared character by character.                              *)
LEMMA SameTails ==
  ASSUME NEW s \in Seq(Int), NEW t \in Seq(Int), Len(s) = Len(t), Len(s) >= 2
  PROVE  Tail(s) = Tail(t) <=> \A i \in 2..Len(s) : s[i] = t[i]
<1>1. /\ Tail(s) \in Seq(Int) /\ Tail(t) \in Seq(Int)
      /\ Len(Tail(s)) = Len(s) - 1 /\ Len(Tail(t)) = Len(s) - 1
      /\ \A i \in 1..Len(s) - 1 : Tail(s)[i] = s[i + 1] /\ Tail(t)[i] = t[i + 1]
  BY HeadTailProperties, EmptySeq
<1>2. Len(s) \in Nat
  BY LenProperties
<1>3. ASSUME Tail(s) = Tail(t), NEW i \in 2..Len(s) PROVE s[i] = t[i]
  <2>1. i - 1 \in 1..Len(s) - 1 /\ (i - 1) + 1 = i
    BY <1>2
  <2> QED BY <1>1, <1>3, <2>1
<1>4. ASSUME \A i \in 2..Len(s) : s[i] = t[i] PROVE Tail(s) = Tail(t)
  <2>1. ASSUME NEW i \in 1..Len(s) - 1 PROVE Tail(s)[i] = Tail(t)[i]
    <3>1. i + 1 \in 2..Len(s)
      BY <1>2
    <3> QED BY <1>1, <1>4, <3>1
  <2> QED BY <1>1, <2>1, SeqEqual
<1> QED BY <1>3, <1>4

(* Normalized changes the first character of an international number only. *)
LEMMA NormalizedIs ==
  ASSUME NEW s \in Seq(Int)
  PROVE  /\ Normalized(s) \in Seq(Int) /\ Len(Normalized(s)) = Len(s)
         /\ \A i \in 1..Len(s) :
              Normalized(s)[i] = IF i = 1 /\ International(s) THEN 0 ELSE s[i]
<1>1. CASE ~International(s)
  BY <1>1 DEF Normalized
<1>2. CASE International(s)
  <2>1. Len(s) \in Nat /\ Len(s) >= 2 /\ s # <<>>
    BY <1>2, LenProperties DEF International
  <2>2. /\ Tail(s) \in Seq(Int) /\ Len(Tail(s)) = Len(s) - 1
        /\ \A i \in 1..Len(s) - 1 : Tail(s)[i] = s[i + 1]
    BY <2>1, HeadTailProperties
  <2>3. <<0>> \in Seq(Int) /\ Len(<<0>>) = 1 /\ <<0>>[1] = 0
    OBVIOUS
  <2>4. Normalized(s) = <<0>> \o Tail(s)
    BY <1>2 DEF Normalized
  <2>5. /\ Normalized(s) \in Seq(Int) /\ Len(Normalized(s)) = 1 + (Len(s) - 1)
        /\ \A i \in 1..1 + (Len(s) - 1) :
             Normalized(s)[i] = IF i <= 1 THEN <<0>>[i] ELSE Tail(s)[i - 1]
    BY <2>2, <2>3, <2>4, ConcatProperties
  <2>6. 1 + (Len(s) - 1) = Len(s)
    BY <2>1
  <2>7. ASSUME NEW i \in 1..Len(s)
        PROVE  Normalized(s)[i] = IF i = 1 THEN 0 ELSE s[i]
    <3>1. CASE i = 1
      BY <2>1, <2>3, <2>5, <2>6, <3>1
    <3>2. CASE i # 1
      <4>1. i - 1 \in 1..Len(s) - 1 /\ (i - 1) + 1 = i /\ ~(i <= 1)
        BY <2>1, <3>2
      <4> QED BY <2>2, <2>5, <2>6, <3>2, <4>1
    <3> QED BY <3>1, <3>2
  <2> QED BY <1>2, <2>5, <2>6, <2>7
<1> QED BY <1>1, <1>2

(* Two numbers are the same exactly when they are written the same once    *)
(* the international prefix is replaced.                                   *)
LEMMA SameNormalized ==
  ASSUME NEW s \in Seq(Int), NEW t \in Seq(Int)
  PROVE  SameNumber(s, t) <=> Normalized(s) = Normalized(t)
<1>0. Len(s) \in Nat /\ Len(t) \in Nat
  BY LenProperties
<1>1. ASSUME SameNumber(s, t), s # t PROVE Normalized(s) = Normalized(t)
  <2>1. /\ Len(s) >= 2 /\ s[2] = 9 /\ Len(t) = Len(s) /\ Tail(s) = Tail(t)
        /\ {s[1], t[1]} = {0, Plus}
    BY <1>1 DEF SameNumber
  <2>2. \A i \in 2..Len(s) : s[i] = t[i]
    BY <2>1, SameTails
  <2>3. t[2] = 9
    BY <1>0, <2>1, <2>2
  <2>4. \/ s[1] = 0 /\ t[1] = Plus /\ ~International(s) /\ International(t)
        \/ s[1] = Plus /\ t[1] = 0 /\ International(s) /\ ~International(t)
    <3>1. Plus # 0
      BY DEF Plus
    <3>2. (s[1] = 0 /\ t[1] = Plus) \/ (s[1] = Plus /\ t[1] = 0)
      BY <2>1, <3>1
    <3> QED BY <2>1, <2>3, <3>1, <3>2 DEF International
  <2>5. \A i \in 1..Len(s) : Normalized(s)[i] = Normalized(t)[i]
    <3> SUFFICES ASSUME NEW i \in 1..Len(s) PROVE Normalized(s)[i] = Normalized(t)[i]
      OBVIOUS
    <3>1. /\ Normalized(s)[i] = IF i = 1 /\ International(s) THEN 0 ELSE s[i]
          /\ Normalized(t)[i] = IF i = 1 /\ International(t) THEN 0 ELSE t[i]
      BY <2>1, NormalizedIs
    <3>2. i = 1 \/ i \in 2..Len(s)
      BY <1>0
    <3> QED BY <2>2, <2>4, <3>1, <3>2
  <2> QED BY <2>1, <2>5, NormalizedIs, SeqEqual
<1>2. ASSUME Normalized(s) = Normalized(t) PROVE SameNumber(s, t)
  <2>1. Len(s) = Len(t)
    BY <1>2, NormalizedIs
  <2>2. \A i \in 1..Len(s) : /\ Normalized(s)[i] = IF i = 1 /\ International(s) THEN 0 ELSE s[i]
                             /\ Normalized(s)[i] = IF i = 1 /\ International(t) THEN 0 ELSE t[i]
    BY <1>2, <2>1, NormalizedIs
  <2>3. \A i \in 2..Len(s) : s[i] = t[i]
    <3> SUFFICES ASSUME NEW i \in 2..Len(s) PROVE s[i] = t[i]
      OBVIOUS
    <3>1. i \in 1..Len(s) /\ i # 1
      BY <1>0
    <3> QED BY <2>2, <3>1
  <2>4. CASE International(s) <=> International(t)
    <3>1. ASSUME NEW i \in 1..Len(s) PROVE s[i] = t[i]
      <4>1. i = 1 \/ i \in 2..Len(s)
        BY <1>0
      <4>2. International(s) /\ International(t) => s[1] = t[1]
        BY DEF International
      <4> QED BY <2>2, <2>3, <2>4, <4>1, <4>2
    <3> QED BY <2>1, <3>1, SeqEqual DEF SameNumber
  <2>5. CASE ~(International(s) <=> International(t))
    <3>1. Len(s) >= 2 /\ 1 \in 1..Len(s) /\ 2 \in 2..Len(s)
      BY <1>0, <2>1, <2>5 DEF International
    <3>2. Tail(s) = Tail(t)
      BY <2>1, <2>3, <3>1, SameTails
    <3>3. s[2] = 9 /\ {s[1], t[1]} = {0, Plus}
      BY <2>2, <2>3, <2>5, <3>1 DEF International
    <3> QED BY <2>1, <3>1, <3>2, <3>3 DEF SameNumber
  <2> QED BY <2>4, <2>5
<1> QED BY <1>1, <1>2

-----------------------------------------------------------------------------
LEMMA NoBook == None \in Books
<1>1. None \in [{} -> Numbers] /\ IsFiniteSet({})
  BY FS_EmptySet DEF None
<1> QED BY <1>1 DEF Books

LEMMA BookStarts == BookInit => BookInv
<1> SUFFICES ASSUME BookInit PROVE BookInv
  OBVIOUS
<1> QED BY NoBook DEF BookInit, BookInv, BookDone

(* What a book is, and what a part of one is.                              *)
LEMMA BookFacts ==
  ASSUME NEW book \in Books
  PROVE  /\ DOMAIN book \subseteq Names /\ IsFiniteSet(DOMAIN book)
         /\ \A n \in DOMAIN book : book[n] \in Numbers /\ book[n] \in Seq(Int) /\ n \in Int
         /\ book = [n \in DOMAIN book |-> book[n]]
         /\ \A S \in SUBSET DOMAIN book : [n \in S |-> book[n]] \in Books
<1>1. PICK N \in SUBSET Names : IsFiniteSet(N) /\ book \in [N -> Numbers]
  BY DEF Books
<1>2. ASSUME NEW S \in SUBSET N PROVE [n \in S |-> book[n]] \in Books
  <2>1. [n \in S |-> book[n]] \in [S -> Numbers] /\ IsFiniteSet(S)
    BY <1>1, FS_Subset
  <2> QED BY <2>1 DEF Books
<1> QED BY <1>1, <1>2, BookAssumption

(* Calls between removals: they answer something else.                     *)
LEMMA OtherCallsKeep ==
  ASSUME BookInv, RemovalIdle, contacts' \in Books,
         bookAnswer'.kind \notin {"deduplicated", "catchy"}
  PROVE  BookInv'
BY DEF BookInv, RemovalIdle

LEMMA AddContactKeeps ==
  ASSUME BookInv, NEW name \in Names, NEW number \in Numbers, AddContact(name, number)
  PROVE  BookInv'
<1>1. PICK N \in SUBSET Names : IsFiniteSet(N) /\ contacts \in [N -> Numbers]
  BY DEF BookInv, Books
<1>2. contacts' \in [N \cup {name} -> Numbers] /\ IsFiniteSet(N \cup {name})
  BY <1>1, FS_AddElement DEF AddContact
<1>3. bookAnswer'.kind \notin {"deduplicated", "catchy"}
  BY DEF AddContact, Added, NoChange, Updated
<1> QED BY <1>2, <1>3, OtherCallsKeep DEF AddContact, Books

LEMMA DropKeeps ==
  ASSUME contacts \in Books, NEW S, Drop(S)
  PROVE  contacts' \in Books
BY BookFacts DEF Drop

LEMMA DeleteInvalidKeeps ==
  ASSUME BookInv, DeleteInvalidPhoneNumbers
  PROVE  BookInv'
<1>1. contacts' \in Books
  BY DropKeeps DEF BookInv, DeleteInvalidPhoneNumbers
<1> QED BY <1>1, OtherCallsKeep DEF DeleteInvalidPhoneNumbers, BookDone

LEMMA DeleteDuplicatesKeeps ==
  ASSUME BookInv, DeleteDuplicatePhoneNumbers
  PROVE  BookInv'
<1>1. /\ bookAt' = "best" /\ contacts' = contacts /\ original' = contacts
      /\ ranged' = DOMAIN contacts /\ DOMAIN bestName' = {}
      /\ bookAnswer'.kind = "done" /\ contacts \in Books
  BY DEF BookInv, DeleteDuplicatePhoneNumbers, None, BookDone
<1>2. VisitedNames' = {}
  BY <1>1 DEF VisitedNames
<1>3. BestAmong(VisitedNames)'
  BY <1>1, <1>2 DEF BestAmong
<1> QED BY <1>1, <1>3 DEF BookInv

LEMMA FindBestKeeps ==
  ASSUME BookInv, NEW name \in Names, FindBest(name)
  PROVE  BookInv'
<1> DEFINE number == Key(name)
<1>1. /\ name \in DOMAIN original /\ name \in ranged /\ contacts = original
      /\ BestAmong(VisitedNames) /\ bookAt = "best" /\ original \in Books
      /\ \A n \in DOMAIN original : n \in Int
  BY BookFacts DEF BookInv, FindBest
<1>2. /\ bestName' = IF ~Better(name, number) THEN bestName
                     ELSE [x \in DOMAIN bestName \cup {number} |->
                             IF x = number THEN name ELSE bestName[x]]
      /\ ranged' = ranged \ {name}
      /\ UNCHANGED <<contacts, bookAt, bookAnswer, original>>
  BY <1>1 DEF FindBest, Key
<1>3. /\ VisitedNames' = VisitedNames \cup {name} /\ name \notin VisitedNames
      /\ \A n : Key(n)' = Key(n)
  BY <1>1, <1>2 DEF VisitedNames, Key
<1>4. VisitedNames \subseteq Int /\ name \in Int
  BY <1>1 DEF VisitedNames
<1>5. BestAmong(VisitedNames)'
  <2>1. /\ DOMAIN bestName = {Key(n) : n \in VisitedNames}
        /\ \A x \in DOMAIN bestName : bestName[x] \in VisitedNames /\ Key(bestName[x]) = x
        /\ \A n \in VisitedNames : bestName[Key(n)] <= n
    BY <1>1 DEF BestAmong
  <2>2. DOMAIN bestName' = {Key(n) : n \in VisitedNames \cup {name}}
    BY <1>2, <2>1 DEF Better
  <2>3. ASSUME NEW x \in DOMAIN bestName'
        PROVE  bestName'[x] \in VisitedNames \cup {name} /\ Key(bestName'[x]) = x
    BY <1>2, <2>1, <2>2 DEF Better
  <2>4. ASSUME NEW n \in VisitedNames \cup {name}
        PROVE  bestName'[Key(n)] <= n
    <3>1. CASE Better(name, number)
      <4>1. bestName'[number] = name
        BY <1>2, <3>1
      <4>2. CASE Key(n) = number
        <5>1. n = name \/ number \in DOMAIN bestName
          BY <2>1, <4>2
        <5>2. n # name => name < bestName[number] /\ bestName[number] <= n
          BY <2>1, <3>1, <4>2, <5>1 DEF Better
        <5>3. number \in DOMAIN bestName => bestName[number] \in Int
          BY <1>4, <2>1
        <5> QED BY <1>4, <4>1, <4>2, <5>1, <5>2, <5>3
      <4>3. CASE Key(n) # number
        <5>1. n \in VisitedNames /\ Key(n) \in DOMAIN bestName
          BY <2>1, <4>3
        <5>2. bestName'[Key(n)] = bestName[Key(n)]
          BY <1>2, <3>1, <4>3, <5>1
        <5> QED BY <2>1, <5>1, <5>2
      <4> QED BY <4>2, <4>3
    <3>2. CASE ~Better(name, number)
      <4>1. number \in DOMAIN bestName /\ ~(name < bestName[number])
        BY <3>2 DEF Better
      <4>2. bestName[number] \in VisitedNames /\ bestName[number] \in Int
        BY <1>4, <2>1, <4>1
      <4>3. bestName[number] <= name
        <5> HIDE DEF number
        <5> QED BY <1>4, <4>1, <4>2
      <4> QED BY <1>2, <2>1, <3>2, <4>3
    <3> QED BY <3>1, <3>2
  <2> QED BY <1>3, <2>2, <2>3, <2>4 DEF BestAmong
<1> QED BY <1>1, <1>2, <1>5 DEF BookInv

LEMMA StartSweepKeeps ==
  ASSUME BookInv, StartSweep
  PROVE  BookInv'
<1>1. /\ original \in Books /\ contacts = original /\ ranged = {} /\ BestAmong(VisitedNames)
      /\ bookAt' = "sweep" /\ ranged' = DOMAIN original
      /\ UNCHANGED <<contacts, bestName, bookAnswer, original>>
      /\ bookAnswer.kind \notin {"deduplicated", "catchy"}
  BY DEF BookInv, StartSweep
<1>2. VisitedNames = DOMAIN original /\ VisitedNames' = {}
  BY <1>1 DEF VisitedNames
<1>3. BestAmong(DOMAIN original)'
  BY <1>1, <1>2 DEF BestAmong, Key
<1>4. Deleted' = {}
  BY <1>2 DEF Deleted
<1>5. contacts' = [n \in DOMAIN original' \ Deleted' |-> original'[n]]
  BY <1>1, <1>4, BookFacts
<1> QED BY <1>1, <1>3, <1>5 DEF BookInv

LEMMA SweepKeeps ==
  ASSUME BookInv, NEW name \in Names, Sweep(name)
  PROVE  BookInv'
<1>1. /\ original \in Books /\ contacts \in Books /\ name \in ranged
      /\ ranged \subseteq DOMAIN original
      /\ bookAt = "sweep" /\ ranged' = ranged \ {name}
      /\ UNCHANGED <<bookAt, bestName, bookAnswer, original>>
      /\ BestAmong(DOMAIN original) /\ bookAnswer.kind \notin {"deduplicated", "catchy"}
      /\ contacts = [n \in DOMAIN original \ Deleted |-> original[n]]
  BY DEF BookInv, Sweep
<1>2. name \notin VisitedNames /\ VisitedNames' = VisitedNames \cup {name} /\ name \in DOMAIN original
  BY <1>1 DEF VisitedNames
<1>3. name \in DOMAIN contacts /\ contacts[name] = original[name]
  BY <1>1, <1>2 DEF Deleted
<1>4. Drop(IF bestName[Key(name)] = name THEN {} ELSE {name})
  BY <1>3 DEF Sweep, Key
<1>5. Deleted' = Deleted \cup (IF bestName[Key(name)] = name THEN {} ELSE {name})
  BY <1>1, <1>2 DEF Deleted, Key
<1>6. contacts' = [n \in DOMAIN original \ Deleted' |-> original[n]]
  BY <1>1, <1>4, <1>5 DEF Drop
<1>7. contacts' \in Books
  BY <1>1, <1>4, DropKeeps
<1>8. BestAmong(DOMAIN original)'
  BY <1>1 DEF BestAmong, Key
<1> QED BY <1>1, <1>6, <1>7, <1>8 DEF BookInv

LEMMA EndSweepKeeps ==
  ASSUME BookInv, EndSweep
  PROVE  BookInv'
<1>1. /\ original \in Books /\ contacts \in Books /\ ranged = {}
      /\ BestAmong(DOMAIN original)
      /\ contacts = [n \in DOMAIN original \ Deleted |-> original[n]]
  BY DEF BookInv, EndSweep
<1>2. /\ bookAt' = "idle" /\ contacts' = contacts /\ ranged' = {} /\ original' = None
      /\ bookAnswer' = [kind |-> "deduplicated", of |-> original]
  BY <1>1 DEF EndSweep
<1> DEFINE first(n) == \A m \in DOMAIN original : SameNumber(original[m], original[n]) => n <= m
<1>3. ASSUME NEW n \in DOMAIN original
      PROVE  bestName[Key(n)] = n <=> first(n)
  <2>1. Key(n) \in DOMAIN bestName
    BY <1>1 DEF BestAmong
  <2>2. bestName[Key(n)] \in DOMAIN original /\ Key(bestName[Key(n)]) = Key(n)
    BY <1>1, <2>1 DEF BestAmong
  <2>3. \A m \in DOMAIN original : m \in Int /\ (SameNumber(original[m], original[n]) <=> Key(m) = Key(n))
    BY <1>1, BookFacts, SameNormalized DEF Key
  <2>4. ASSUME bestName[Key(n)] = n PROVE first(n)
    BY <1>1, <2>3, <2>4 DEF BestAmong
  <2>5. ASSUME first(n) PROVE bestName[Key(n)] = n
    <3>1. n <= bestName[Key(n)]
      BY <2>2, <2>3, <2>5
    <3>2. bestName[Key(n)] <= n
      BY <1>1 DEF BestAmong
    <3> QED BY <2>2, <2>3, <3>1, <3>2
  <2> QED BY <2>4, <2>5
<1>4. DOMAIN original \ Deleted = {n \in DOMAIN original : first(n)}
  BY <1>1, <1>3 DEF Deleted, VisitedNames
<1>5. contacts = [n \in {m \in DOMAIN original : first(m)} |-> original[n]]
  BY <1>1, <1>4
<1>6. FirstOfEachNumber'
  BY <1>2, <1>5 DEF FirstOfEachNumber
<1> QED BY <1>1, <1>2, <1>6, NoBook DEF BookInv

-----------------------------------------------------------------------------
(* The number of digits that match is a number.                            *)
LEMMA ScoreIsInt ==
  ASSUME NEW number \in Seq(Int), Len(number) >= 2
  PROVE  ScoreOf(number) \in Int
<1> DEFINE s == SubSeq(number, 3, Len(number))
           n == Len(s)
           triples == {i \in 1..n - 2 : s[i] = s[i+1] /\ s[i+1] = s[i+2]}
           runs == {i \in 1..n - 3 : Atoi(s[i+2], s[i+3]) - Atoi(s[i], s[i+1]) \in {-1, 1}}
           mirrors == {i \in 1..n - 3 : s[i] = s[i+3] /\ s[i+1] = s[i+2]}
<1>1. n \in Nat
  <2>1. Len(number) \in Nat
    BY LenProperties
  <2>2. s \in Seq(Int)
    <3>1. \A i \in 3..Len(number) : i \in 1..Len(number)
      BY <2>1
    <3> QED BY <2>1, <3>1, SubSeqProperties
  <2> QED BY <2>2, LenProperties
<1> HIDE DEF s
<1>2. ASSUME NEW k \in Int, NEW S \in SUBSET (1..k)
      PROVE  Cardinality(S) \in Nat
  <2>1. IsFiniteSet(1..k)
    BY FS_Interval
  <2>2. IsFiniteSet(S)
    BY <2>1, FS_Subset
  <2> QED BY <2>2, FS_CardinalityType
<1>3. n - 2 \in Int /\ n - 3 \in Int
  BY <1>1
<1>4. triples \in SUBSET (1..n - 2) /\ runs \in SUBSET (1..n - 3) /\ mirrors \in SUBSET (1..n - 3)
  OBVIOUS
<1> HIDE DEF n, triples, runs, mirrors
<1>5. Cardinality(triples) \in Nat /\ Cardinality(runs) \in Nat /\ Cardinality(mirrors) \in Nat
  BY <1>2, <1>3, <1>4
<1>6. ScoreOf(number) = 10 * Cardinality(triples) + 15 * Cardinality(runs) + 20 * Cardinality(mirrors)
  BY DEF ScoreOf, Score, s, n, triples, runs, mirrors
<1> QED BY <1>5, <1>6

(* What the first names of an order that are passed on to the caller are.  *)
LEMMA FirstOnes ==
  ASSUME contacts \in Books, NEW names \in Orders
  PROVE  LET n == Cardinality(DOMAIN contacts) IN
         /\ n \in Nat /\ names \in [1..n -> DOMAIN contacts] /\ Len(names) = n
         /\ \A i, j \in 1..n : i # j => names[i] # names[j]
         /\ \A d \in DOMAIN contacts : \E i \in 1..n : names[i] = d
         /\ \A k \in 0..n :
              /\ IsFiniteSet({names[i] : i \in 1..k})
              /\ Cardinality({names[i] : i \in 1..k}) = k
<1> DEFINE n == Cardinality(DOMAIN contacts)
<1>1. IsFiniteSet(DOMAIN contacts) /\ n \in Nat
  BY BookFacts, FS_CardinalityType
<1>2. /\ names \in [1..n -> DOMAIN contacts]
      /\ \A i, j \in 1..n : i # j => names[i] # names[j]
  BY DEF Orders, SetToSeqs
<1> HIDE DEF n
<1>3. Len(names) = n
  BY <1>1, <1>2, LenProperties
<1>4. ASSUME NEW k \in 0..n
      PROVE  /\ IsFiniteSet({names[i] : i \in 1..k})
             /\ Cardinality({names[i] : i \in 1..k}) = k
  <2> DEFINE f == [i \in 1..k |-> names[i]]
             T == {names[i] : i \in 1..k}
  <2>1. k \in Nat /\ 1..k \subseteq 1..n
    BY <1>1
  <2>2. f \in Bijection(1..k, T)
    <3>1. f \in [1..k -> T]
      OBVIOUS
    <3>2. \A i, j \in 1..k : f[i] = f[j] => i = j
      BY <1>2, <2>1
    <3>3. \A t \in T : \E i \in 1..k : f[i] = t
      OBVIOUS
    <3> QED BY <3>1, <3>2, <3>3 DEF Bijection, Injection, Surjection, IsInjective
  <2>3. IsFiniteSet(1..k) /\ Cardinality(1..k) = k
    BY <2>1, FS_Interval
  <2> HIDE DEF f, T
  <2>4. IsFiniteSet(T) /\ Cardinality(T) = k
    BY <2>2, <2>3, FS_Bijection DEF ExistsBijection
  <2> QED BY <2>4 DEF T
<1>5. \A d \in DOMAIN contacts : \E i \in 1..n : names[i] = d
  <2>1. {names[i] : i \in 1..n} \in SUBSET DOMAIN contacts
    BY <1>2
  <2>2. n \in 0..n
    BY <1>1
  <2>3. {names[i] : i \in 1..n} = DOMAIN contacts
    BY <1>1, <1>4, <2>1, <2>2, FS_Subset DEF n
  <2> QED BY <2>3
<1> QED BY <1>1, <1>2, <1>3, <1>4, <1>5 DEF n

LEMMA FindCatchyKeeps ==
  ASSUME BookInv, FindCatchyPhoneNumbers
  PROVE  BookInv'
<1> DEFINE n == Cardinality(DOMAIN contacts)
           score(d) == ScoreOf(contacts[d])
           beaters(d) == {m \in DOMAIN contacts : score(m) > score(d)}
           chosen == {d \in DOMAIN contacts : Cardinality(beaters(d)) < 3}
<1>1. PICK names \in Orders, limit \in 0..n :
        /\ BestThree(names, limit)
        /\ bookAnswer' = [kind |-> "catchy",
                          numbers |-> [i \in 1..limit |-> contacts[names[i]]]]
  BY DEF FindCatchyPhoneNumbers
<1>2. /\ contacts \in Books /\ bookAt = "idle" /\ ~TooShort
      /\ UNCHANGED <<contacts, bookAt, ranged, bestName, original>>
  BY DEF BookInv, FindCatchyPhoneNumbers
<1>3. /\ n \in Nat /\ names \in [1..n -> DOMAIN contacts] /\ Len(names) = n
      /\ \A i, j \in 1..n : i # j => names[i] # names[j]
      /\ \A d \in DOMAIN contacts : \E i \in 1..n : names[i] = d
      /\ \A k \in 0..n :
           /\ IsFiniteSet({names[i] : i \in 1..k})
           /\ Cardinality({names[i] : i \in 1..k}) = k
  BY <1>1, <1>2, FirstOnes
<1>4. \A d \in DOMAIN contacts : score(d) \in Int
  BY <1>2, BookFacts, LenProperties, ScoreIsInt DEF TooShort
<1>5. \A i, j \in 1..n : i < j => ~(score(names[j]) > score(names[i]))
  BY <1>1, <1>3 DEF Orders, Catchier
<1>6. /\ limit \in 0..n
      /\ n <= 3 => limit = n
      /\ ~(n <= 3) => /\ limit \in 3..n
                      /\ \A i \in 4..limit : score(names[i]) = score(names[3])
                      /\ limit < n => score(names[limit + 1]) # score(names[3])
  BY <1>1, <1>3 DEF BestThree
<1>7. IsFiniteSet(DOMAIN contacts)
  BY <1>2, BookFacts
<1>8. \A d : beaters(d) \in SUBSET DOMAIN contacts
  OBVIOUS
<1>9. \A d : IsFiniteSet(beaters(d)) /\ Cardinality(beaters(d)) \in Nat
  BY <1>7, <1>8, FS_Subset, FS_CardinalityType
<1> HIDE DEF n, score, beaters
<1>10. ASSUME NEW i \in 1..limit PROVE Cardinality(beaters(names[i])) < 3
  <2> DEFINE k == IF i <= 3 THEN i - 1 ELSE 2
  <2>1. k \in 0..n /\ k < 3 /\ i \in 1..n
    BY <1>3, <1>6
  <2>2. ASSUME NEW j \in 1..n, score(names[j]) > score(names[i]) PROVE j \in 1..k
    <3>1. score(names[j]) \in Int /\ score(names[i]) \in Int /\ i # j
      BY <1>3, <1>4, <2>1, <2>2
    <3>2. j < i
      BY <1>5, <2>1, <2>2, <3>1
    <3>3. CASE i <= 3
      BY <3>2, <3>3
    <3>4. CASE ~(i <= 3)
      <4>1. ~(n <= 3) /\ 3 \in 1..n /\ score(names[i]) = score(names[3])
        BY <1>3, <1>6, <2>1, <3>4
      <4>2. j # 3 /\ ~(3 < j)
        BY <1>5, <2>1, <2>2, <3>1, <4>1
      <4> QED BY <3>4, <4>2
    <3> QED BY <3>3, <3>4
  <2>3. beaters(names[i]) \in SUBSET {names[j] : j \in 1..k}
    <3> SUFFICES ASSUME NEW d \in DOMAIN contacts, score(d) > score(names[i])
                 PROVE  d \in {names[j] : j \in 1..k}
      BY DEF beaters
    <3> HIDE DEF k
    <3>1. PICK j \in 1..n : names[j] = d
      BY <1>3
    <3> QED BY <2>2, <3>1
  <2> HIDE DEF k
  <2>4. /\ IsFiniteSet({names[j] : j \in 1..k})
        /\ Cardinality({names[j] : j \in 1..k}) = k
    BY <1>3, <2>1
  <2>5. Cardinality(beaters(names[i])) <= k
    BY <2>3, <2>4, FS_Subset
  <2> QED BY <1>9, <2>1, <2>5
<1>11. ASSUME NEW i \in 1..n, ~(i <= limit) PROVE ~(Cardinality(beaters(names[i])) < 3)
  <2>1. /\ ~(n <= 3) /\ limit \in 3..n /\ limit < n /\ limit + 1 \in 1..n /\ 3 \in 1..n /\ 3 < limit + 1
        /\ score(names[limit + 1]) # score(names[3])
    BY <1>3, <1>6, <1>11
  <2>2. /\ score(names[i]) \in Int /\ score(names[limit + 1]) \in Int /\ score(names[3]) \in Int
        /\ ~(score(names[limit + 1]) > score(names[3]))
        /\ i = limit + 1 \/ ~(score(names[i]) > score(names[limit + 1]))
    <3>1. i = limit + 1 \/ limit + 1 < i
      BY <1>3, <1>6, <1>11
    <3> QED BY <1>3, <1>4, <1>5, <2>1, <3>1
  <2>3. score(names[3]) > score(names[i])
    BY <2>1, <2>2
  <2>4. ASSUME NEW j \in 1..3 PROVE names[j] \in beaters(names[i])
    <3>1. j \in 1..n /\ (j = 3 \/ j < 3)
      BY <1>3, <2>1
    <3>2. score(names[j]) \in Int /\ (j = 3 \/ ~(score(names[3]) > score(names[j])))
      BY <1>3, <1>4, <1>5, <2>1, <3>1
    <3>3. score(names[j]) > score(names[i])
      BY <2>2, <2>3, <3>2
    <3> QED BY <1>3, <3>1, <3>3 DEF beaters
  <2>5. {names[j] : j \in 1..3} \in SUBSET beaters(names[i])
    BY <2>4
  <2>6. 3 \in 0..n
    BY <1>3, <2>1
  <2>7. Cardinality({names[j] : j \in 1..3}) = 3
    BY <1>3, <2>6
  <2>8. Cardinality({names[j] : j \in 1..3}) <= Cardinality(beaters(names[i]))
    BY <1>9, <2>5, FS_Subset
  <2> QED BY <1>9, <2>7, <2>8
<1>12. chosen = {names[i] : i \in 1..limit}
  <2>1. ASSUME NEW i \in 1..limit PROVE names[i] \in chosen
    <3>1. i \in 1..n
      BY <1>3, <1>6
    <3> QED BY <1>3, <1>10, <3>1
  <2>2. ASSUME NEW d \in chosen PROVE d \in {names[i] : i \in 1..limit}
    <3>1. PICK i \in 1..n : names[i] = d
      BY <1>3
    <3>2. i \in 1..limit
      BY <1>3, <1>6, <1>11, <3>1
    <3> QED BY <3>1, <3>2
  <2> QED BY <2>1, <2>2
<1> DEFINE numbers == [i \in 1..limit |-> contacts[names[i]]]
<1>13. limit \in Nat /\ Len(numbers) = limit /\ DOMAIN numbers = 1..limit
  BY <1>3, <1>6
<1>14. Len(numbers) = Cardinality(chosen)
  BY <1>3, <1>6, <1>12, <1>13
<1>15. ASSUME NEW d \in chosen
       PROVE  Cardinality({m \in chosen : contacts[m] = contacts[d]})
                = Cardinality({i \in DOMAIN numbers : numbers[i] = contacts[d]})
  <2> DEFINE S == {i \in 1..limit : numbers[i] = contacts[d]}
             T == {m \in chosen : contacts[m] = contacts[d]}
             f == [i \in S |-> names[i]]
  <2>1. f \in [S -> T]
    BY <1>12
  <2>2. \A i, j \in S : f[i] = f[j] => i = j
    <3>1. \A i \in S : i \in 1..n
      BY <1>3, <1>6
    <3> QED BY <1>3, <3>1
  <2>3. \A t \in T : \E i \in S : f[i] = t
    BY <1>12
  <2>4. f \in Bijection(S, T)
    BY <2>1, <2>2, <2>3 DEF Bijection, Injection, Surjection, IsInjective
  <2>5. IsFiniteSet(1..limit) /\ S \in SUBSET (1..limit)
    BY <1>13, FS_Interval
  <2>6. IsFiniteSet(S)
    BY <2>5, FS_Subset
  <2> HIDE DEF f, S, T
  <2>7. Cardinality(T) = Cardinality(S)
    BY <2>4, <2>6, FS_Bijection DEF ExistsBijection
  <2> QED BY <1>13, <2>7 DEF S, T
<1>16. \A i \in 2..Len(numbers) : ScoreOf(numbers[i]) <= ScoreOf(numbers[i - 1])
  <2> SUFFICES ASSUME NEW i \in 2..limit PROVE ScoreOf(numbers[i]) <= ScoreOf(numbers[i - 1])
    BY <1>13
  <2>1. i \in 1..n /\ i - 1 \in 1..n /\ i - 1 < i /\ i \in 1..limit /\ i - 1 \in 1..limit
    BY <1>3, <1>6, <1>13
  <2>2. ~(score(names[i]) > score(names[i - 1])) /\ score(names[i]) \in Int /\ score(names[i - 1]) \in Int
    BY <1>3, <1>4, <1>5, <2>1
  <2>3. numbers[i] = contacts[names[i]] /\ numbers[i - 1] = contacts[names[i - 1]]
    BY <2>1
  <2> QED BY <2>2, <2>3 DEF score
<1> HIDE DEF numbers, chosen
<1>17. CatchiestChosen'
  <2>1. contacts' = contacts /\ bookAnswer'.numbers = numbers
    BY <1>1, <1>2 DEF numbers
  <2>2. chosen = {d \in DOMAIN contacts :
                    Cardinality({m \in DOMAIN contacts :
                                   ScoreOf(contacts[m]) > ScoreOf(contacts[d])}) < 3}
    BY DEF chosen, beaters, score
  <2>3. Catchiest(contacts, numbers)
    BY <1>14, <1>15, <1>16, <2>2 DEF Catchiest
  <2> QED BY <2>1, <2>3 DEF CatchiestChosen
<1>18. UNCHANGED <<VisitedNames, Deleted>> /\ TooShort' = TooShort
  BY <1>2 DEF VisitedNames, Deleted, TooShort, Key
<1>19. bookAnswer'.kind = "catchy"
  BY <1>1
<1> QED BY <1>2, <1>17, <1>18, <1>19 DEF BookInv

LEMMA BookKeeps == BookInv /\ [BookNext]_bookVars => BookInv'
<1> SUFFICES ASSUME BookInv, [BookNext]_bookVars PROVE BookInv'
  OBVIOUS
<1>1. ASSUME NEW name \in Names, NEW number \in Numbers, AddContact(name, number)
      PROVE  BookInv'
  BY <1>1, AddContactKeeps
<1>2. CASE DeleteInvalidPhoneNumbers
  BY <1>2, DeleteInvalidKeeps
<1>3. CASE DeleteDuplicatePhoneNumbers
  BY <1>3, DeleteDuplicatesKeeps
<1>4. ASSUME NEW name \in Names, FindBest(name) \/ Sweep(name)
      PROVE  BookInv'
  BY <1>4, FindBestKeeps, SweepKeeps
<1>5. CASE StartSweep
  BY <1>5, StartSweepKeeps
<1>6. CASE EndSweep
  BY <1>6, EndSweepKeeps
<1>7. CASE FindCatchyPhoneNumbers
  BY <1>7, FindCatchyKeeps
<1>8. CASE Panic
  <2>1. /\ bookAt = "idle" /\ TooShort /\ bookAt' = "crashed"
        /\ UNCHANGED <<contacts, ranged, bestName, bookAnswer, original>>
    BY <1>8 DEF Panic
  <2> QED BY <2>1 DEF BookInv, TooShort, FirstOfEachNumber, CatchiestChosen
<1>9. CASE UNCHANGED bookVars
  <2>1. UNCHANGED <<contacts, bookAt, ranged, bestName, bookAnswer, original>>
    BY <1>9 DEF bookVars
  <2>2. /\ UNCHANGED <<VisitedNames, Deleted>> /\ TooShort' = TooShort
        /\ BestAmong(VisitedNames)' = BestAmong(VisitedNames)
        /\ BestAmong(DOMAIN original)' = BestAmong(DOMAIN original)
        /\ FirstOfEachNumber' = FirstOfEachNumber
        /\ CatchiestChosen' = CatchiestChosen
    BY <2>1 DEF VisitedNames, Deleted, TooShort, BestAmong, Key, FirstOfEachNumber, CatchiestChosen
  <2> QED BY <2>1, <2>2 DEF BookInv
<1> QED BY <1>1, <1>2, <1>3, <1>4, <1>5, <1>6, <1>7, <1>8, <1>9 DEF BookNext

LEMMA BookImplies == BookInv => BookTypeOK /\ FirstOfEachNumber /\ CatchiestChosen
<1> SUFFICES ASSUME BookInv PROVE BookTypeOK /\ FirstOfEachNumber /\ CatchiestChosen
  OBVIOUS
<1>1. FirstOfEachNumber /\ CatchiestChosen
  BY DEF BookInv, FirstOfEachNumber, CatchiestChosen
<1>2. DOMAIN contacts \subseteq Names /\ Range(contacts) \subseteq Numbers
  BY BookFacts DEF BookInv, Range
<1>3. TooShort => \E n \in DOMAIN contacts : ~Valid(contacts[n])
  <2> SUFFICES ASSUME NEW n \in DOMAIN contacts, Len(contacts[n]) < 2
               PROVE  ~Valid(contacts[n])
    BY DEF TooShort
  <2>1. Len(contacts[n]) \in Nat
    BY BookFacts, LenProperties DEF BookInv
  <2>2. ~(Len(contacts[n]) >= 2)
    BY <2>1
  <2> QED BY <2>2 DEF Valid, National, International
<1> QED BY <1>1, <1>2, <1>3 DEF BookInv, BookTypeOK

(* Types of the phone book, for any names and numbers; and that only a     *)
(* book with an invalid number crashes FindCatchyPhoneNumbers.             *)
THEOREM BookTypeCorrect == BookSpec => []BookTypeOK
<1> QED BY BookStarts, BookKeeps, BookImplies, PTL DEF BookSpec

(* DeleteDuplicatePhoneNumbers keeps, of the contacts that share a number, *)
(* the first by name, in whatever order the two passes range over the map. *)
THEOREM BookFirstOfEach == BookSpec => []FirstOfEachNumber
<1> QED BY BookStarts, BookKeeps, BookImplies, PTL DEF BookSpec

(* For any book FindCatchyPhoneNumbers answers the numbers that fewer than *)
(* three contacts beat, each as often as it is in the book, the best       *)
(* first, in whatever order the sort leaves equal ones.                    *)
THEOREM BookCatchiest == BookSpec => []CatchiestChosen
<1> QED BY BookStarts, BookKeeps, BookImplies, PTL DEF BookSpec

-----------------------------------------------------------------------------
OrNil == AllSlots \cup {Nil}

(* Types, in which a loop over a nest visits slots of that nest.           *)
HangarTypes ==
  /\ oldNest \in [Range(OldSlots) -> OrNil] /\ newNest \in [Range(NewSlots) -> OrNil]
  /\ HangarTypeOK
  /\ spare \in [Kinds -> Seq(OrNil)] /\ slotsLeft \in Seq(AllSlots)
  /\ stage \in {"queue parts", "queue engines"} => Range(slotsLeft) \subseteq Range(OldSlots)
  /\ stage \in {"fill slots", "hang engines"} => Range(slotsLeft) \subseteq Range(NewSlots)
  /\ stage = "idle" => \A k \in Kinds : spare[k] = <<>>
  /\ stage = "queue parts" => oldNest = before.old

(* No part is queued twice; nor is a slot of the old nest visited twice.   *)
NoRepeat(q) == \A i, j \in DOMAIN q : q[i] = q[j] => i = j \/ q[i] = Nil
Passed(loop, y) == stage = loop => y \notin Range(slotsLeft)
NoneTwice ==
  /\ \A k \in Kinds : NoRepeat(spare[k])
  /\ stage \in {"queue parts", "queue engines"} => NoRepeat(slotsLeft)

(* The queues hold what hangs in the old nest's slots visited.             *)
PartsQueued ==
  stage \in {"queue parts", "fill slots"} =>
    /\ \A k \in Kinds \ {"engine"} : \A p \in Range(spare[k]) \ {Nil} :
         \E y \in DOMAIN oldNest : y.kind = k /\ oldNest[y] = p /\ Passed("queue parts", y)
    /\ \A y \in DOMAIN oldNest :
         oldNest[y] # Nil /\ Passed("queue parts", y) => oldNest[y] \in Range(spare[y.kind])
    /\ spare["engine"] = <<>>

EnginesQueued ==
  stage \in {"queue engines", "hang engines"} =>
    /\ \A e \in Range(spare["engine"]) :
         \E y \in DOMAIN oldNest :
           /\ y.kind = "wing" /\ Hanging(oldNest[y]) /\ engineOf[oldNest[y]] = e
           /\ Passed("queue engines", y)
    /\ \A y \in DOMAIN oldNest :
         y.kind = "wing" /\ Hanging(oldNest[y]) /\ Passed("queue engines", y)
           => engineOf[oldNest[y]] \in Range(spare["engine"])

(* Of a kind whose donor slots were all filled, no nil is queued.          *)
AllDonors(k) == \A y \in DOMAIN oldNest : y.kind = k => before.old[y] # Nil
NoneLeft(k) == \A y \in DOMAIN oldNest : y.kind = k => oldNest[y] = Nil
NoNilQueued ==
  stage \in {"queue parts", "fill slots"} =>
    \A k \in Kinds \ {"engine"} : AllDonors(k) => Nil \notin Range(spare[k])

(* What the loops have passed by needed nothing, or nothing was left.      *)
SlotsServed ==
  \A x \in DOMAIN newNest :
    newNest[x] = Nil /\ AllDonors(x.kind) =>
      /\ stage = "fill slots" /\ Passed("fill slots", x) => spare[x.kind] = <<>>
      /\ stage \in {"queue engines", "hang engines", "repaired"} => NoneLeft(x.kind)
WingsServed ==
  \A x \in DOMAIN newNest :
    x.kind = "wing" /\ newNest[x] # Nil /\ engineOf[newNest[x]] = Nil =>
      /\ stage = "hang engines" /\ Passed("hang engines", x) => spare["engine"] = <<>>
      /\ stage = "repaired" =>
           \A y \in DOMAIN oldNest : y.kind = "wing" => ~Hanging(oldNest[y])

HangarInv ==
  /\ HangarTypes /\ NoneTwice /\ PartsQueued /\ EnginesQueued
  /\ NoNilQueued /\ SlotsServed /\ WingsServed /\ Conserved

-----------------------------------------------------------------------------
(* The first of a queue, and the rest.                                     *)
LEMMA FirstAndRest ==
  ASSUME NEW S, NEW q \in Seq(S), q # <<>>
  PROVE  /\ Head(q) \in S /\ Tail(q) \in Seq(S)
         /\ Range(q) = {Head(q)} \cup Range(Tail(q))
         /\ NoRepeat(q) => NoRepeat(Tail(q)) /\ (Head(q) \in Range(Tail(q)) => Head(q) = Nil)
<1>1. /\ Head(q) \in S /\ Tail(q) \in Seq(S) /\ Len(Tail(q)) = Len(q) - 1
      /\ \A i \in 1..Len(q) - 1 : Tail(q)[i] = q[i + 1]
  BY HeadTailProperties
<1>2. Len(q) \in Nat \ {0} /\ Head(q) = q[1]
  BY EmptySeq
<1>3. DOMAIN q = 1..Len(q) /\ DOMAIN Tail(q) = 1..Len(q) - 1
  BY <1>1, LenProperties
<1>4. \A i \in 1..Len(q) - 1 : i + 1 \in 1..Len(q) /\ i + 1 # 1
  BY <1>2
<1>5. \A i \in 1..Len(q) : i = 1 \/ \E j \in 1..Len(q) - 1 : i = j + 1
  <2> SUFFICES ASSUME NEW i \in 1..Len(q), i # 1
               PROVE  i - 1 \in 1..Len(q) - 1 /\ i = (i - 1) + 1
    OBVIOUS
  <2> QED BY <1>2
<1>6. Range(q) = {Head(q)} \cup Range(Tail(q))
  <2> DEFINE t == Tail(q)
  <2>1. DOMAIN t = 1..Len(q) - 1 /\ \A i \in 1..Len(q) - 1 : t[i] = q[i + 1]
    BY <1>1, <1>3
  <2> HIDE DEF t
  <2>2. Range(t) = {q[i + 1] : i \in 1..Len(q) - 1}
    BY <2>1 DEF Range
  <2>3. Range(q) = {q[i] : i \in 1..Len(q)} /\ 1 \in 1..Len(q)
    BY <1>2, <1>3 DEF Range
  <2>4. {q[i] : i \in 1..Len(q)} \subseteq {q[1]} \cup {q[i + 1] : i \in 1..Len(q) - 1}
    BY <1>5
  <2>5. {q[i + 1] : i \in 1..Len(q) - 1} \subseteq {q[i] : i \in 1..Len(q)}
    BY <1>4
  <2>6. Range(q) = {q[1]} \cup Range(t)
    BY <2>2, <2>3, <2>4, <2>5
  <2> QED BY <1>2, <2>6 DEF t
<1>7. ASSUME NoRepeat(q) PROVE NoRepeat(Tail(q))
  <2> SUFFICES ASSUME NEW i \in 1..Len(q) - 1, NEW j \in 1..Len(q) - 1, Tail(q)[i] = Tail(q)[j]
               PROVE  i = j \/ Tail(q)[i] = Nil
    BY <1>3 DEF NoRepeat
  <2>1. q[i + 1] = q[j + 1] /\ Tail(q)[i] = q[i + 1]
    BY <1>1
  <2>2. i + 1 = j + 1 \/ q[i + 1] = Nil
    BY <1>3, <1>4, <1>7, <2>1 DEF NoRepeat
  <2> QED BY <2>1, <2>2
<1>8. ASSUME NoRepeat(q), Head(q) \in Range(Tail(q)) PROVE Head(q) = Nil
  <2>1. PICK i \in 1..Len(q) - 1 : Tail(q)[i] = q[1]
    BY <1>2, <1>3, <1>8 DEF Range
  <2>2. q[i + 1] = q[1] /\ 1 \in 1..Len(q)
    BY <1>1, <1>2, <2>1
  <2> QED BY <1>2, <1>3, <1>4, <1>8, <2>2 DEF NoRepeat
<1> QED BY <1>1, <1>6, <1>7, <1>8

(* A queue with one more at its end.                                       *)
LEMMA OneMore ==
  ASSUME NEW S, NEW q \in Seq(S), NEW e \in S
  PROVE  /\ Append(q, e) \in Seq(S)
         /\ Range(Append(q, e)) = Range(q) \cup {e}
         /\ NoRepeat(q) /\ (e \in Range(q) => e = Nil) => NoRepeat(Append(q, e))
<1>1. /\ Append(q, e) \in Seq(S) /\ Len(Append(q, e)) = Len(q) + 1
      /\ \A i \in 1..Len(q) : Append(q, e)[i] = q[i]
      /\ Append(q, e)[Len(q) + 1] = e
  BY AppendProperties
<1>2. /\ Len(q) \in Nat /\ DOMAIN q = 1..Len(q)
      /\ DOMAIN Append(q, e) = 1..Len(q) + 1
  BY <1>1, LenProperties
<1>3. \A i \in 1..Len(q) + 1 : i \in 1..Len(q) \/ i = Len(q) + 1
  BY <1>2
<1>4. 1..Len(q) \subseteq 1..Len(q) + 1 /\ Len(q) + 1 \in 1..Len(q) + 1
  BY <1>2
<1>5. Range(Append(q, e)) = Range(q) \cup {e}
  <2> DEFINE a == Append(q, e)
  <2>1. \A i \in 1..Len(q) : a[i] = q[i]
    BY <1>1
  <2>2. a[Len(q) + 1] = e
    BY <1>1
  <2>3. DOMAIN a = 1..Len(q) + 1
    BY <1>2
  <2> HIDE DEF a
  <2>4. Range(a) = Range(q) \cup {e}
    BY <1>2, <1>3, <1>4, <2>1, <2>2, <2>3 DEF Range
  <2> QED BY <2>4 DEF a
<1>6. ASSUME NoRepeat(q), e \in Range(q) => e = Nil PROVE NoRepeat(Append(q, e))
  <2> SUFFICES ASSUME NEW i \in 1..Len(q) + 1, NEW j \in 1..Len(q) + 1,
                      Append(q, e)[i] = Append(q, e)[j]
               PROVE  i = j \/ Append(q, e)[i] = Nil
    BY <1>2 DEF NoRepeat
  <2>1. CASE i \in 1..Len(q) /\ j \in 1..Len(q)
    BY <1>1, <1>2, <1>6, <2>1 DEF NoRepeat
  <2>2. CASE i = Len(q) + 1 /\ j \in 1..Len(q)
    <3>1. q[j] = e /\ e \in Range(q)
      BY <1>1, <1>2, <2>2 DEF Range
    <3> QED BY <1>1, <1>6, <2>2, <3>1
  <2>3. CASE j = Len(q) + 1 /\ i \in 1..Len(q)
    <3>1. q[i] = e /\ e \in Range(q)
      BY <1>1, <1>2, <2>3 DEF Range
    <3> QED BY <1>1, <1>6, <2>3, <3>1
  <2> QED BY <1>3, <2>1, <2>2, <2>3
<1> QED BY <1>1, <1>5, <1>6

LEMMA NoneQueued == Range(<<>>) = {} /\ NoRepeat(<<>>)
BY DEF Range, NoRepeat

(* The slots, apart from Nil and in one nest each.                         *)
LEMMA SlotsApart ==
  /\ Range(OldSlots) \subseteq AllSlots /\ Range(NewSlots) \subseteq AllSlots
  /\ NoRepeat(OldSlots) /\ Nil \notin AllSlots
  /\ \A x \in AllSlots : x.kind \in Kinds /\ x.kind # "engine"
BY HangarAssumption DEF AllSlots, NoRepeat, IsInjective

(* What is in the nests, slot by slot.                                     *)
LEMMA InTheNests ==
  ASSUME HangarTypes
  PROVE  /\ DOMAIN oldNest = Range(OldSlots) /\ DOMAIN newNest = Range(NewSlots)
         /\ \A y \in DOMAIN oldNest :
              /\ oldNest[y] \in OrNil /\ y \in AllSlots
              /\ oldNest[y] # Nil => oldNest[y] \in Parts(oldNest) /\ oldNest[y].kind = y.kind
         /\ \A x \in DOMAIN newNest :
              /\ newNest[x] \in OrNil /\ x \in AllSlots
              /\ newNest[x] # Nil => newNest[x] \in Parts(newNest) /\ newNest[x].kind = x.kind
         /\ \A p \in Parts(oldNest) : \E y \in DOMAIN oldNest : oldNest[y] = p /\ p # Nil
         /\ \A p \in Parts(newNest) : \E x \in DOMAIN newNest : newNest[x] = p /\ p # Nil
BY SlotsApart DEF HangarTypes, HangarTypeOK, Parts, Range, OrNil

(* The slot a loop visits, and those left.                                 *)
LEMMA SlotVisited ==
  ASSUME HangarTypes, NoneTwice, slotsLeft # <<>>, Visited
  PROVE  /\ slot \in AllSlots /\ slot # Nil
         /\ slotsLeft' \in Seq(AllSlots)
         /\ Range(slotsLeft) = {slot} \cup Range(slotsLeft')
         /\ UNCHANGED <<stage, before>>
         /\ stage \in {"queue parts", "queue engines"} => /\ slot \in DOMAIN oldNest
                                                         /\ slot \notin Range(slotsLeft')
                                                         /\ NoRepeat(slotsLeft')
         /\ stage \in {"fill slots", "hang engines"} => slot \in DOMAIN newNest
<1>0. slotsLeft \in Seq(AllSlots) /\ slotsLeft' = Tail(slotsLeft) /\ slot = Head(slotsLeft)
  BY DEF HangarTypes, Visited, slot
<1>1. /\ slot \in AllSlots /\ slot # Nil /\ slotsLeft' \in Seq(AllSlots)
      /\ Range(slotsLeft) = {slot} \cup Range(slotsLeft')
      /\ NoRepeat(slotsLeft) => NoRepeat(slotsLeft') /\ slot \notin Range(slotsLeft')
  <2> HIDE DEF slot
  <2>1. /\ slot \in AllSlots /\ Tail(slotsLeft) \in Seq(AllSlots)
        /\ Range(slotsLeft) = {slot} \cup Range(Tail(slotsLeft))
        /\ NoRepeat(slotsLeft) =>
             NoRepeat(Tail(slotsLeft)) /\ (slot \in Range(Tail(slotsLeft)) => slot = Nil)
    BY <1>0, FirstAndRest
  <2> QED BY <1>0, <2>1, SlotsApart
<1> QED BY <1>1, InTheNests DEF HangarTypes, NoneTwice, Visited

-----------------------------------------------------------------------------
LEMMA LackingFacts ==
  ASSUME NEW S \in SUBSET AllSlots, NEW missing
  PROVE  /\ Lacking(S, missing) \in [S -> OrNil] /\ DOMAIN Lacking(S, missing) = S
         /\ \A x \in S : Lacking(S, missing)[x] # Nil => Lacking(S, missing)[x] = x
         /\ \A x, y \in S : Lacking(S, missing)[x] = Lacking(S, missing)[y]
                             => x = y \/ Lacking(S, missing)[x] = Nil
         /\ Parts(Lacking(S, missing)) = S \ missing
<1> DEFINE f == Lacking(S, missing)
<1>1. f = [x \in S |-> IF x \in missing THEN Nil ELSE x] /\ Nil \notin S
  BY SlotsApart DEF Lacking
<1> HIDE DEF f
<1>2. f \in [S -> OrNil] /\ DOMAIN f = S
  BY <1>1 DEF OrNil
<1>3. \A x \in S : f[x] = IF x \in missing THEN Nil ELSE x
  BY <1>1
<1>4. Parts(f) = S \ missing
  BY <1>1, <1>2, <1>3 DEF Parts, Range
<1>5. /\ \A x \in S : f[x] # Nil => f[x] = x
      /\ \A x, y \in S : f[x] = f[y] => x = y \/ f[x] = Nil
  BY <1>1, <1>3
<1> QED BY <1>2, <1>4, <1>5 DEF f

(* The nests and engines of a repair that begins.                          *)
LEMMA FreshNests ==
  ASSUME NEW old, NEW new, NEW engines, NEW missing, NEW bare,
         old = Lacking(Range(OldSlots), missing), new = Lacking(Range(NewSlots), missing),
         engines = Lacking(Wings, bare)
  PROVE  /\ old \in [Range(OldSlots) -> OrNil] /\ new \in [Range(NewSlots) -> OrNil]
         /\ engines \in [Wings -> Wings \cup {Nil}]
         /\ \A nest \in {old, new} : \A x \in DOMAIN nest :
              nest[x] # Nil => nest[x] \in AllSlots /\ nest[x].kind = x.kind
         /\ Parts(old) \cap Parts(new) = {}
         /\ \A nest \in {old, new} : \A x, y \in DOMAIN nest :
              nest[x] = nest[y] => x = y \/ nest[x] = Nil
         /\ \A v, w \in Wings : engines[v] = engines[w] => v = w \/ engines[v] = Nil
<1>1. /\ Range(OldSlots) \in SUBSET AllSlots /\ Range(NewSlots) \in SUBSET AllSlots
      /\ Wings \in SUBSET AllSlots
  BY SlotsApart DEF Wings
<1>2. /\ old \in [Range(OldSlots) -> OrNil] /\ DOMAIN old = Range(OldSlots)
      /\ \A x \in Range(OldSlots) : old[x] # Nil => old[x] = x
      /\ \A x, y \in Range(OldSlots) : old[x] = old[y] => x = y \/ old[x] = Nil
      /\ Parts(old) = Range(OldSlots) \ missing
  BY <1>1, LackingFacts
<1>3. /\ new \in [Range(NewSlots) -> OrNil] /\ DOMAIN new = Range(NewSlots)
      /\ \A x \in Range(NewSlots) : new[x] # Nil => new[x] = x
      /\ \A x, y \in Range(NewSlots) : new[x] = new[y] => x = y \/ new[x] = Nil
      /\ Parts(new) = Range(NewSlots) \ missing
  BY <1>1, LackingFacts
<1>4. /\ engines \in [Wings -> OrNil] /\ \A x \in Wings : engines[x] # Nil => engines[x] = x
      /\ \A x, y \in Wings : engines[x] = engines[y] => x = y \/ engines[x] = Nil
  BY <1>1, LackingFacts
<1>5. engines \in [Wings -> Wings \cup {Nil}]
  BY <1>4
<1> QED BY <1>1, <1>2, <1>3, <1>4, <1>5, HangarAssumption

LEMMA HangarStarts == HangarInit => HangarInv
<1> SUFFICES ASSUME HangarInit PROVE HangarInv
  OBVIOUS
<1>1. /\ stage = "idle" /\ slotsLeft = <<>>
      /\ before.old = oldNest /\ before.new = newNest /\ before.engineOf = engineOf
      /\ \A k \in Kinds : spare[k] = <<>>
      /\ spare \in [Kinds -> Seq(OrNil)]
  BY EmptySeq DEF HangarInit
<1>2. /\ oldNest = Lacking(Range(OldSlots), {}) /\ newNest = Lacking(Range(NewSlots), {})
      /\ engineOf = Lacking(Wings, {})
  BY DEF HangarInit
<1>3. HangarTypes
  BY <1>1, <1>2, FreshNests, EmptySeq DEF HangarTypes, HangarTypeOK
<1>4. Conserved
  BY <1>1, <1>2, FreshNests DEF Conserved
<1> QED
  BY <1>1, <1>3, <1>4, NoneQueued
  DEF HangarInv, NoneTwice, PartsQueued, EnginesQueued, NoNilQueued, SlotsServed, WingsServed

LEMMA RepairKeeps ==
  ASSUME HangarInv, NEW missing \in SUBSET AllSlots, NEW bare \in SUBSET (Wings \ missing),
         Repair(missing, bare)
  PROVE  HangarInv'
<1>1. /\ stage' = "queue parts" /\ slotsLeft' = OldSlots
      /\ before' = [old |-> oldNest', new |-> newNest', engineOf |-> engineOf']
      /\ \A k \in Kinds : spare'[k] = <<>>
      /\ spare' \in [Kinds -> Seq(OrNil)]
  BY DEF Repair, HangarInv, HangarTypes
<1>2. /\ oldNest' = Lacking(Range(OldSlots), missing) /\ newNest' = Lacking(Range(NewSlots), missing)
      /\ engineOf' = Lacking(Wings, bare)
  BY DEF Repair
<1>3. HangarTypes'
  <2>0. /\ oldNest' \in [Range(OldSlots) -> OrNil] /\ newNest' \in [Range(NewSlots) -> OrNil]
        /\ engineOf' \in [Wings -> Wings \cup {Nil}]
        /\ \A nest \in {oldNest', newNest'} : \A x \in DOMAIN nest :
             nest[x] # Nil => nest[x] \in AllSlots /\ nest[x].kind = x.kind
    BY <1>2, FreshNests
  <2>1. HangarTypeOK'
    BY <1>1, <2>0 DEF HangarTypeOK, Loops
  <2>2. slotsLeft' \in Seq(AllSlots) /\ Range(slotsLeft') = Range(OldSlots) /\ before'.old = oldNest'
    BY <1>1, HangarAssumption
  <2> QED BY <1>1, <2>0, <2>1, <2>2 DEF HangarTypes
<1>4. /\ Parts(before.old)' = Parts(oldNest)' /\ Parts(before.new)' = Parts(newNest)'
      /\ Hung(before.engineOf, before.old, before.new)' = Hung(engineOf, oldNest, newNest)'
  <2>1. before'.old = oldNest' /\ before'.new = newNest' /\ before'.engineOf = engineOf'
    BY <1>1
  <2>2. Parts(before.old)' = Parts(oldNest)' /\ Parts(before.new)' = Parts(newNest)'
    BY <2>1 DEF Parts, Range
  <2>3. Hung(before.engineOf, before.old, before.new)'
          = {engineOf'[w] : w \in Wings \cap (Parts(oldNest)' \cup Parts(newNest)')} \ {Nil}
    BY <2>1, <2>2 DEF Hung
  <2> QED BY <2>2, <2>3 DEF Hung
<1>5. Conserved'
  <2>1. /\ Parts(oldNest') \cap Parts(newNest') = {}
        /\ \A nest \in {oldNest', newNest'} : \A x, y \in DOMAIN nest :
             nest[x] = nest[y] => x = y \/ nest[x] = Nil
        /\ \A v, w \in Wings : engineOf'[v] = engineOf'[w] => v = w \/ engineOf'[v] = Nil
    BY <1>2, FreshNests
  <2>2. \A x \in DOMAIN newNest' : newNest'[x] = before'.new[x]
    BY <1>1
  <2> QED BY <1>4, <2>1, <2>2 DEF Conserved
<1>6. PartsQueued'
  <2>1. DOMAIN oldNest' = Range(OldSlots) /\ Range(slotsLeft') = Range(OldSlots)
    BY <1>1, <1>3 DEF HangarTypes
  <2>2. \A k \in Kinds : Range(spare'[k]) = {}
    BY <1>1, NoneQueued
  <2>3. spare'["engine"] = <<>>
    BY <1>1 DEF Kinds
  <2> QED BY <1>1, <2>1, <2>2, <2>3 DEF PartsQueued, Passed
<1>7. NoneTwice' /\ NoNilQueued'
  BY <1>1, NoneQueued, SlotsApart DEF NoneTwice, NoNilQueued
<1>8. EnginesQueued' /\ SlotsServed' /\ WingsServed'
  BY <1>1 DEF EnginesQueued, SlotsServed, WingsServed
<1> QED BY <1>3, <1>5, <1>6, <1>7, <1>8 DEF HangarInv

(* One part hangs in one slot.                                             *)
LEMMA OneSlotEach ==
  ASSUME Conserved
  PROVE  /\ \A x, y \in DOMAIN oldNest : oldNest[x] = oldNest[y] => x = y \/ oldNest[x] = Nil
         /\ \A x, y \in DOMAIN newNest : newNest[x] = newNest[y] => x = y \/ newNest[x] = Nil
BY DEF Conserved

(* Steps that move no part.                                                *)
LEMMA NothingMoved ==
  ASSUME Conserved, UNCHANGED <<oldNest, newNest, engineOf, before>>
  PROVE  Conserved'
<1>1. /\ Parts(oldNest)' = Parts(oldNest) /\ Parts(newNest)' = Parts(newNest)
      /\ Parts(before.old)' = Parts(before.old) /\ Parts(before.new)' = Parts(before.new)
  BY DEF Parts, Range
<1>2. /\ Hung(engineOf, oldNest, newNest)' = Hung(engineOf, oldNest, newNest)
      /\ Hung(before.engineOf, before.old, before.new)'
           = Hung(before.engineOf, before.old, before.new)
  BY <1>1 DEF Hung
<1> QED BY <1>1, <1>2 DEF Conserved

LEMMA QueuePartKeeps ==
  ASSUME HangarInv, QueuePart
  PROVE  HangarInv'
<1> DEFINE k == slot.kind
           part == oldNest[slot]
<1>0. /\ HangarTypes /\ NoneTwice /\ PartsQueued /\ NoNilQueued /\ Conserved
      /\ stage = "queue parts" /\ slotsLeft # <<>> /\ Visited
      /\ spare' = [spare EXCEPT ![k] = Append(spare[k], part)]
      /\ UNCHANGED <<oldNest, newNest, engineOf>>
  BY DEF HangarInv, QueuePart, Visiting, Enqueue
<1>1. /\ slot \in DOMAIN oldNest /\ slot # Nil /\ slot \notin Range(slotsLeft')
      /\ slotsLeft' \in Seq(AllSlots) /\ Range(slotsLeft) = {slot} \cup Range(slotsLeft')
      /\ NoRepeat(slotsLeft') /\ UNCHANGED <<stage, before>>
      /\ k \in Kinds \ {"engine"} /\ part \in OrNil
  BY <1>0, SlotVisited, InTheNests, SlotsApart
<1>2. spare \in [Kinds -> Seq(OrNil)] /\ spare[k] \in Seq(OrNil)
  BY <1>0, <1>1 DEF HangarTypes
<1>3. /\ spare' \in [Kinds -> Seq(OrNil)]
      /\ Range(spare'[k]) = Range(spare[k]) \cup {part}
      /\ \A j \in Kinds \ {k} : spare'[j] = spare[j]
      /\ NoRepeat(spare[k]) /\ (part \in Range(spare[k]) => part = Nil) => NoRepeat(spare'[k])
  <2>1. /\ Append(spare[k], part) \in Seq(OrNil)
        /\ Range(Append(spare[k], part)) = Range(spare[k]) \cup {part}
        /\ NoRepeat(spare[k]) /\ (part \in Range(spare[k]) => part = Nil)
             => NoRepeat(Append(spare[k], part))
    BY <1>1, <1>2, OneMore
  <2> DEFINE longer == Append(spare[k], part)
  <2> HIDE DEF longer, k, part
  <2>2. spare' = [spare EXCEPT ![k] = longer]
    BY <1>0 DEF longer
  <2> QED BY <1>1, <1>2, <2>1, <2>2 DEF longer
<1>4. part \in Range(spare[k]) => part = Nil
  <2> SUFFICES ASSUME part \in Range(spare[k]), part # Nil PROVE FALSE
    OBVIOUS
  <2>1. PICK y \in DOMAIN oldNest : oldNest[y] = part /\ y \notin Range(slotsLeft)
    BY <1>0, <1>1 DEF PartsQueued, Passed
  <2> QED BY <1>0, <1>1, <2>1, OneSlotEach
<1> HIDE DEF k, part
<1>5. HangarTypes'
  BY <1>0, <1>1, <1>3 DEF HangarTypes, HangarTypeOK
<1>6. NoneTwice'
  BY <1>0, <1>1, <1>3, <1>4 DEF NoneTwice
<1>7. PartsQueued'
  <2>1. ASSUME NEW j \in Kinds \ {"engine"}, NEW p \in Range(spare'[j]) \ {Nil}
        PROVE  \E y \in DOMAIN oldNest : y.kind = j /\ oldNest[y] = p /\ y \notin Range(slotsLeft')
    <3>1. CASE p \in Range(spare[j])
      <4>1. PICK y \in DOMAIN oldNest :
              y.kind = j /\ oldNest[y] = p /\ Passed("queue parts", y)
        BY <1>0, <3>1, ZenonT(30) DEF PartsQueued
      <4>2. y \notin Range(slotsLeft')
        BY <1>0, <1>1, <4>1 DEF Passed
      <4> QED BY <4>1, <4>2
    <3>2. CASE p \notin Range(spare[j])
      BY <1>1, <1>3, <3>2 DEF k, part
    <3> QED BY <3>1, <3>2
  <2>2. ASSUME NEW y \in DOMAIN oldNest, oldNest[y] # Nil, y \notin Range(slotsLeft')
        PROVE  oldNest[y] \in Range(spare'[y.kind])
    <3>1. CASE y = slot
      BY <1>3, <3>1 DEF k, part
    <3>2. CASE y # slot
      <4>1. oldNest[y] \in Range(spare[y.kind])
        BY <1>0, <1>1, <2>2, <3>2 DEF PartsQueued, Passed
      <4>2. y.kind \in Kinds
        BY <1>0, InTheNests, SlotsApart
      <4> QED BY <1>3, <4>1, <4>2
    <3> QED BY <3>1, <3>2
  <2>3. spare'["engine"] = <<>>
    BY <1>0, <1>1, <1>3 DEF PartsQueued, Kinds
  <2>4. stage' = "queue parts" /\ oldNest' = oldNest
    BY <1>0, <1>1
  <2>5. \A y : Passed("queue parts", y)' <=> y \notin Range(slotsLeft')
    BY <2>4 DEF Passed, Range
  <2> QED BY <2>1, <2>2, <2>3, <2>4, <2>5 DEF PartsQueued
<1>8. NoNilQueued'
  <2>1. ASSUME NEW j \in Kinds \ {"engine"}, AllDonors(j) PROVE Nil \notin Range(spare'[j])
    <3>1. Nil \notin Range(spare[j])
      BY <1>0, <2>1 DEF NoNilQueued
    <3>2. j = k => part # Nil
      BY <1>0, <1>1, <2>1 DEF AllDonors, HangarTypes, k, part
    <3> QED BY <1>3, <3>1, <3>2
  <2>2. \A j : AllDonors(j)' = AllDonors(j)
    BY <1>0, <1>1 DEF AllDonors
  <2> QED BY <2>1, <2>2 DEF NoNilQueued
<1>9. EnginesQueued' /\ SlotsServed' /\ WingsServed'
  BY <1>0, <1>1 DEF EnginesQueued, SlotsServed, WingsServed
<1>10. Conserved'
  BY <1>0, <1>1, NothingMoved
<1> QED BY <1>5, <1>6, <1>7, <1>8, <1>9, <1>10 DEF HangarInv

(* Taking the first of a queue.                                            *)
LEMMA Dequeued ==
  ASSUME HangarTypes, NoneTwice, NEW k \in Kinds, spare[k] # <<>>, Dequeue(k)
  PROVE  /\ Head(spare[k]) \in OrNil /\ spare' \in [Kinds -> Seq(OrNil)]
         /\ Range(spare[k]) = {Head(spare[k])} \cup Range(spare'[k])
         /\ \A j \in Kinds \ {k} : spare'[j] = spare[j]
         /\ Head(spare[k]) \in Range(spare'[k]) => Head(spare[k]) = Nil
         /\ \A j \in Kinds : NoRepeat(spare'[j])
<1>1. spare \in [Kinds -> Seq(OrNil)] /\ spare[k] \in Seq(OrNil) /\ NoRepeat(spare[k])
  BY DEF HangarTypes, NoneTwice
<1> DEFINE rest == Tail(spare[k])
<1>2. /\ Head(spare[k]) \in OrNil /\ rest \in Seq(OrNil)
      /\ Range(spare[k]) = {Head(spare[k])} \cup Range(rest)
      /\ NoRepeat(rest) /\ (Head(spare[k]) \in Range(rest) => Head(spare[k]) = Nil)
  BY <1>1, FirstAndRest
<1>3. spare' = [spare EXCEPT ![k] = rest]
  BY DEF Dequeue
<1> HIDE DEF rest
<1>4. spare' \in [Kinds -> Seq(OrNil)] /\ spare'[k] = rest /\ \A j \in Kinds \ {k} : spare'[j] = spare[j]
  BY <1>1, <1>2, <1>3
<1>5. \A j \in Kinds : NoRepeat(spare'[j])
  BY <1>2, <1>4 DEF NoneTwice
<1> QED BY <1>2, <1>4, <1>5

LEMMA QueuedFrom ==
  ASSUME PartsQueued, stage = "fill slots", NEW k \in Kinds \ {"engine"},
         NEW p \in Range(spare[k]), p # Nil
  PROVE  \E y \in DOMAIN oldNest : y.kind = k /\ oldNest[y] = p
<1>1. stage \in {"queue parts", "fill slots"} /\ p \in Range(spare[k]) \ {Nil}
  OBVIOUS
<1>2. \E y \in DOMAIN oldNest : y.kind = k /\ oldNest[y] = p /\ Passed("queue parts", y)
  BY <1>1, Zenon DEF PartsQueued
<1> QED BY <1>2

(* A part that goes from the old nest, where it hung in y, to an empty     *)
(* slot x of the new one.                                                  *)
LEMMA PartMoves ==
  ASSUME HangarTypes, Conserved, NEW x \in DOMAIN newNest, newNest[x] = Nil,
         NEW y \in DOMAIN oldNest, oldNest[y] # Nil, y.kind = x.kind,
         newNest' = [newNest EXCEPT ![x] = oldNest[y]],
         oldNest' = TakenFromOld(oldNest[y]),
         UNCHANGED <<engineOf, stage, before>>
  PROVE  /\ oldNest' = [oldNest EXCEPT ![y] = Nil]
         /\ oldNest' \in [Range(OldSlots) -> OrNil] /\ newNest' \in [Range(NewSlots) -> OrNil]
         /\ HangarTypeOK' /\ Conserved'
<1> DEFINE p == oldNest[y]
<1>0. /\ oldNest \in [Range(OldSlots) -> OrNil] /\ newNest \in [Range(NewSlots) -> OrNil]
      /\ p \in OrNil /\ p \in AllSlots /\ p.kind = x.kind /\ p \in Parts(oldNest)
  BY InTheNests DEF HangarTypes, OrNil
<1>1. oldNest' = [oldNest EXCEPT ![y] = Nil]
  BY <1>0, OneSlotEach DEF TakenFromOld
<1> HIDE DEF p
<1>2. newNest' = [newNest EXCEPT ![x] = p]
  BY DEF p
<1>3. oldNest' \in [Range(OldSlots) -> OrNil] /\ newNest' \in [Range(NewSlots) -> OrNil]
  BY <1>0, <1>1, <1>2 DEF OrNil
<1>4. /\ \A z \in DOMAIN oldNest : oldNest'[z] = IF z = y THEN Nil ELSE oldNest[z]
      /\ \A z \in DOMAIN newNest : newNest'[z] = IF z = x THEN p ELSE newNest[z]
      /\ DOMAIN oldNest' = DOMAIN oldNest /\ DOMAIN newNest' = DOMAIN newNest
  BY <1>0, <1>1, <1>2
<1>5. HangarTypeOK'
  <2>1. /\ \A z \in DOMAIN oldNest :
             oldNest[z] # Nil => oldNest[z] \in AllSlots /\ oldNest[z].kind = z.kind
        /\ \A z \in DOMAIN newNest :
             newNest[z] # Nil => newNest[z] \in AllSlots /\ newNest[z].kind = z.kind
    BY DEF HangarTypes, HangarTypeOK
  <2>2. \A z \in DOMAIN oldNest' :
          oldNest'[z] # Nil => oldNest'[z] \in AllSlots /\ oldNest'[z].kind = z.kind
    BY <1>4, <2>1
  <2>3. \A z \in DOMAIN newNest' :
          newNest'[z] # Nil => newNest'[z] \in AllSlots /\ newNest'[z].kind = z.kind
    BY <1>0, <1>4, <2>1
  <2>4. engineOf' \in [Wings -> Wings \cup {Nil}] /\ stage' \in {"idle", "repaired"} \cup Loops
    BY DEF HangarTypes, HangarTypeOK
  <2>5. \A nest \in {oldNest', newNest'} : \A z \in DOMAIN nest :
          nest[z] # Nil => nest[z] \in AllSlots /\ nest[z].kind = z.kind
    BY <2>2, <2>3
  <2> QED BY <2>4, <2>5 DEF HangarTypeOK
<1>6. /\ Parts(oldNest)' = Parts(oldNest) \ {p} /\ Parts(newNest)' = Parts(newNest) \cup {p}
      /\ p \notin Parts(newNest) /\ p # Nil
  <2>1. \A z \in DOMAIN oldNest : z # y => oldNest[z] # p
    BY OneSlotEach DEF p
  <2>2. Parts(oldNest)' = Parts(oldNest) \ {p}
    BY <1>4, <2>1 DEF Parts, Range, p
  <2>3. Parts(newNest)' = Parts(newNest) \cup {p}
    <3>1. p # Nil
      BY DEF p
    <3> QED BY <1>4, <3>1 DEF Parts, Range
  <2>4. p \notin Parts(newNest)
    BY <1>0 DEF Conserved
  <2> QED BY <2>2, <2>3, <2>4 DEF p
<1>7. Conserved'
  <2>1. /\ (Parts(oldNest) \cup Parts(newNest))' = Parts(oldNest) \cup Parts(newNest)
        /\ (Parts(oldNest) \cap Parts(newNest))' = {}
    BY <1>0, <1>6 DEF Conserved
  <2>2. /\ Parts(before.old)' = Parts(before.old) /\ Parts(before.new)' = Parts(before.new)
        /\ before' = before
    BY DEF Parts, Range
  <2>3. \A z, u \in DOMAIN oldNest' : oldNest'[z] = oldNest'[u] => z = u \/ oldNest'[z] = Nil
    BY <1>4, OneSlotEach
  <2>4. \A z, u \in DOMAIN newNest' : newNest'[z] = newNest'[u] => z = u \/ newNest'[z] = Nil
    <3>1. \A z \in DOMAIN newNest : newNest[z] # p
      BY <1>6 DEF Parts, Range
    <3> QED BY <1>4, <3>1, OneSlotEach
  <2>5. \A z \in DOMAIN newNest' : newNest'[z] = before'.new[z] \/ before'.new[z] = Nil
    BY <1>4, <2>2 DEF Conserved
  <2>6. Hung(engineOf, oldNest, newNest)' = Hung(engineOf, oldNest, newNest)
    BY <2>1 DEF Hung
  <2>7. Hung(before.engineOf, before.old, before.new)' = Hung(before.engineOf, before.old, before.new)
    BY <2>2 DEF Hung
  <2>8. \A nest \in {oldNest', newNest'} : \A z, u \in DOMAIN nest :
          nest[z] = nest[u] => z = u \/ nest[z] = Nil
    BY <2>3, <2>4
  <2>9. \A v, w \in (Wings \cap (Parts(oldNest) \cup Parts(newNest)))' :
          engineOf'[v] = engineOf'[w] => v = w \/ engineOf'[v] = Nil
    BY <2>1 DEF Conserved
  <2>10. (Parts(oldNest) \cup Parts(newNest))' = Parts(before.old)' \cup Parts(before.new)'
    BY <2>1, <2>2 DEF Conserved
  <2>11. Hung(engineOf, oldNest, newNest)' = Hung(before.engineOf, before.old, before.new)'
    BY <2>6, <2>7 DEF Conserved
  <2> QED BY <2>1, <2>5, <2>8, <2>9, <2>10, <2>11 DEF Conserved
<1> QED BY <1>1, <1>3, <1>5, <1>7

LEMMA FillSlotKeeps ==
  ASSUME HangarInv, FillSlot
  PROVE  HangarInv'
<1> DEFINE k == slot.kind
           part == Head(spare[k])
<1>0. /\ HangarTypes /\ NoneTwice /\ PartsQueued /\ NoNilQueued /\ SlotsServed /\ Conserved
      /\ stage = "fill slots" /\ slotsLeft # <<>> /\ Visited
      /\ newNest[slot] = Nil /\ spare[k] # <<>> /\ Dequeue(k)
      /\ newNest' = [newNest EXCEPT ![slot] = part] /\ oldNest' = TakenFromOld(part)
      /\ UNCHANGED engineOf
  BY DEF HangarInv, FillSlot, Visiting, NeedsPart
<1>1. /\ slot \in DOMAIN newNest /\ k \in Kinds \ {"engine"}
      /\ slotsLeft' \in Seq(AllSlots) /\ Range(slotsLeft) = {slot} \cup Range(slotsLeft')
      /\ stage' = stage /\ before' = before
  BY <1>0, SlotVisited, SlotsApart
<1>2. /\ part \in OrNil /\ spare' \in [Kinds -> Seq(OrNil)]
      /\ Range(spare[k]) = {part} \cup Range(spare'[k])
      /\ \A j \in Kinds \ {k} : spare'[j] = spare[j]
      /\ part \in Range(spare'[k]) => part = Nil
      /\ \A j \in Kinds : NoRepeat(spare'[j])
  BY <1>0, <1>1, Dequeued
<1> HIDE DEF k, part
<1>3. /\ \A j \in Kinds : Range(spare'[j]) \subseteq Range(spare[j])
      /\ \A j \in Kinds : Range(spare[j]) \subseteq {part} \cup Range(spare'[j])
  BY <1>1, <1>2
<1>4. DOMAIN oldNest = Range(OldSlots) /\ DOMAIN newNest = Range(NewSlots)
  BY <1>0, InTheNests
(* The nests: a nil changes nothing, a part moves.                         *)
<1>5. /\ oldNest' \in [Range(OldSlots) -> OrNil] /\ newNest' \in [Range(NewSlots) -> OrNil]
      /\ HangarTypeOK' /\ Conserved'
      /\ \A y \in DOMAIN oldNest : oldNest'[y] = IF oldNest[y] = part THEN Nil ELSE oldNest[y]
      /\ newNest'[slot] = part /\ \A x \in DOMAIN newNest \ {slot} : newNest'[x] = newNest[x]
  <2>1. /\ \A y \in DOMAIN oldNest : oldNest'[y] = IF oldNest[y] = part THEN Nil ELSE oldNest[y]
        /\ newNest'[slot] = part /\ \A x \in DOMAIN newNest \ {slot} : newNest'[x] = newNest[x]
    BY <1>0, <1>1 DEF TakenFromOld, HangarTypes
  <2>2. CASE part = Nil
    <3>1. oldNest' = oldNest /\ newNest' = newNest
      BY <1>0, <1>1, <2>2 DEF TakenFromOld, HangarTypes
    <3>2. HangarTypeOK'
      BY <1>0, <1>1, <3>1 DEF HangarTypes, HangarTypeOK
    <3> QED BY <1>0, <1>1, <2>1, <3>1, <3>2, NothingMoved DEF HangarTypes
  <2>3. CASE part # Nil
    <3>1. PICK y \in DOMAIN oldNest : y.kind = k /\ oldNest[y] = part
      BY <1>0, <1>1, <1>2, <2>3, QueuedFrom
    <3>2. /\ oldNest' \in [Range(OldSlots) -> OrNil] /\ newNest' \in [Range(NewSlots) -> OrNil]
          /\ HangarTypeOK' /\ Conserved'
      BY <1>0, <1>1, <2>3, <3>1, PartMoves DEF k
    <3> QED BY <2>1, <3>2
  <2> QED BY <2>2, <2>3
<1>6. DOMAIN oldNest' = DOMAIN oldNest /\ DOMAIN newNest' = DOMAIN newNest /\ stage' = "fill slots"
  BY <1>0, <1>1, <1>4, <1>5
<1>7. HangarTypes'
  BY <1>0, <1>1, <1>2, <1>5 DEF HangarTypes
<1>8. NoneTwice'
  BY <1>2, <1>6 DEF NoneTwice
<1>9. PartsQueued'
  <2>1. ASSUME NEW j \in Kinds \ {"engine"}, NEW p \in Range(spare'[j]) \ {Nil}
        PROVE  \E y \in DOMAIN oldNest' : y.kind = j /\ oldNest'[y] = p
    <3>0. p \in Range(spare[j]) /\ p # Nil
      BY <1>3
    <3>1. PICK y \in DOMAIN oldNest : y.kind = j /\ oldNest[y] = p
      BY <1>0, <3>0, QueuedFrom
    <3>2. p # part
      <4> SUFFICES ASSUME p = part PROVE FALSE
        OBVIOUS
      <4>1. part # Nil /\ part \in Range(spare[k])
        BY <1>2
      <4>2. PICK z \in DOMAIN oldNest : z.kind = k /\ oldNest[z] = part
        BY <1>0, <1>1, <4>1, QueuedFrom
      <4>3. z = y /\ j = k
        BY <1>0, <3>1, <4>1, <4>2, OneSlotEach
      <4> QED BY <1>2, <4>1, <4>3
    <3> QED BY <1>5, <1>6, <3>1, <3>2
  <2>2. ASSUME NEW y \in DOMAIN oldNest', oldNest'[y] # Nil
        PROVE  oldNest'[y] \in Range(spare'[y.kind])
    <3>1. oldNest[y] # part /\ oldNest'[y] = oldNest[y] /\ y \in DOMAIN oldNest
      BY <1>5, <1>6, <2>2
    <3>2. oldNest[y] \in Range(spare[y.kind])
      BY <1>0, <2>2, <3>1 DEF PartsQueued, Passed
    <3>3. y.kind \in Kinds
      BY <1>0, <3>1, InTheNests, SlotsApart
    <3> QED BY <1>3, <3>1, <3>2, <3>3
  <2>3. spare'["engine"] = <<>>
    BY <1>0, <1>1, <1>2 DEF PartsQueued, Kinds
  <2> QED BY <1>6, <2>1, <2>2, <2>3 DEF PartsQueued, Passed
<1>10. \A j : AllDonors(j)' <=> AllDonors(j)
  BY <1>1, <1>6 DEF AllDonors
<1>11. NoNilQueued'
  BY <1>0, <1>3, <1>10 DEF NoNilQueued
<1>12. SlotsServed'
  <2> SUFFICES ASSUME NEW x \in DOMAIN newNest, newNest'[x] = Nil, AllDonors(x.kind),
                      x \notin Range(slotsLeft')
               PROVE  spare'[x.kind] = <<>>
    BY <1>6, <1>10 DEF SlotsServed, Passed
  <2>1. x.kind \in Kinds \ {"engine"}
    BY <1>0, InTheNests, SlotsApart
  <2>2. CASE x = slot
    <3>1. part = Nil /\ Nil \in Range(spare[k]) /\ x.kind = k
      BY <1>2, <1>5, <2>2 DEF k
    <3> QED BY <1>0, <2>1, <3>1 DEF NoNilQueued
  <2>3. CASE x # slot
    <3>1. newNest[x] = Nil /\ x \notin Range(slotsLeft)
      BY <1>1, <1>5, <2>3
    <3>2. spare[x.kind] = <<>>
      BY <1>0, <3>1 DEF SlotsServed, Passed
    <3>3. x.kind # k
      BY <1>0, <3>2 DEF k
    <3> QED BY <1>2, <2>1, <3>2, <3>3
  <2> QED BY <2>2, <2>3
<1>13. EnginesQueued' /\ WingsServed'
  BY <1>6 DEF EnginesQueued, WingsServed
<1> QED BY <1>5, <1>7, <1>8, <1>9, <1>11, <1>12, <1>13 DEF HangarInv

LEMMA QueueEngineKeeps ==
  ASSUME HangarInv, QueueEngine
  PROVE  HangarInv'
<1> DEFINE engine == engineOf[oldNest[slot]]
<1>0. /\ HangarTypes /\ NoneTwice /\ EnginesQueued /\ SlotsServed /\ Conserved
      /\ stage = "queue engines" /\ slotsLeft # <<>> /\ Visited
      /\ slot.kind = "wing" /\ Hanging(oldNest[slot])
      /\ spare' = [spare EXCEPT !["engine"] = Append(spare["engine"], engine)]
      /\ UNCHANGED <<oldNest, newNest, engineOf>>
  BY DEF HangarInv, QueueEngine, Visiting, HasEngine, Enqueue
<1>1. /\ slot \in DOMAIN oldNest /\ slot \notin Range(slotsLeft')
      /\ slotsLeft' \in Seq(AllSlots) /\ Range(slotsLeft) = {slot} \cup Range(slotsLeft')
      /\ NoRepeat(slotsLeft') /\ stage' = stage /\ before' = before
  BY <1>0, SlotVisited
<1>2. \A y \in DOMAIN oldNest :
        y.kind = "wing" /\ Hanging(oldNest[y]) =>
          /\ oldNest[y] \in Wings \cap (Parts(oldNest) \cup Parts(newNest))
          /\ engineOf[oldNest[y]] # Nil /\ oldNest[y] # Nil
          /\ engineOf[oldNest[y]] \in OrNil
  BY <1>0, InTheNests DEF Hanging, Wings, OrNil, HangarTypes, HangarTypeOK
<1>3. /\ spare \in [Kinds -> Seq(OrNil)] /\ spare["engine"] \in Seq(OrNil)
      /\ engine \in OrNil /\ engine # Nil
  BY <1>0, <1>1, <1>2 DEF HangarTypes, Kinds
<1>4. engine \notin Range(spare["engine"])
  <2> SUFFICES ASSUME engine \in Range(spare["engine"]) PROVE FALSE
    OBVIOUS
  <2>1. PICK y \in DOMAIN oldNest : /\ y.kind = "wing" /\ Hanging(oldNest[y])
                                    /\ engineOf[oldNest[y]] = engine /\ y \notin Range(slotsLeft)
    BY <1>0 DEF EnginesQueued, Passed
  <2>2. oldNest[y] = oldNest[slot]
    BY <1>0, <1>1, <1>2, <2>1 DEF Conserved
  <2> QED BY <1>0, <1>1, <1>2, <2>1, <2>2, OneSlotEach
<1> HIDE DEF engine
<1>5. /\ spare' \in [Kinds -> Seq(OrNil)]
      /\ Range(spare'["engine"]) = Range(spare["engine"]) \cup {engine}
      /\ \A j \in Kinds : NoRepeat(spare'[j])
  <2> DEFINE longer == Append(spare["engine"], engine)
  <2>1. /\ longer \in Seq(OrNil) /\ Range(longer) = Range(spare["engine"]) \cup {engine}
        /\ NoRepeat(spare["engine"]) => NoRepeat(longer)
    BY <1>3, <1>4, OneMore
  <2>2. spare' = [spare EXCEPT !["engine"] = longer] /\ "engine" \in Kinds
    BY <1>0 DEF Kinds
  <2> HIDE DEF longer
  <2> QED BY <1>0, <1>3, <2>1, <2>2 DEF NoneTwice
<1>6. HangarTypes'
  BY <1>0, <1>1, <1>5 DEF HangarTypes, HangarTypeOK
<1>7. NoneTwice'
  BY <1>0, <1>1, <1>5 DEF NoneTwice
<1>8. EnginesQueued'
  <2>1. ASSUME NEW e \in Range(spare'["engine"])
        PROVE  \E y \in DOMAIN oldNest :
                 /\ y.kind = "wing" /\ Hanging(oldNest[y]) /\ engineOf[oldNest[y]] = e
                 /\ y \notin Range(slotsLeft')
    <3>1. CASE e \in Range(spare["engine"])
      BY <1>0, <1>1, <3>1 DEF EnginesQueued, Passed
    <3>2. CASE e = engine
      BY <1>0, <1>1, <3>2 DEF engine
    <3> QED BY <1>5, <3>1, <3>2
  <2>2. ASSUME NEW y \in DOMAIN oldNest, y.kind = "wing", Hanging(oldNest[y]), y \notin Range(slotsLeft')
        PROVE  engineOf[oldNest[y]] \in Range(spare'["engine"])
    <3>1. CASE y = slot
      BY <1>5, <3>1 DEF engine
    <3>2. CASE y # slot
      BY <1>0, <1>1, <1>5, <2>2, <3>2 DEF EnginesQueued, Passed
    <3> QED BY <3>1, <3>2
  <2> QED BY <1>0, <1>1, <2>1, <2>2 DEF EnginesQueued, Passed, Hanging
<1>9. SlotsServed'
  BY <1>0, <1>1 DEF SlotsServed, AllDonors, NoneLeft
<1>10. PartsQueued' /\ NoNilQueued' /\ WingsServed'
  BY <1>0, <1>1 DEF PartsQueued, NoNilQueued, WingsServed
<1>11. Conserved'
  BY <1>0, <1>1, NothingMoved
<1> QED BY <1>6, <1>7, <1>8, <1>9, <1>10, <1>11 DEF HangarInv

(* An engine that goes from the wing from, in the old nest, to the bare    *)
(* wing to of the new one.                                                 *)
LEMMA EngineMoves ==
  ASSUME HangarTypes, Conserved, NEW engine, engine # Nil,
         NEW from \in Wings \cap Parts(oldNest), engineOf[from] = engine,
         NEW to \in Wings \cap Parts(newNest), engineOf[to] = Nil,
         engineOf' \in [Wings -> Wings \cup {Nil}],
         \A w \in Wings : engineOf'[w] = IF w = to THEN engine
                                       ELSE IF w = from THEN Nil ELSE engineOf[w],
         UNCHANGED <<oldNest, newNest, stage, before>>
  PROVE  HangarTypeOK' /\ Conserved'
<1>1. engineOf \in [Wings -> Wings \cup {Nil}] /\ engine \in Wings /\ from # to
  BY DEF HangarTypes, HangarTypeOK
<1>3. HangarTypeOK'
  BY DEF HangarTypes, HangarTypeOK
<1> DEFINE hung == Wings \cap (Parts(oldNest) \cup Parts(newNest))
<1>4. /\ Parts(oldNest)' = Parts(oldNest) /\ Parts(newNest)' = Parts(newNest)
      /\ Parts(before.old)' = Parts(before.old) /\ Parts(before.new)' = Parts(before.new)
      /\ hung' = hung
  BY DEF Parts, Range
<1>5. /\ from \in hung /\ to \in hung /\ hung \subseteq Wings
      /\ \A v, w \in hung : engineOf[v] = engineOf[w] => v = w \/ engineOf[v] = Nil
  BY DEF Conserved
<1> HIDE DEF hung
<1>6. \A w \in hung : engineOf'[w] = IF w = to THEN engine ELSE IF w = from THEN Nil ELSE engineOf[w]
  BY <1>5
<1>7. {engineOf'[w] : w \in hung} \ {Nil} = {engineOf[w] : w \in hung} \ {Nil}
  <2>1. ASSUME NEW e \in {engineOf'[w] : w \in hung} \ {Nil}
        PROVE  e \in {engineOf[w] : w \in hung}
    BY <1>5, <1>6
  <2>2. ASSUME NEW e \in {engineOf[w] : w \in hung} \ {Nil}
        PROVE  e \in {engineOf'[w] : w \in hung}
    <3>1. PICK w \in hung : engineOf[w] = e
      OBVIOUS
    <3>2. CASE w = from
      BY <1>5, <1>6, <3>1, <3>2
    <3>3. CASE w # from
      <4>1. w # to
        BY <3>1
      <4> QED BY <1>6, <3>1, <3>3, <4>1
    <3> QED BY <3>2, <3>3
  <2> QED BY <2>1, <2>2
<1>8. \A v, w \in hung : engineOf'[v] = engineOf'[w] => v = w \/ engineOf'[v] = Nil
  BY <1>5, <1>6
<1>9. /\ Hung(engineOf, oldNest, newNest)' = Hung(engineOf, oldNest, newNest)
      /\ Hung(before.engineOf, before.old, before.new)' = Hung(before.engineOf, before.old, before.new)
  BY <1>4, <1>7 DEF Hung, hung
<1>10. Conserved'
  BY <1>4, <1>8, <1>9 DEF Conserved, hung
<1> QED BY <1>3, <1>10

LEMMA HangEngineKeeps ==
  ASSUME HangarInv, HangEngine
  PROVE  HangarInv'
<1> DEFINE engine == Head(spare["engine"])
           to == newNest[slot]
<1>0. /\ HangarTypes /\ NoneTwice /\ EnginesQueued /\ SlotsServed /\ WingsServed /\ Conserved
      /\ stage = "hang engines" /\ slotsLeft # <<>> /\ Visited
      /\ slot.kind = "wing" /\ to # Nil /\ engineOf[to] = Nil
      /\ spare["engine"] # <<>> /\ Dequeue("engine")
      /\ UNCHANGED <<oldNest, newNest>>
  BY DEF HangarInv, HangEngine, Visiting, NeedsEngine
<1>1. /\ slot \in DOMAIN newNest /\ slotsLeft' \in Seq(AllSlots)
      /\ Range(slotsLeft) = {slot} \cup Range(slotsLeft') /\ stage' = stage /\ before' = before
  BY <1>0, SlotVisited
<1>2. /\ spare' \in [Kinds -> Seq(OrNil)]
      /\ Range(spare["engine"]) = {engine} \cup Range(spare'["engine"])
      /\ engine \in Range(spare'["engine"]) => engine = Nil
      /\ \A j \in Kinds : NoRepeat(spare'[j])
  <2>1. "engine" \in Kinds
    BY DEF Kinds
  <2> QED BY <1>0, <2>1, Dequeued
<1>3. \A y \in DOMAIN oldNest :
        y.kind = "wing" /\ Hanging(oldNest[y]) =>
          /\ oldNest[y] \in Wings \cap Parts(oldNest)
          /\ engineOf[oldNest[y]] # Nil /\ oldNest[y] # Nil
  BY <1>0, InTheNests DEF Hanging, Wings, OrNil
<1>4. to \in Wings \cap Parts(newNest)
  BY <1>0, <1>1, InTheNests DEF Wings, OrNil
<1>5. PICK y0 \in DOMAIN oldNest :
        y0.kind = "wing" /\ Hanging(oldNest[y0]) /\ engineOf[oldNest[y0]] = engine
  BY <1>0, <1>2 DEF EnginesQueued
<1> DEFINE from == oldNest[y0]
<1>6. from \in Wings \cap Parts(oldNest) /\ engineOf[from] = engine /\ engine # Nil
  BY <1>3, <1>5
<1>7. \A v, w \in Wings \cap (Parts(oldNest) \cup Parts(newNest)) :
        engineOf[v] = engineOf[w] => v = w \/ engineOf[v] = Nil
  BY <1>0 DEF Conserved
<1>8. {w \in Range(oldNest) \cap Wings : engineOf[w] = engine} = {from}
  <2>1. Range(oldNest) \cap Wings = Wings \cap Parts(oldNest)
    BY SlotsApart DEF Parts, Wings
  <2> HIDE DEF engine, from
  <2> QED BY <1>6, <1>7, <2>1
<1>9. engineOf' = [w \in Wings |-> IF w = to THEN engine
                                   ELSE IF w = from THEN Nil ELSE engineOf[w]]
  <2>1. engineOf' = [w \in Wings |->
                      IF w = to THEN engine
                      ELSE IF w \in {v \in Range(oldNest) \cap Wings : engineOf[v] = engine}
                      THEN Nil ELSE engineOf[w]]
    BY DEF HangEngine
  <2> HIDE DEF engine, from, to
  <2> QED BY <1>8, <2>1
<1> HIDE DEF engine, from, to
<1>10. HangarTypeOK' /\ Conserved'
  <2>1. HangarTypes /\ Conserved /\ engineOf[to] = Nil /\ UNCHANGED <<oldNest, newNest, stage, before>>
    BY <1>0, <1>1
  <2>2. engineOf[from] = engine /\ engine # Nil /\ from \in Wings \cap Parts(oldNest)
    BY <1>6
  <2>3. /\ engineOf' \in [Wings -> Wings \cup {Nil}]
        /\ \A w \in Wings : engineOf'[w] = IF w = to THEN engine
                                          ELSE IF w = from THEN Nil ELSE engineOf[w]
    BY <1>0, <1>4, <1>6, <1>9 DEF HangarTypes, HangarTypeOK
  <2> QED BY <1>4, <2>1, <2>2, <2>3, EngineMoves
<1>11. HangarTypes'
  BY <1>0, <1>1, <1>2, <1>10 DEF HangarTypes
<1>12. NoneTwice'
  BY <1>0, <1>1, <1>2 DEF NoneTwice
(* Engines of other wings stay.                                            *)
<1>13. /\ \A w \in Wings \ {from, to} : engineOf'[w] = engineOf[w]
       /\ engineOf'[to] = engine /\ engineOf'[from] = Nil /\ from # to
  BY <1>0, <1>4, <1>6, <1>9
<1>14. \A y \in DOMAIN oldNest : y.kind = "wing" /\ oldNest[y] # Nil =>
         oldNest[y] \in Wings \cap Parts(oldNest) /\ oldNest[y] # to
  <2>1. to \notin Parts(oldNest)
    BY <1>0, <1>4 DEF Conserved
  <2> QED BY <1>0, <2>1, InTheNests DEF Wings, OrNil
<1>15. EnginesQueued'
  <2>1. ASSUME NEW e \in Range(spare'["engine"])
        PROVE  \E y \in DOMAIN oldNest : /\ y.kind = "wing" /\ oldNest[y] # Nil
                                         /\ engineOf'[oldNest[y]] # Nil /\ engineOf'[oldNest[y]] = e
    <3>1. e \in Range(spare["engine"]) /\ e # engine
      BY <1>2, <1>6
    <3>2. PICK y \in DOMAIN oldNest :
            y.kind = "wing" /\ Hanging(oldNest[y]) /\ engineOf[oldNest[y]] = e
      BY <1>0, <3>1 DEF EnginesQueued
    <3>3. oldNest[y] # from /\ oldNest[y] # Nil /\ e # Nil
      BY <1>3, <1>6, <3>1, <3>2
    <3>4. oldNest[y] \in Wings \ {from, to}
      BY <1>14, <3>2, <3>3
    <3> QED BY <1>13, <3>2, <3>3, <3>4
  <2>2. ASSUME NEW y \in DOMAIN oldNest, y.kind = "wing", oldNest[y] # Nil, engineOf'[oldNest[y]] # Nil
        PROVE  engineOf'[oldNest[y]] \in Range(spare'["engine"])
    <3>1. oldNest[y] \in Wings \ {from, to} /\ oldNest[y] \in Parts(oldNest)
      BY <1>13, <1>14, <2>2
    <3>2. engineOf[oldNest[y]] = engineOf'[oldNest[y]] /\ Hanging(oldNest[y])
      BY <1>13, <2>2, <3>1 DEF Hanging
    <3>3. engineOf[oldNest[y]] \in Range(spare["engine"])
      BY <1>0, <2>2, <3>2 DEF EnginesQueued, Passed
    <3>4. engineOf[oldNest[y]] # engine
      BY <1>6, <1>7, <3>1
    <3> QED BY <1>2, <3>2, <3>3, <3>4
  <2> QED BY <1>0, <1>1, <2>1, <2>2 DEF EnginesQueued, Passed, Hanging
<1>16. WingsServed'
  <2> SUFFICES ASSUME NEW x \in DOMAIN newNest, x.kind = "wing", newNest[x] # Nil,
                      engineOf'[newNest[x]] = Nil, x \notin Range(slotsLeft')
               PROVE  FALSE
    BY <1>0, <1>1 DEF WingsServed, Passed
  <2>1. newNest[x] \in Wings \cap Parts(newNest)
    BY <1>0, InTheNests DEF Wings, OrNil
  <2>2. newNest[x] # to /\ newNest[x] # from
    BY <1>0, <1>6, <1>13, <2>1 DEF Conserved
  <2>3. engineOf[newNest[x]] = Nil /\ x # slot
    BY <1>13, <2>1, <2>2 DEF to
  <2>4. x \notin Range(slotsLeft)
    BY <1>1, <2>3
  <2> QED BY <1>0, <2>3, <2>4 DEF WingsServed, Passed
<1>17. SlotsServed'
  BY <1>0, <1>1 DEF SlotsServed, AllDonors, NoneLeft
<1>18. PartsQueued' /\ NoNilQueued'
  BY <1>0, <1>1 DEF PartsQueued, NoNilQueued
<1> QED BY <1>10, <1>11, <1>12, <1>15, <1>16, <1>17, <1>18 DEF HangarInv

LEMMA PassByKeeps ==
  ASSUME HangarInv, PassBy
  PROVE  HangarInv'
<1>0. /\ HangarTypes /\ NoneTwice /\ PartsQueued /\ EnginesQueued /\ NoNilQueued
      /\ SlotsServed /\ WingsServed /\ Conserved
      /\ slotsLeft # <<>> /\ Visited /\ stage \in Loops \ {"queue parts"}
      /\ UNCHANGED <<oldNest, newNest, engineOf, spare>>
  BY DEF HangarInv, PassBy, Visiting, Loops
<1>1. /\ slotsLeft' \in Seq(AllSlots) /\ Range(slotsLeft) = {slot} \cup Range(slotsLeft')
      /\ stage' = stage /\ before' = before
      /\ stage = "queue engines" => NoRepeat(slotsLeft')
  BY <1>0, SlotVisited
<1>2. HangarTypes'
  BY <1>0, <1>1 DEF HangarTypes, HangarTypeOK
<1>3. NoneTwice'
  BY <1>0, <1>1 DEF NoneTwice, Loops
<1>4. Conserved'
  BY <1>0, <1>1, NothingMoved
<1>5. PartsQueued'
  BY <1>0, <1>1 DEF PartsQueued, Passed, Loops
<1>6. NoNilQueued'
  BY <1>0, <1>1 DEF NoNilQueued, AllDonors
<1>7. EnginesQueued'
  <2> SUFFICES ASSUME stage \in {"queue engines", "hang engines"} PROVE EnginesQueued'
    BY <1>1 DEF EnginesQueued
  <2>0. /\ \A w : Hanging(w)' <=> Hanging(w)
        /\ \A y : Passed("queue engines", y)' <=> (stage = "queue engines" => y \notin Range(slotsLeft'))
    BY <1>0, <1>1 DEF Hanging, Passed
  <2>1. ASSUME NEW e \in Range(spare["engine"])
        PROVE  \E y \in DOMAIN oldNest :
                 /\ y.kind = "wing" /\ Hanging(oldNest[y]) /\ engineOf[oldNest[y]] = e
                 /\ stage = "queue engines" => y \notin Range(slotsLeft')
    BY <1>0, <1>1 DEF EnginesQueued, Passed
  <2>2. ASSUME NEW y \in DOMAIN oldNest, y.kind = "wing", Hanging(oldNest[y]),
               stage = "queue engines" => y \notin Range(slotsLeft')
        PROVE  engineOf[oldNest[y]] \in Range(spare["engine"])
    <3>1. stage = "queue engines" => y # slot
      BY <2>2 DEF PassBy, Visiting, HasEngine
    <3>2. Passed("queue engines", y)
      BY <1>1, <2>2, <3>1 DEF Passed
    <3> QED BY <1>0, <2>2, <3>2 DEF EnginesQueued
  <2> QED BY <1>0, <1>1, <2>0, <2>1, <2>2 DEF EnginesQueued
<1>8. SlotsServed'
  <2> SUFFICES ASSUME NEW x \in DOMAIN newNest, newNest[x] = Nil, AllDonors(x.kind)
               PROVE  /\ stage = "fill slots" /\ x \notin Range(slotsLeft') => spare[x.kind] = <<>>
                      /\ stage \in {"queue engines", "hang engines", "repaired"} => NoneLeft(x.kind)
    BY <1>0, <1>1 DEF SlotsServed, Passed, AllDonors, NoneLeft
  <2>1. stage = "fill slots" /\ x = slot => spare[x.kind] = <<>>
    BY DEF PassBy, Visiting, NeedsPart
  <2> QED BY <1>0, <1>1, <2>1 DEF SlotsServed, Passed
<1>9. WingsServed'
  <2> SUFFICES ASSUME NEW x \in DOMAIN newNest, x.kind = "wing", newNest[x] # Nil,
                      engineOf[newNest[x]] = Nil, stage = "hang engines",
                      x \notin Range(slotsLeft')
               PROVE  spare["engine"] = <<>>
    BY <1>0, <1>1 DEF WingsServed, Passed, Hanging, Loops
  <2>1. x = slot => spare["engine"] = <<>>
    BY DEF PassBy, Visiting, NeedsEngine
  <2> QED BY <1>0, <1>1, <2>1 DEF WingsServed, Passed
<1> QED BY <1>2, <1>3, <1>4, <1>5, <1>6, <1>7, <1>8, <1>9 DEF HangarInv

LEMMA EndLoopKeeps ==
  ASSUME HangarInv, EndLoop
  PROVE  HangarInv'
<1>0. /\ HangarTypes /\ NoneTwice /\ PartsQueued /\ EnginesQueued /\ NoNilQueued
      /\ SlotsServed /\ WingsServed /\ Conserved
      /\ slotsLeft = <<>> /\ UNCHANGED <<oldNest, newNest, engineOf, spare, before>>
  BY DEF HangarInv, EndLoop, NextLoop
<1>1. Conserved'
  BY <1>0, NothingMoved
<1>2. /\ DOMAIN oldNest = Range(OldSlots) /\ DOMAIN newNest = Range(NewSlots)
      /\ \A y \in DOMAIN oldNest : y.kind \in Kinds \ {"engine"}
      /\ \A x \in DOMAIN newNest : x.kind \in Kinds \ {"engine"}
  BY <1>0, InTheNests, SlotsApart
<1>3. \A loop, y : Passed(loop, y)
  BY <1>0, NoneQueued DEF Passed
<1>4. \A k : (AllDonors(k)' <=> AllDonors(k)) /\ (NoneLeft(k)' <=> NoneLeft(k))
  BY <1>0 DEF AllDonors, NoneLeft
<1>5. \A w : Hanging(w)' <=> Hanging(w)
  BY <1>0 DEF Hanging
<1>6. HangarTypes' /\ NoneTwice'
  <2>1. /\ slotsLeft' \in Seq(AllSlots) /\ stage' \in Loops \cup {"repaired"} /\ stage' # "queue parts"
        /\ stage' = "queue engines" => slotsLeft' = OldSlots
        /\ stage' \in {"fill slots", "hang engines"} => slotsLeft' = NewSlots
    BY HangarAssumption, EmptySeq DEF EndLoop, NextLoop, Loops
  <2>2. HangarTypeOK'
    BY <1>0, <2>1 DEF HangarTypes, HangarTypeOK, Loops
  <2>3. HangarTypes'
    BY <1>0, <2>1, <2>2 DEF HangarTypes, Loops
  <2>4. NoneTwice'
    BY <1>0, <2>1, SlotsApart DEF NoneTwice
  <2> QED BY <2>3, <2>4
<1>7. CASE stage = "queue parts" /\ stage' = "fill slots" /\ slotsLeft' = NewSlots
  <2>1. PartsQueued'
    <3>1. stage \in {"queue parts", "fill slots"}
      BY <1>7
    <3>2. ASSUME NEW k \in Kinds \ {"engine"}, NEW p \in Range(spare[k]) \ {Nil}
          PROVE  \E y \in DOMAIN oldNest : y.kind = k /\ oldNest[y] = p
      <4>1. \E y \in DOMAIN oldNest : y.kind = k /\ oldNest[y] = p /\ Passed("queue parts", y)
        BY <1>0, <3>1, Zenon DEF PartsQueued
      <4> QED BY <4>1
    <3>3. ASSUME NEW y \in DOMAIN oldNest, oldNest[y] # Nil
          PROVE  oldNest[y] \in Range(spare[y.kind])
      BY <1>0, <1>3, <3>1, <3>3 DEF PartsQueued
    <3>4. spare["engine"] = <<>>
      BY <1>0, <3>1 DEF PartsQueued
    <3> QED BY <1>0, <1>7, <3>2, <3>3, <3>4 DEF PartsQueued, Passed
  <2>2. NoNilQueued'
    BY <1>0, <1>4, <1>7 DEF NoNilQueued
  <2>3. SlotsServed'
    BY <1>0, <1>2, <1>7 DEF SlotsServed, Passed
  <2>4. EnginesQueued' /\ WingsServed'
    BY <1>7 DEF EnginesQueued, WingsServed
  <2> QED BY <1>1, <1>6, <2>1, <2>2, <2>3, <2>4 DEF HangarInv
<1>8. CASE stage = "fill slots" /\ stage' = "queue engines" /\ slotsLeft' = OldSlots
  <2>1. ASSUME NEW x \in DOMAIN newNest, newNest[x] = Nil, AllDonors(x.kind) PROVE NoneLeft(x.kind)
    <3>1. spare[x.kind] = <<>>
      BY <1>0, <1>3, <1>8, <2>1 DEF SlotsServed
    <3>2. \A y \in DOMAIN oldNest : oldNest[y] # Nil => oldNest[y] \in Range(spare[y.kind])
      BY <1>0, <1>3, <1>8 DEF PartsQueued
    <3> QED BY <3>1, <3>2, NoneQueued DEF NoneLeft
  <2>2. SlotsServed'
    BY <1>0, <1>4, <1>8, <2>1 DEF SlotsServed
  <2>3. EnginesQueued'
    <3>1. spare["engine"] = <<>>
      BY <1>0, <1>8 DEF PartsQueued
    <3> QED BY <1>0, <1>2, <1>8, <3>1, NoneQueued DEF EnginesQueued, Passed
  <2>4. PartsQueued' /\ NoNilQueued' /\ WingsServed'
    BY <1>8 DEF PartsQueued, NoNilQueued, WingsServed
  <2> QED BY <1>1, <1>6, <2>2, <2>3, <2>4 DEF HangarInv
<1>9. CASE stage = "queue engines" /\ stage' = "hang engines" /\ slotsLeft' = NewSlots
  <2>1. EnginesQueued'
    BY <1>0, <1>3, <1>5, <1>9 DEF EnginesQueued, Passed
  <2>2. SlotsServed'
    BY <1>0, <1>4, <1>9 DEF SlotsServed
  <2>3. WingsServed'
    BY <1>0, <1>2, <1>9 DEF WingsServed, Passed
  <2>4. PartsQueued' /\ NoNilQueued'
    BY <1>9 DEF PartsQueued, NoNilQueued
  <2> QED BY <1>1, <1>6, <2>1, <2>2, <2>3, <2>4 DEF HangarInv
<1>10. CASE stage = "hang engines" /\ stage' = "repaired"
  <2>1. SlotsServed'
    BY <1>0, <1>4, <1>10 DEF SlotsServed
  <2>2. ASSUME NEW x \in DOMAIN newNest, x.kind = "wing", newNest[x] # Nil, engineOf[newNest[x]] = Nil,
               NEW y \in DOMAIN oldNest, y.kind = "wing"
        PROVE  ~Hanging(oldNest[y])
    <3>1. spare["engine"] = <<>>
      BY <1>0, <1>3, <1>10, <2>2 DEF WingsServed
    <3>2. Hanging(oldNest[y]) => engineOf[oldNest[y]] \in Range(spare["engine"])
      BY <1>0, <1>3, <1>10, <2>2 DEF EnginesQueued
    <3> QED BY <3>1, <3>2, NoneQueued
  <2>3. WingsServed'
    BY <1>0, <1>5, <1>10, <2>2 DEF WingsServed
  <2>4. PartsQueued' /\ EnginesQueued' /\ NoNilQueued'
    BY <1>10 DEF PartsQueued, EnginesQueued, NoNilQueued
  <2> QED BY <1>1, <1>6, <2>1, <2>3, <2>4 DEF HangarInv
<1> QED BY <1>7, <1>8, <1>9, <1>10 DEF EndLoop, NextLoop

LEMMA HangarKeeps == HangarInv /\ [HangarNext]_hangarVars => HangarInv'
<1> SUFFICES ASSUME HangarInv, [HangarNext]_hangarVars PROVE HangarInv'
  OBVIOUS
<1>1. ASSUME NEW missing \in SUBSET AllSlots, NEW bare \in SUBSET (Wings \ missing),
             Repair(missing, bare)
      PROVE  HangarInv'
  BY <1>1, RepairKeeps
<1>2. CASE QueuePart
  BY <1>2, QueuePartKeeps
<1>3. CASE FillSlot
  BY <1>3, FillSlotKeeps
<1>4. CASE QueueEngine
  BY <1>4, QueueEngineKeeps
<1>5. CASE HangEngine
  BY <1>5, HangEngineKeeps
<1>6. CASE PassBy
  BY <1>6, PassByKeeps
<1>7. CASE EndLoop
  BY <1>7, EndLoopKeeps
<1>8. CASE UNCHANGED hangarVars
  <2>1. UNCHANGED <<oldNest, newNest, engineOf, spare, slotsLeft, stage, before>>
    BY <1>8 DEF hangarVars
  <2>2. HangarTypes' /\ NoneTwice' /\ Conserved'
    BY <2>1, NothingMoved DEF HangarInv, HangarTypes, HangarTypeOK, NoneTwice
  <2>3. PartsQueued' /\ NoNilQueued'
    BY <2>1 DEF HangarInv, PartsQueued, NoNilQueued, Passed, AllDonors
  <2>4. EnginesQueued'
    BY <2>1 DEF HangarInv, EnginesQueued, Passed, Hanging
  <2>5. SlotsServed'
    BY <2>1 DEF HangarInv, SlotsServed, Passed, AllDonors, NoneLeft
  <2>6. WingsServed'
    BY <2>1 DEF HangarInv, WingsServed, Passed, Hanging
  <2> QED BY <2>2, <2>3, <2>4, <2>5, <2>6 DEF HangarInv
<1> QED BY <1>1, <1>2, <1>3, <1>4, <1>5, <1>6, <1>7, <1>8 DEF HangarNext

LEMMA HangarImplies == HangarInv => HangarTypeOK /\ Conserved /\ NothingSpared
<1> SUFFICES ASSUME HangarInv PROVE HangarTypeOK /\ Conserved /\ NothingSpared
  OBVIOUS
<1>1. HangarTypes /\ Conserved /\ SlotsServed /\ WingsServed
  BY DEF HangarInv
<1>2. ASSUME stage = "repaired", NEW x \in DOMAIN newNest, newNest[x] = Nil, AllDonors(x.kind)
      PROVE  NoneLeft(x.kind)
  BY <1>1, <1>2 DEF SlotsServed
<1>3. ASSUME stage = "repaired", NEW v \in Wings \cap Parts(newNest), engineOf[v] = Nil,
             NEW w \in Wings \cap Parts(oldNest)
      PROVE  engineOf[w] = Nil
  <2>1. PICK x \in DOMAIN newNest : newNest[x] = v /\ v # Nil
    BY <1>1, InTheNests
  <2>2. PICK y \in DOMAIN oldNest : oldNest[y] = w /\ w # Nil
    BY <1>1, InTheNests
  <2>3. x.kind = "wing" /\ y.kind = "wing"
    BY <1>1, <2>1, <2>2, InTheNests DEF Wings
  <2> QED BY <1>1, <1>3, <2>1, <2>2, <2>3 DEF WingsServed, Hanging
<1>4. NothingSpared
  BY <1>2, <1>3 DEF NothingSpared, AllDonors, NoneLeft
<1> QED BY <1>1, <1>4 DEF HangarTypes

(* Slots hold parts of their own kind, whatever the aircraft of the nests. *)
THEOREM HangarTypeCorrect == HangarSpec => []HangarTypeOK
<1> QED BY HangarStarts, HangarKeeps, HangarImplies, PTL DEF HangarSpec

(* Repair loses, makes and doubles no part and no engine, at any step.     *)
THEOREM HangarConserves == HangarSpec => []Conserved
<1> QED BY HangarStarts, HangarKeeps, HangarImplies, PTL DEF HangarSpec

(* What Repair leaves undone it could not do, whatever was missing.        *)
THEOREM HangarSparesNothing == HangarSpec => []NothingSpared
<1> QED BY HangarStarts, HangarKeeps, HangarImplies, PTL DEF HangarSpec

-----------------------------------------------------------------------------
(* The flights whose occupation has begun and not ended in the sweep.      *)
Occupied == {i \in Scheduled : StartOf(i) \notin events /\ EndOf(i) \in events}

(* What was swept over is not later than what was not.                     *)
SweptFirst == \A e \in events, f \in Events \ events : ~Earlier(e, f)

(* Some moment needs the runways counted, and a moment by which no further *)
(* occupation begins does not need more.                                   *)
Begun(m) == \A i \in Scheduled : Start(flights[i]) <= m => StartOf(i) \notin events
Counted ==
  /\ maxRunways = 0 \/ \E m \in Moments : maxRunways <= Cardinality(Occupying(m))
  /\ \A m \in Moments : Begun(m) => Cardinality(Occupying(m)) <= maxRunways

AirportInv ==
  /\ flights \in Seq(Flight) /\ events \subseteq Events
  /\ phase \in {"read", "sweep", "printed"}
  /\ maxRunways \in Nat /\ current <= maxRunways
  /\ current = Cardinality(Occupied)
  /\ phase = "read" => events = {} /\ maxRunways = 0
  /\ phase = "printed" => events = {}
  /\ phase # "read" => SweptFirst /\ Counted

LEMMA AirportStarts == AirportInit => AirportInv
<1> SUFFICES ASSUME AirportInit PROVE AirportInv
  OBVIOUS
<1>1. flights \in Seq(Flight) /\ events = {} /\ Occupied = {}
  BY DEF AirportInit, Occupied
<1> QED BY <1>1, FS_EmptySet DEF AirportInit, AirportInv

(* Moments and flights of a finite list.                                   *)
LEMMA FlightFacts ==
  ASSUME flights \in Seq(Flight)
  PROVE  /\ \A i \in Scheduled :
              /\ Start(flights[i]) \in Int /\ End(flights[i]) \in Int
              /\ Start(flights[i]) < End(flights[i])
         /\ IsFiniteSet(Scheduled) /\ Cardinality(Scheduled) <= Len(flights)
         /\ \A i, j \in Scheduled :
              /\ StartOf(i) # EndOf(j)
              /\ StartOf(i) = StartOf(j) => i = j
              /\ EndOf(i) = EndOf(j) => i = j
<1>1. DOMAIN flights = 1..Len(flights) /\ Len(flights) \in Nat
  BY LenProperties
<1>2. \A i \in Scheduled : flights[i] \in Flight
  BY <1>1, ElementOfSeq DEF Scheduled
<1>3. \A i \in Scheduled : flights[i].TehranTime \in Int /\ flights[i].FromTehran \in BOOLEAN
  BY <1>2, AirportAssumption DEF Flight
<1>4. \A i \in Scheduled :
        /\ Start(flights[i]) \in Int /\ End(flights[i]) \in Int
        /\ Start(flights[i]) < End(flights[i])
  BY <1>3 DEF Start, End
<1>5. IsFiniteSet(1..Len(flights)) /\ Cardinality(1..Len(flights)) = Len(flights)
  BY <1>1, FS_Interval
<1>6. Scheduled \in SUBSET (1..Len(flights))
  BY <1>1 DEF Scheduled
<1>7. IsFiniteSet(Scheduled) /\ Cardinality(Scheduled) <= Len(flights)
  BY <1>5, <1>6, FS_Subset
<1>8. \A i, j \in Scheduled :
        /\ StartOf(i) # EndOf(j)
        /\ StartOf(i) = StartOf(j) => i = j
        /\ EndOf(i) = EndOf(j) => i = j
  BY DEF StartOf, EndOf
<1> QED BY <1>4, <1>7, <1>8

LEMMA SomeScheduled ==
  ASSUME flights \in Seq(Flight), NEW S \in SUBSET Scheduled
  PROVE  IsFiniteSet(S) /\ Cardinality(S) \in Nat /\ Cardinality(S) <= Len(flights)
<1>1. IsFiniteSet(Scheduled) /\ Cardinality(Scheduled) <= Len(flights) /\ Len(flights) \in Nat
  BY FlightFacts, LenProperties
<1>2. IsFiniteSet(S) /\ Cardinality(S) <= Cardinality(Scheduled)
  BY <1>1, FS_Subset
<1> QED BY <1>1, <1>2, FS_CardinalityType

(* Of two flights' events.                                                 *)
LEMMA WhichIsEarlier ==
  ASSUME NEW i \in Scheduled, NEW j \in Scheduled
  PROVE  /\ Earlier(StartOf(i), StartOf(j)) <=> Start(flights[i]) < Start(flights[j])
         /\ Earlier(EndOf(i), StartOf(j)) <=> End(flights[i]) < Start(flights[j])
         /\ Earlier(StartOf(i), EndOf(j)) <=>
              \/ Start(flights[i]) < End(flights[j])
              \/ Start(flights[i]) = End(flights[j])
BY DEF Earlier, StartOf, EndOf

LEMMA ReadKeeps ==
  ASSUME AirportInv, NEW f \in Flight, ReadFlight(f)
  PROVE  AirportInv'
<1>1. /\ flights' \in Seq(Flight) /\ phase = "read" /\ events = {}
      /\ UNCHANGED <<events, current, maxRunways, phase>>
  BY DEF AirportInv, ReadFlight
<1>2. Occupied = {} /\ Occupied' = {}
  BY <1>1 DEF Occupied
<1> QED BY <1>1, <1>2 DEF AirportInv

LEMMA AdminKeeps ==
  ASSUME AirportInv, Admin
  PROVE  AirportInv'
<1>1. /\ flights \in Seq(Flight) /\ events' = Events /\ maxRunways' = 0 /\ current' = current
      /\ flights' = flights /\ phase' = "sweep" /\ current = Cardinality(Occupied)
      /\ events = {} /\ current <= 0
  BY DEF AirportInv, Admin
<1>2. Scheduled' = Scheduled /\ Events' = Events /\ Moments' = Moments
  BY <1>1 DEF Scheduled, Events, Moments, Occupation, StartOf, EndOf
<1>3. /\ \A i \in Scheduled : StartOf(i) \in Events /\ EndOf(i) \in Events
      /\ \A i \in Scheduled : StartOf(i)' = StartOf(i) /\ EndOf(i)' = EndOf(i)
      /\ \A m : Occupying(m)' = Occupying(m)
  BY <1>1, <1>2 DEF Events, StartOf, EndOf, Occupying, Occupation
<1>4. Occupied = {} /\ Occupied' = {}
  BY <1>1, <1>2, <1>3 DEF Occupied
<1>5. SweptFirst'
  BY <1>1, <1>2 DEF SweptFirst
<1>6. ASSUME NEW m \in Moments, Begun(m)' PROVE Cardinality(Occupying(m)) = 0
  <2>1. \A i \in Scheduled : ~(Start(flights[i]) <= m)
    BY <1>1, <1>2, <1>3, <1>6 DEF Begun
  <2>2. Occupying(m) = {}
    BY <1>1, <2>1, FlightFacts DEF Occupying, Occupation
  <2> QED BY <2>2, FS_EmptySet
<1>7. Counted'
  BY <1>1, <1>2, <1>3, <1>6 DEF Counted
<1> QED BY <1>1, <1>2, <1>4, <1>5, <1>7, FS_EmptySet DEF AirportInv

(* One event more or less swept over.                                      *)
LEMMA SweepStart ==
  ASSUME AirportInv, NEW i \in Scheduled, StartOf(i) \in events, SweepEvent(StartOf(i))
  PROVE  /\ Occupied' = Occupied \cup {i} /\ i \notin Occupied
         /\ Occupied' \subseteq Occupying(Start(flights[i]))
         /\ \A m \in Moments : Start(flights[i]) <= m /\ Begun(m)' =>
              Occupying(m) \subseteq Occupied'
<1>1. /\ flights \in Seq(Flight) /\ flights' = flights /\ events' = events \ {StartOf(i)}
      /\ SweptFirst /\ events \subseteq Events /\ \A f \in events : ~Earlier(f, StartOf(i))
  BY DEF AirportInv, SweepEvent
<1>2. /\ Scheduled' = Scheduled
      /\ \A j \in Scheduled : StartOf(j)' = StartOf(j) /\ EndOf(j)' = EndOf(j)
      /\ \A j \in Scheduled : StartOf(j) \in Events /\ EndOf(j) \in Events
  BY <1>1 DEF Scheduled, StartOf, EndOf, Events
<1>3. EndOf(i) \in events
  BY <1>1, <1>2, FlightFacts, WhichIsEarlier DEF SweptFirst
<1>4. \A j \in Scheduled :
        /\ StartOf(j) \notin events' <=> StartOf(j) \notin events \/ j = i
        /\ EndOf(j) \in events' <=> EndOf(j) \in events
  BY <1>1, FlightFacts
<1>5. Occupied' = Occupied \cup {i} /\ i \notin Occupied
  BY <1>2, <1>3, <1>4 DEF Occupied
<1>6. ASSUME NEW j \in Occupied PROVE j \in Occupying(Start(flights[i]))
  <2>1. j \in Scheduled /\ StartOf(j) \notin events /\ EndOf(j) \in events
    BY <1>6 DEF Occupied
  <2>2. ~(Start(flights[i]) < Start(flights[j])) /\ ~(End(flights[j]) < Start(flights[i]))
    BY <1>1, <1>2, <2>1, WhichIsEarlier DEF SweptFirst
  <2> QED BY <1>1, <2>1, <2>2, FlightFacts DEF Occupying, Occupation
<1>7. i \in Occupying(Start(flights[i]))
  BY <1>1, FlightFacts DEF Occupying, Occupation
<1>8. ASSUME NEW m \in Moments, Start(flights[i]) <= m, Begun(m)', NEW j \in Occupying(m)
      PROVE  j \in Occupied'
  <2>1. /\ j \in Scheduled /\ Start(flights[j]) <= m /\ m <= End(flights[j]) /\ m \in Int
        /\ Start(flights[i]) \in Int /\ End(flights[j]) \in Int
    BY <1>1, <1>8, FlightFacts DEF Occupying, Occupation
  <2>2. StartOf(j) \notin events'
    BY <1>1, <1>2, <1>8, <2>1 DEF Begun
  <2>3. Start(flights[i]) < End(flights[j]) \/ Start(flights[i]) = End(flights[j])
    BY <1>8, <2>1
  <2>4. EndOf(j) \in events
    BY <1>1, <1>2, <2>1, <2>3, WhichIsEarlier DEF SweptFirst
  <2> QED BY <1>2, <1>4, <2>1, <2>2, <2>4 DEF Occupied
<1> QED BY <1>5, <1>6, <1>7, <1>8

LEMMA SweepEnd ==
  ASSUME AirportInv, NEW i \in Scheduled, EndOf(i) \in events, SweepEvent(EndOf(i))
  PROVE  /\ Occupied' = Occupied \ {i} /\ i \in Occupied
         /\ \A m \in Moments : Begun(m)' => Begun(m)
<1>1. /\ flights \in Seq(Flight) /\ flights' = flights /\ events' = events \ {EndOf(i)}
      /\ SweptFirst /\ events \subseteq Events /\ \A f \in events : ~Earlier(f, EndOf(i))
  BY DEF AirportInv, SweepEvent
<1>2. /\ Scheduled' = Scheduled
      /\ \A j \in Scheduled : StartOf(j)' = StartOf(j) /\ EndOf(j)' = EndOf(j)
  BY <1>1 DEF Scheduled, StartOf, EndOf
<1>3. StartOf(i) \notin events
  BY <1>1, FlightFacts, WhichIsEarlier
<1>4. \A j \in Scheduled :
        /\ StartOf(j) \in events' <=> StartOf(j) \in events
        /\ EndOf(j) \in events' <=> EndOf(j) \in events /\ j # i
  BY <1>1, FlightFacts
<1>5. Occupied' = Occupied \ {i} /\ i \in Occupied
  BY <1>2, <1>3, <1>4 DEF Occupied
<1>6. \A m \in Moments : Begun(m)' => Begun(m)
  BY <1>1, <1>2, <1>4 DEF Begun
<1> QED BY <1>5, <1>6

LEMMA SweepEventKeeps ==
  ASSUME AirportInv, NEW e \in events, SweepEvent(e)
  PROVE  AirportInv'
<1>1. /\ flights \in Seq(Flight) /\ UNCHANGED <<flights, phase>> /\ events' = events \ {e}
      /\ SweptFirst /\ Counted /\ events \subseteq Events /\ phase = "sweep"
      /\ current = Cardinality(Occupied) /\ current <= maxRunways /\ maxRunways \in Nat
      /\ current' = current + e.delta
      /\ maxRunways' = IF current' > maxRunways THEN current' ELSE maxRunways
      /\ \A f \in events : ~Earlier(f, e)
  BY DEF AirportInv, SweepEvent
<1>2. /\ Scheduled' = Scheduled /\ Events' = Events /\ Moments' = Moments
      /\ \A m : Occupying(m)' = Occupying(m)
  BY <1>1 DEF Scheduled, Events, StartOf, EndOf, Moments, Occupying, Occupation
<1>3. Occupied \in SUBSET Scheduled /\ Occupied' \in SUBSET Scheduled
  BY <1>2 DEF Occupied
<1>4. IsFiniteSet(Occupied) /\ Cardinality(Occupied) \in Nat
  BY <1>1, <1>3, SomeScheduled
<1>5. SweptFirst'
  BY <1>1, <1>2 DEF SweptFirst
<1>6. current' = Cardinality(Occupied') /\ Counted'
  <2>1. CASE \E i \in Scheduled : e = StartOf(i)
    <3>1. PICK i \in Scheduled : e = StartOf(i)
      BY <2>1
    <3>2. /\ Occupied' = Occupied \cup {i} /\ i \notin Occupied
          /\ Occupied' \subseteq Occupying(Start(flights[i]))
          /\ \A m \in Moments : Start(flights[i]) <= m /\ Begun(m)' =>
               Occupying(m) \subseteq Occupied'
      BY <3>1, SweepStart
    <3>3. Cardinality(Occupied') = Cardinality(Occupied) + 1
      BY <1>4, <3>2, FS_AddElement
    <3>4. e.delta = 1
      BY <3>1 DEF StartOf
    <3>5. current' = Cardinality(Occupied') /\ current' \in Nat /\ current' <= maxRunways'
      BY <1>1, <1>4, <3>3, <3>4
    <3>6. \A m : Occupying(m) \in SUBSET Scheduled
      BY DEF Occupying
    <3>7. \A m : IsFiniteSet(Occupying(m)) /\ Cardinality(Occupying(m)) \in Nat
      BY <1>1, <3>6, SomeScheduled
    <3>8. ASSUME maxRunways' # maxRunways
          PROVE  \E m \in Moments : maxRunways' <= Cardinality(Occupying(m))
      <4>1. Start(flights[i]) \in Moments
        BY <1>1, FlightFacts DEF Moments, Occupation
      <4>2. Cardinality(Occupied') <= Cardinality(Occupying(Start(flights[i])))
        BY <3>2, <3>7, FS_Subset
      <4>3. maxRunways' = Cardinality(Occupied')
        BY <1>1, <3>5, <3>8
      <4> QED BY <4>1, <4>2, <4>3
    <3>9. ASSUME NEW m \in Moments, Begun(m)'
          PROVE  Cardinality(Occupying(m)) <= maxRunways'
      <4>1. CASE Start(flights[i]) <= m
        <5>1. Cardinality(Occupying(m)) <= Cardinality(Occupied')
          <6>1. IsFiniteSet(Occupied')
            BY <1>1, <1>3, SomeScheduled
          <6> QED BY <3>2, <3>9, <4>1, <6>1, FS_Subset
        <5> QED BY <1>1, <3>5, <3>7, <5>1
      <4>2. CASE ~(Start(flights[i]) <= m)
        <5>1. Begun(m)
          <6> SUFFICES ASSUME NEW j \in Scheduled, Start(flights[j]) <= m
                       PROVE  StartOf(j) \notin events
            BY DEF Begun
          <6>1. StartOf(j)' = StartOf(j) /\ Start(flights[j])' = Start(flights[j])
            BY <1>1 DEF StartOf
          <6>2. StartOf(j) \notin events'
            BY <1>1, <1>2, <3>9, <6>1 DEF Begun
          <6>3. StartOf(j) # e
            BY <1>1, <3>1, <4>2, FlightFacts
          <6> QED BY <1>1, <6>2, <6>3
        <5>2. Cardinality(Occupying(m)) <= maxRunways
          BY <1>1, <3>9, <5>1 DEF Counted
        <5> QED BY <1>1, <3>5, <3>7, <5>2
      <4> QED BY <4>1, <4>2
    <3>10. Counted'
      BY <1>1, <1>2, <3>8, <3>9 DEF Counted
    <3> QED BY <3>5, <3>10
  <2>2. CASE \E i \in Scheduled : e = EndOf(i)
    <3>1. PICK i \in Scheduled : e = EndOf(i)
      BY <2>2
    <3>2. /\ Occupied' = Occupied \ {i} /\ i \in Occupied
          /\ \A m \in Moments : Begun(m)' => Begun(m)
      BY <3>1, SweepEnd
    <3>3. Cardinality(Occupied') = Cardinality(Occupied) - 1
      BY <1>4, <3>2, FS_RemoveElement
    <3>4. e.delta = -1
      BY <3>1 DEF EndOf
    <3>5. current' = Cardinality(Occupied') /\ maxRunways' = maxRunways
      BY <1>1, <1>4, <3>3, <3>4
    <3>6. Counted'
      BY <1>1, <1>2, <3>2, <3>5 DEF Counted
    <3> QED BY <3>5, <3>6
  <2> QED BY <1>1, <2>1, <2>2 DEF Events
<1>7. Cardinality(Occupied') \in Nat
  BY <1>1, <1>3, SomeScheduled
<1> QED BY <1>1, <1>2, <1>5, <1>6, <1>7 DEF AirportInv

LEMMA AirportKeeps == AirportInv /\ [AirportNext]_airportVars => AirportInv'
<1> SUFFICES ASSUME AirportInv, [AirportNext]_airportVars PROVE AirportInv'
  OBVIOUS
<1>1. CASE \E f \in Flight : ReadFlight(f)
  BY <1>1, ReadKeeps
<1>2. CASE Admin
  BY <1>2, AdminKeeps
<1>3. CASE \E e \in events : SweepEvent(e)
  BY <1>3, SweepEventKeeps
<1>4. CASE PrintRunways \/ UNCHANGED airportVars
  <2>1. /\ UNCHANGED <<flights, events, current, maxRunways>>
        /\ phase' = phase \/ (phase = "sweep" /\ events = {} /\ phase' = "printed")
    BY <1>4 DEF PrintRunways, airportVars
  <2>2. /\ Scheduled' = Scheduled /\ Events' = Events /\ Moments' = Moments
        /\ \A m : Occupying(m)' = Occupying(m) /\ (Begun(m)' <=> Begun(m))
    BY <2>1 DEF Scheduled, Events, StartOf, EndOf, Moments, Occupying, Occupation, Begun
  <2>3. Occupied' = Occupied
    BY <2>1, <2>2 DEF Occupied, StartOf, EndOf
  <2>4. (SweptFirst => SweptFirst') /\ (Counted => Counted')
    BY <2>1, <2>2 DEF SweptFirst, Counted
  <2> QED BY <2>1, <2>2, <2>3, <2>4 DEF AirportInv
<1> QED BY <1>1, <1>2, <1>3, <1>4 DEF AirportNext

LEMMA AirportImplies == AirportInv => AirportTypeOK /\ RunwaysNeeded
<1> SUFFICES ASSUME AirportInv PROVE AirportTypeOK /\ RunwaysNeeded
  OBVIOUS
<1>1. /\ flights \in Seq(Flight) /\ Len(flights) \in Nat /\ maxRunways \in Nat
      /\ current = Cardinality(Occupied) /\ current <= maxRunways
      /\ phase \in {"read", "sweep", "printed"}
  BY LenProperties DEF AirportInv
<1>2. Occupied \in SUBSET Scheduled /\ \A m : Occupying(m) \in SUBSET Scheduled
  BY DEF Occupied, Occupying
<1>3. /\ Cardinality(Occupied) \in Nat /\ Cardinality(Occupied) <= Len(flights)
      /\ \A m : Cardinality(Occupying(m)) \in Nat /\ Cardinality(Occupying(m)) <= Len(flights)
  BY <1>1, <1>2, SomeScheduled
<1>4. maxRunways <= Len(flights)
  BY <1>1, <1>3 DEF AirportInv, Counted
<1>5. phase = "printed" => current = 0
  <2> SUFFICES ASSUME phase = "printed" PROVE Cardinality(Occupied) = 0
    BY <1>1
  <2>1. Occupied = {}
    BY DEF AirportInv, Occupied
  <2> QED BY <2>1, FS_EmptySet
<1>6. AirportTypeOK
  BY <1>1, <1>3, <1>4, <1>5 DEF AirportTypeOK
<1>7. ASSUME phase = "printed"
      PROVE  maxRunways = Max({0} \cup {Cardinality(Occupying(m)) : m \in Moments})
  <2> DEFINE needed == {0} \cup {Cardinality(Occupying(m)) : m \in Moments}
  <2>1. Counted /\ \A m \in Moments : Begun(m)
    BY <1>7 DEF AirportInv, Begun
  <2>2. \A n \in needed : n \in Nat /\ n <= maxRunways
    BY <1>1, <1>3, <2>1 DEF Counted
  <2>3. maxRunways \in needed
    <3>1. CASE maxRunways = 0
      BY <3>1
    <3>2. CASE maxRunways # 0
      <4>1. PICK m \in Moments : maxRunways <= Cardinality(Occupying(m))
        BY <2>1, <3>2 DEF Counted
      <4>2. Cardinality(Occupying(m)) \in needed
        OBVIOUS
      <4>3. Cardinality(Occupying(m)) = maxRunways
        BY <1>1, <1>3, <2>2, <4>1, <4>2
      <4> QED BY <4>2, <4>3
    <3> QED BY <3>1, <3>2
  <2> HIDE DEF needed
  <2>4. \A n \in needed : (\A k \in needed : n >= k) => n = maxRunways
    BY <1>1, <2>2, <2>3
  <2>5. \A k \in needed : maxRunways >= k
    BY <1>1, <2>2
  <2>6. Max(needed) = maxRunways
    BY <2>3, <2>4, <2>5 DEF Max
  <2> QED BY <2>6 DEF needed
<1> QED BY <1>6, <1>7 DEF RunwaysNeeded

(* The counts of the sweep stay within the number of flights read, for any *)
(* flights and times, and the count comes back to zero.                    *)
THEOREM AirportTypeCorrect == AirportSpec => []AirportTypeOK
<1> QED BY AirportStarts, AirportKeeps, AirportImplies, PTL DEF AirportSpec

(* For any flights and times the number printed is the largest number of   *)
(* flights that need a runway at one moment, although the sweep looks at   *)
(* the moments where something begins or ends only, in whatever order the  *)
(* sort leaves events it finds equal.                                      *)
THEOREM AirportRunways == AirportSpec => []RunwaysNeeded
<1> QED BY AirportStarts, AirportKeeps, AirportImplies, PTL DEF AirportSpec

-----------------------------------------------------------------------------
(* The array and what is in it, at every step of a loop.                   *)
Kept ==
  /\ seq \in 0..MaxSeq
  /\ Size(mq) \in Nat /\ DOMAIN mq = 0..Size(mq) - 1
  /\ \A i \in DOMAIN mq : mq[i] \in [Seq : 1..seq, Priority : Priorities, Index : {i}]
  /\ \A i, j \in DOMAIN mq : mq[i].Seq = mq[j].Seq => i = j
  /\ removed \subseteq [Seq : 1..seq, Priority : Priorities, Index : {-1}]
  /\ \A m \in removed, i \in DOMAIN mq : m.Seq # mq[i].Seq

(* Between calls the array is a heap; a loop at a node has it but for that *)
(* node and its parent, or its children, and its children are in order     *)
(* with its parent.                                                        *)
Heap == \A i \in DOMAIN mq : i # 0 => ~Less(mq, i, Parent(i))
HeapAbove ==
  /\ \A i \in DOMAIN mq : i # 0 /\ i # node => ~Less(mq, i, Parent(i))
  /\ \A i \in DOMAIN mq : i # 0 /\ node # 0 /\ Parent(i) = node => ~Less(mq, i, Parent(node))
HeapBelow ==
  /\ \A i \in 1..LastIndex - 1 : Parent(i) # node => ~Less(mq, i, Parent(i))
  /\ \A i \in 1..LastIndex - 1 : node # 0 /\ Parent(i) = node => ~Less(mq, i, Parent(node))
  /\ \A i \in 0..LastIndex - 1 : Less(mq, LastIndex, i)

QueueInv ==
  /\ Kept
  /\ sifting \in {"no", "up", "down"}
  /\ sifting # "no" => node \in DOMAIN mq
  /\ sifting = "no" => Heap
  /\ sifting = "up" => HeapAbove
  /\ sifting = "down" => HeapBelow /\ (node # 0 => node < LastIndex)

(* The one of three places that another has exchanged with.                *)
Seat(i, j, k) == IF k = i THEN j ELSE IF k = j THEN i ELSE k

LEMMA ParentIs ==
  /\ \A i \in Nat : i # 0 =>
       /\ Parent(i) \in Nat /\ Parent(i) < i
       /\ i = 2 * Parent(i) + 1 \/ i = 2 * Parent(i) + 2
  /\ \A i \in Nat : Parent(2 * i + 1) = i /\ Parent(2 * i + 2) = i
BY DEF Parent

LEMMA ParentWithin ==
  ASSUME NEW n \in Int
  PROVE  /\ \A i \in 0..n : i # 0 => Parent(i) \in 0..n /\ Parent(i) < i /\ Parent(i) # i
         /\ \A i \in 0..n, j \in 0..n : i # 0 /\ Parent(i) = j =>
              i = 2 * j + 1 \/ i = 2 * j + 2
<1>1. ASSUME NEW i \in 0..n, i # 0
      PROVE  /\ Parent(i) \in 0..n /\ Parent(i) < i /\ Parent(i) # i
             /\ i = 2 * Parent(i) + 1 \/ i = 2 * Parent(i) + 2
  <2>1. i \in Nat
    OBVIOUS
  <2>2. Parent(i) \in Nat /\ Parent(i) < i /\ (i = 2 * Parent(i) + 1 \/ i = 2 * Parent(i) + 2)
    BY <1>1, <2>1, ParentIs
  <2> QED BY <2>1, <2>2
<1> QED BY <1>1

(* A set of numbers that is not empty has a least one.                     *)
LEMMA LeastOf ==
  ASSUME NEW S \in SUBSET Nat, S # {}
  PROVE  \E i \in S : \A j \in S : ~(j < i)
<1>1. IsWellFoundedOn(OpToRel(<, Nat), Nat)
  BY NatLessThanWellFounded
<1>2. PICK i \in S : \A j \in S : <<j, i>> \notin OpToRel(<, Nat)
  BY <1>1, WFMin
<1>3. \A j \in Nat : j < i => <<j, i>> \in OpToRel(<, Nat)
  BY <1>2 DEF OpToRel
<1> QED BY <1>2, <1>3

(* Less orders the messages of the array.                                  *)
LEMMA LessOrders ==
  ASSUME Kept
  PROVE  /\ \A a, b \in DOMAIN mq : Less(mq, a, b) => ~Less(mq, b, a)
         /\ \A a, b \in DOMAIN mq : a # b /\ ~Less(mq, b, a) => Less(mq, a, b)
         /\ \A a, b, c \in DOMAIN mq :
              ~Less(mq, b, a) /\ ~Less(mq, c, b) => ~Less(mq, c, a)
<1>1. \A a \in DOMAIN mq : mq[a].Priority \in Int /\ mq[a].Seq \in Int
  <2>1. \A a \in DOMAIN mq : mq[a].Priority \in Priorities /\ mq[a].Seq \in 1..seq
    BY DEF Kept
  <2>2. seq \in Int /\ Priorities \subseteq Int
    BY QueueAssumption DEF Kept
  <2>3. \A x \in 1..seq : x \in Int
    BY <2>2
  <2> QED BY <2>1, <2>2, <2>3
<1>2. \A a, b \in DOMAIN mq : mq[a].Seq = mq[b].Seq => a = b
  BY DEF Kept
<1> QED BY <1>1, <1>2 DEF Less

(* The root of a heap goes first.                                          *)
LEMMA RootFirst ==
  ASSUME Kept, Heap, NEW i \in DOMAIN mq, i # 0
  PROVE  Less(mq, 0, i)
<1> DEFINE S == {k \in DOMAIN mq : Less(mq, k, 0)}
<1>1. DOMAIN mq \in SUBSET Nat /\ 0 \in DOMAIN mq
  BY DEF Kept
<1>2. S = {}
  <2> SUFFICES ASSUME S # {} PROVE FALSE
    OBVIOUS
  <2>1. PICK k \in S : \A j \in S : ~(j < k)
    BY <1>1, LeastOf
  <2>2. k \in DOMAIN mq /\ Less(mq, k, 0) /\ k \in Nat
    BY <1>1, <2>1
  <2>3. k # 0
    BY <1>1, <2>2, LessOrders
  <2>4. Parent(k) \in Nat /\ Parent(k) < k /\ Parent(k) \in DOMAIN mq
    <3>1. Size(mq) - 1 \in Int /\ DOMAIN mq = 0..Size(mq) - 1
      BY DEF Kept
    <3>2. Parent(k) \in DOMAIN mq /\ Parent(k) < k
      BY <2>2, <2>3, <3>1, ParentWithin
    <3> QED BY <1>1, <3>2
  <2>5. ~Less(mq, Parent(k), 0)
    BY <2>1, <2>4
  <2>6. ~Less(mq, k, Parent(k))
    BY <2>2, <2>3 DEF Heap
  <2> QED BY <1>1, <2>2, <2>4, <2>5, <2>6, LessOrders
<1> QED BY <1>1, <1>2, LessOrders

-----------------------------------------------------------------------------
(* An exchange keeps the messages, and their order follows them.           *)
LEMMA SwapKeeps ==
  ASSUME Kept, NEW i \in DOMAIN mq, NEW j \in DOMAIN mq,
         mq' = Swap(mq, i, j), UNCHANGED <<seq, removed>>
  PROVE  /\ Kept' /\ DOMAIN mq' = DOMAIN mq /\ Size(mq') = Size(mq)
         /\ \A a, b \in DOMAIN mq :
              Less(mq', a, b) <=> Less(mq, Seat(i, j, a), Seat(i, j, b))
         /\ \A k \in DOMAIN mq : Bare(mq'[k]) = Bare(mq[Seat(i, j, k)])
<1>1. DOMAIN mq' = DOMAIN mq
  BY DEF Swap
<1>2. Size(mq') = Size(mq)
  BY <1>1 DEF Size
<1>3. \A k \in DOMAIN mq : mq[k] \in [Seq : 1..seq, Priority : Priorities, Index : {k}]
  BY DEF Kept
<1>4. \A k \in DOMAIN mq : Seat(i, j, k) \in DOMAIN mq
  BY DEF Seat
<1>5. ASSUME NEW k \in DOMAIN mq
      PROVE  /\ mq'[k].Seq = mq[Seat(i, j, k)].Seq
             /\ mq'[k].Priority = mq[Seat(i, j, k)].Priority
             /\ mq'[k] \in [Seq : 1..seq, Priority : Priorities, Index : {k}]
  <2>1. CASE k = j
    <3>1. mq'[k] = [mq[i] EXCEPT !.Index = j]
      BY <2>1 DEF Swap
    <3>2. Seat(i, j, k) = i
      BY <2>1 DEF Seat
    <3> QED BY <1>3, <2>1, <3>1, <3>2
  <2>2. CASE k # j /\ k = i
    <3>1. mq'[k] = [mq[j] EXCEPT !.Index = i]
      BY <2>2 DEF Swap
    <3>2. Seat(i, j, k) = j
      BY <2>2 DEF Seat
    <3> QED BY <1>3, <2>2, <3>1, <3>2
  <2>3. CASE k # j /\ k # i
    BY <1>3, <2>3 DEF Swap, Seat
  <2> QED BY <2>1, <2>2, <2>3
<1>6. \A a, b \in DOMAIN mq : Seat(i, j, a) = Seat(i, j, b) => a = b
  BY DEF Seat
<1>7. Kept'
  <2>1. \A a, b \in DOMAIN mq : mq'[a].Seq = mq'[b].Seq => a = b
    <3>1. \A a, b \in DOMAIN mq : mq[a].Seq = mq[b].Seq => a = b
      BY DEF Kept
    <3> QED BY <1>4, <1>5, <1>6, <3>1
  <2>2. \A m \in removed, k \in DOMAIN mq : m.Seq # mq'[k].Seq
    <3>1. \A m \in removed, k \in DOMAIN mq : m.Seq # mq[k].Seq
      BY DEF Kept
    <3> QED BY <1>4, <1>5, <3>1
  <2> QED BY <1>1, <1>2, <1>5, <2>1, <2>2 DEF Kept
<1> QED BY <1>1, <1>2, <1>4, <1>5, <1>7 DEF Less, Bare

LEMMA SwapContent ==
  ASSUME Kept, NEW i \in DOMAIN mq, NEW j \in DOMAIN mq,
         mq' = Swap(mq, i, j), UNCHANGED <<seq, removed>>
  PROVE  {Bare(mq'[k]) : k \in DOMAIN mq'} = {Bare(mq[k]) : k \in DOMAIN mq}
<1>1. DOMAIN mq' = DOMAIN mq /\ \A k \in DOMAIN mq : Bare(mq'[k]) = Bare(mq[Seat(i, j, k)])
  BY SwapKeeps
<1>2. \A k \in DOMAIN mq :
        Seat(i, j, k) \in DOMAIN mq /\ Seat(i, j, Seat(i, j, k)) = k
  BY DEF Seat
<1> QED BY <1>1, <1>2

LEMMA QueueStarts == QueueInit => QueueInv
<1> SUFFICES ASSUME QueueInit PROVE QueueInv
  OBVIOUS
<1>1. DOMAIN mq = {} /\ Size(mq) = 0
  BY FS_EmptySet DEF QueueInit, Size
<1>2. Kept
  BY <1>1, QueueAssumption DEF QueueInit, Kept
<1> QED BY <1>1, <1>2 DEF QueueInit, QueueInv, Heap

LEMMA SizeIs == \A h, n : n \in Nat /\ DOMAIN h = 0..n - 1 => Size(h) = n
<1> SUFFICES ASSUME NEW h, NEW n \in Nat, DOMAIN h = 0..n - 1 PROVE Size(h) = n
  OBVIOUS
<1>1. Cardinality(0..n - 1) = IF 0 > n - 1 THEN 0 ELSE (n - 1) - 0 + 1
  BY FS_Interval
<1> QED BY <1>1 DEF Size

-----------------------------------------------------------------------------
(* Append adds one message at the end.                                     *)
LEMMA PushIs ==
  ASSUME QueueInv, NEW p \in Priorities, HeapPush(p)
  PROVE  /\ Kept' /\ Size(mq') = Size(mq) + 1 /\ DOMAIN mq' = DOMAIN mq \cup {Size(mq)}
         /\ Size(mq) \notin DOMAIN mq
         /\ \A i \in DOMAIN mq : mq'[i] = mq[i]
         /\ Bare(mq'[Size(mq)]) = [Seq |-> seq + 1, Priority |-> p]
<1> DEFINE n == Size(mq)
           m == [Seq |-> seq + 1, Priority |-> p, Index |-> n]
<1>1. /\ Kept /\ n \in Nat /\ DOMAIN mq = 0..n - 1 /\ seq \in 0..MaxSeq /\ seq < MaxSeq
      /\ seq' = seq + 1 /\ removed' = removed
  BY DEF QueueInv, Kept, HeapPush
<1>2. mq' = [i \in 0..n |-> IF i = n THEN m ELSE mq[i]]
  BY DEF HeapPush, PushedBack
<1> HIDE DEF n
<1>3. DOMAIN mq' = 0..n /\ DOMAIN mq' = DOMAIN mq \cup {n} /\ n \notin DOMAIN mq
  BY <1>1, <1>2
<1>4. Size(mq') = n + 1
  <2>1. n + 1 \in Nat /\ DOMAIN mq' = 0..(n + 1) - 1
    BY <1>1, <1>3
  <2> QED BY <2>1, SizeIs
<1>5. mq'[n] = m /\ \A i \in DOMAIN mq : mq'[i] = mq[i]
  BY <1>1, <1>2
<1>6. /\ \A i \in DOMAIN mq : mq[i] \in [Seq : 1..seq, Priority : Priorities, Index : {i}]
      /\ \A i, j \in DOMAIN mq : mq[i].Seq = mq[j].Seq => i = j
      /\ removed \subseteq [Seq : 1..seq, Priority : Priorities, Index : {-1}]
      /\ \A x \in removed, i \in DOMAIN mq : x.Seq # mq[i].Seq
  BY <1>1 DEF Kept
<1>7. 1..seq \subseteq 1..seq' /\ seq' \in 1..seq' /\ seq' \notin 1..seq /\ seq' \in 0..MaxSeq
  BY <1>1, QueueAssumption
<1>8. \A i \in DOMAIN mq' : mq'[i] \in [Seq : 1..seq', Priority : Priorities, Index : {i}]
  <2>1. mq'[n] \in [Seq : 1..seq', Priority : Priorities, Index : {n}]
    BY <1>1, <1>5, <1>7
  <2>2. \A i \in DOMAIN mq : mq'[i] \in [Seq : 1..seq', Priority : Priorities, Index : {i}]
    BY <1>5, <1>6, <1>7
  <2> QED BY <1>3, <2>1, <2>2
<1>9. \A i, j \in DOMAIN mq' : mq'[i].Seq = mq'[j].Seq => i = j
  <2>1. mq'[n].Seq = seq' /\ \A i \in DOMAIN mq : mq'[i].Seq # seq'
    BY <1>1, <1>5, <1>6, <1>7
  <2> QED BY <1>3, <1>5, <1>6, <2>1
<1>10. removed' \subseteq [Seq : 1..seq', Priority : Priorities, Index : {-1}]
  BY <1>1, <1>6, <1>7
<1>11. \A x \in removed', i \in DOMAIN mq' : x.Seq # mq'[i].Seq
  <2>1. mq'[n].Seq = seq' /\ \A x \in removed : x.Seq # seq'
    BY <1>1, <1>5, <1>6, <1>7
  <2> QED BY <1>1, <1>3, <1>5, <1>6, <2>1
<1>12. n + 1 \in Nat /\ DOMAIN mq' = 0..(n + 1) - 1
  BY <1>1, <1>3
<1>13. Kept'
  BY <1>4, <1>7, <1>8, <1>9, <1>10, <1>11, <1>12 DEF Kept
<1>14. Bare(mq'[n]) = [Seq |-> seq + 1, Priority |-> p]
  BY <1>5 DEF Bare
<1> QED BY <1>3, <1>4, <1>5, <1>13, <1>14 DEF n

LEMMA PushKeeps ==
  ASSUME QueueInv, NEW p \in Priorities, HeapPush(p)
  PROVE  QueueInv'
<1>1. Heap /\ Kept /\ sifting' = "up" /\ node' = Size(mq) /\ Size(mq) \in Nat
  BY DEF QueueInv, HeapPush, Kept
<1>2. /\ Kept' /\ DOMAIN mq' = DOMAIN mq \cup {Size(mq)} /\ DOMAIN mq = 0..Size(mq) - 1
      /\ \A i \in DOMAIN mq : mq'[i] = mq[i]
  BY PushIs DEF QueueInv, Kept
<1>3. \A i \in DOMAIN mq : i # 0 => Parent(i) \in DOMAIN mq
  BY <1>1, <1>2, ParentWithin
<1>4. \A i \in DOMAIN mq' : i # 0 /\ i # node' => ~Less(mq', i, Parent(i))
  BY <1>1, <1>2, <1>3 DEF Heap, Less
<1>5. \A i \in DOMAIN mq' : i # 0 => Parent(i) # node'
  <2>1. DOMAIN mq' = 0..Size(mq)
    BY <1>1, <1>2
  <2>2. \A i \in 0..Size(mq) : i # 0 => Parent(i) < i /\ Parent(i) \in 0..Size(mq)
    BY <1>1, ParentWithin
  <2> QED BY <1>1, <2>1, <2>2
<1>6. HeapAbove'
  BY <1>4, <1>5 DEF HeapAbove
<1> QED BY <1>1, <1>2, <1>6 DEF QueueInv

LEMMA UpKeeps ==
  ASSUME QueueInv, Up
  PROVE  QueueInv'
<1>1. /\ Kept /\ HeapAbove /\ node \in DOMAIN mq /\ DOMAIN mq \in SUBSET Nat /\ sifting = "up"
      /\ DOMAIN mq = 0..Size(mq) - 1 /\ Size(mq) \in Nat
      /\ node # 0 /\ Less(mq, node, Parent(node)) /\ UNCHANGED <<seq, removed, sifting>>
  BY DEF QueueInv, Kept, Up, MovesUp
<1>2. PICK i, j \in DOMAIN mq : j = node /\ i = Parent(node) /\ i < j
  <2>1. Parent(node) \in DOMAIN mq /\ Parent(node) < node
    BY <1>1, ParentWithin
  <2> QED BY <1>1, <2>1
<1>3. mq' = Swap(mq, i, j) /\ node' = i /\ Less(mq, j, i) /\ j # 0
  BY <1>1, <1>2 DEF Up
<1>4. /\ Kept' /\ DOMAIN mq' = DOMAIN mq
      /\ \A a, b \in DOMAIN mq : Less(mq', a, b) <=> Less(mq, Seat(i, j, a), Seat(i, j, b))
  BY <1>1, <1>3, SwapKeeps
<1>5. /\ \A k \in DOMAIN mq : k # 0 /\ k # j => ~Less(mq, k, Parent(k))
      /\ \A k \in DOMAIN mq : k # 0 /\ Parent(k) = j => ~Less(mq, k, i)
  BY <1>1, <1>2 DEF HeapAbove
<1>6. \A k \in DOMAIN mq : k # 0 => Parent(k) \in DOMAIN mq /\ Parent(k) < k
  BY <1>1, ParentWithin
<1>7. ASSUME NEW k \in DOMAIN mq, k # 0, k # i
      PROVE  ~Less(mq', k, Parent(k))
  <2>1. CASE k = j
    <3>1. Seat(i, j, k) = i /\ Seat(i, j, Parent(k)) = j
      BY <1>2, <2>1 DEF Seat
    <3> QED BY <1>2, <1>3, <1>4, <1>6, <1>7, <3>1, LessOrders, <1>1
  <2>2. CASE k # j /\ Parent(k) = j
    <3>1. Seat(i, j, k) = k /\ Seat(i, j, Parent(k)) = i
      BY <1>7, <2>2 DEF Seat
    <3> QED BY <1>4, <1>5, <1>6, <1>7, <2>2, <3>1
  <2>3. CASE k # j /\ Parent(k) = i
    <3>1. Seat(i, j, k) = k /\ Seat(i, j, Parent(k)) = j
      BY <1>7, <2>3 DEF Seat
    <3>2. ~Less(mq, k, i) /\ ~Less(mq, i, j)
      BY <1>1, <1>2, <1>3, <1>5, <1>7, <2>3, LessOrders
    <3>3. ~Less(mq, k, j)
      BY <1>1, <1>2, <3>2, LessOrders
    <3> QED BY <1>4, <1>6, <1>7, <3>1, <3>3
  <2>4. CASE k # j /\ Parent(k) # j /\ Parent(k) # i
    <3>1. Seat(i, j, k) = k /\ Seat(i, j, Parent(k)) = Parent(k)
      BY <1>7, <2>4 DEF Seat
    <3> QED BY <1>4, <1>5, <1>6, <1>7, <2>4, <3>1
  <2> QED BY <2>1, <2>2, <2>3, <2>4
<1>8. ASSUME NEW k \in DOMAIN mq, k # 0, i # 0, Parent(k) = i
      PROVE  ~Less(mq', k, Parent(i))
  <2>1. Parent(i) \in DOMAIN mq /\ Parent(i) < i /\ k # i /\ ~Less(mq, i, Parent(i))
    <3>1. i # j
      BY <1>1, <1>2
    <3>2. k # i
      BY <1>1, <1>6, <1>8
    <3> QED BY <1>2, <1>5, <1>6, <1>8, <3>1, <3>2
  <2>2. Seat(i, j, Parent(i)) = Parent(i)
    <3>1. Parent(i) # i /\ Parent(i) # j
      BY <1>1, <1>2, <2>1
    <3> QED BY <3>1 DEF Seat
  <2>3. CASE k = j
    <3>1. Seat(i, j, k) = i
      BY <1>2, <2>3 DEF Seat
    <3> QED BY <1>4, <2>1, <2>2, <3>1
  <2>4. CASE k # j
    <3>1. Seat(i, j, k) = k
      BY <2>1, <2>4 DEF Seat
    <3>2. ~Less(mq, k, i)
      BY <1>5, <1>8, <2>4
    <3>3. ~Less(mq, k, Parent(i))
      BY <1>1, <2>1, <3>2, LessOrders
    <3> QED BY <1>4, <2>1, <2>2, <3>1, <3>3
  <2> QED BY <2>3, <2>4
<1>9. HeapAbove'
  BY <1>3, <1>4, <1>7, <1>8 DEF HeapAbove
<1> QED BY <1>1, <1>2, <1>3, <1>4, <1>9 DEF QueueInv

LEMMA UpEndsKeeps ==
  ASSUME QueueInv, UpEnds
  PROVE  QueueInv'
<1>1. /\ Kept /\ HeapAbove /\ UNCHANGED <<mq, seq, removed>> /\ sifting' = "no"
      /\ node = 0 \/ ~Less(mq, node, Parent(node))
  BY DEF QueueInv, UpEnds, MovesUp
<1>2. Heap
  BY <1>1 DEF HeapAbove, Heap
<1>3. Kept' /\ Heap'
  BY <1>1, <1>2 DEF Kept, Heap
<1> QED BY <1>1, <1>3 DEF QueueInv

LEMMA PopKeeps ==
  ASSUME QueueInv, HeapPop
  PROVE  QueueInv'
<1>1. /\ Kept /\ Heap /\ DOMAIN mq = 0..LastIndex /\ 0 \in DOMAIN mq /\ LastIndex \in DOMAIN mq /\ LastIndex \in Nat
      /\ mq' = Swap(mq, 0, LastIndex) /\ sifting' = "down" /\ node' = 0 /\ UNCHANGED <<seq, removed>>
  BY DEF QueueInv, Kept, HeapPop, LastIndex
<1>2. PICK n \in DOMAIN mq : n = LastIndex
  BY <1>1
<1>3. /\ Kept' /\ DOMAIN mq' = DOMAIN mq /\ Size(mq') = Size(mq)
      /\ \A a, b \in DOMAIN mq : Less(mq', a, b) <=> Less(mq, Seat(0, n, a), Seat(0, n, b))
  BY <1>1, <1>2, SwapKeeps
<1>4. LastIndex' = n
  BY <1>2, <1>3 DEF LastIndex
<1>5. ASSUME NEW k \in 1..n - 1, Parent(k) # 0
      PROVE  ~Less(mq', k, Parent(k))
  <2>1. k \in DOMAIN mq /\ Parent(k) \in DOMAIN mq /\ k # 0 /\ k # n /\ Parent(k) # n
    <3>1. k \in 0..LastIndex /\ k # 0 /\ k # n /\ n = LastIndex
      BY <1>1, <1>2
    <3>2. Parent(k) \in 0..LastIndex /\ Parent(k) < k
      BY <1>1, <3>1, ParentWithin
    <3> QED BY <1>1, <3>1, <3>2
  <2>2. Seat(0, n, k) = k /\ Seat(0, n, Parent(k)) = Parent(k)
    BY <1>5, <2>1 DEF Seat
  <2> QED BY <1>1, <1>3, <2>1, <2>2 DEF Heap
<1>6. ASSUME NEW k \in 0..n - 1
      PROVE  Less(mq', n, k)
  <2>1. k \in DOMAIN mq /\ k # n /\ Seat(0, n, n) = 0
    BY <1>1, <1>2 DEF Seat
  <2>2. Seat(0, n, k) \in DOMAIN mq /\ Seat(0, n, k) # 0
    BY <1>1, <1>2, <2>1 DEF Seat
  <2> QED BY <1>1, <1>3, <2>1, <2>2, RootFirst
<1>7. HeapBelow'
  BY <1>1, <1>4, <1>5, <1>6 DEF HeapBelow
<1> QED BY <1>1, <1>3, <1>7 DEF QueueInv

(* The child that may be exchanged is one, and is not after the other.     *)
LEMMA SmallerChildIs ==
  ASSUME QueueInv, sifting = "down", 2 * node + 1 < LastIndex
  PROVE  /\ SmallerChild \in 1..LastIndex - 1 /\ Parent(SmallerChild) = node
         /\ \A k \in 1..LastIndex - 1 : Parent(k) = node => ~Less(mq, k, SmallerChild)
<1>1. /\ Kept /\ node \in Nat /\ LastIndex \in Nat /\ DOMAIN mq = 0..LastIndex
  <2>1. Kept /\ node \in DOMAIN mq
    BY DEF QueueInv
  <2>2. Size(mq) \in Nat /\ DOMAIN mq = 0..Size(mq) - 1
    BY <2>1 DEF Kept
  <2> QED BY <2>1, <2>2 DEF LastIndex
<1>2. PICK j \in Nat : j = 2 * node + 1
  BY <1>1
<1>3. SmallerChild = IF j + 1 < LastIndex /\ Less(mq, j + 1, j) THEN j + 1 ELSE j
  BY <1>2 DEF SmallerChild
<1>4. Parent(j) = node /\ Parent(j + 1) = node
  <2>1. j + 1 = 2 * node + 2
    BY <1>1, <1>2
  <2> QED BY <1>1, <1>2, <2>1, ParentIs
<1>5. \A k \in 1..LastIndex - 1 : Parent(k) = node => k = j \/ k = j + 1
  <2>1. node \in 0..LastIndex
    BY <1>1
  <2>2. \A k \in 1..LastIndex - 1 : k \in 0..LastIndex /\ k # 0
    BY <1>1
  <2>3. \A k \in 1..LastIndex - 1 : Parent(k) = node => k = 2 * node + 1 \/ k = 2 * node + 2
    BY <1>1, <2>1, <2>2, ParentWithin
  <2> QED BY <1>1, <1>2, <2>3
<1>6. j \in 1..LastIndex - 1
  BY <1>1, <1>2
<1>7. SmallerChild \in 1..LastIndex - 1 /\ Parent(SmallerChild) = node
  BY <1>1, <1>3, <1>4, <1>6
<1>8. \A k \in 1..LastIndex - 1 : k \in DOMAIN mq
  BY <1>1
<1>9. \A a, b \in DOMAIN mq : Less(mq, a, b) => ~Less(mq, b, a)
  BY <1>1, LessOrders
<1>10. \A k \in 1..LastIndex - 1 : Parent(k) = node => ~Less(mq, k, SmallerChild)
  <2>1. CASE j + 1 < LastIndex /\ Less(mq, j + 1, j)
    <3>1. SmallerChild = j + 1 /\ j + 1 \in DOMAIN mq /\ j \in DOMAIN mq
      BY <1>3, <1>6, <1>7, <1>8, <2>1
    <3> QED BY <1>5, <1>9, <2>1, <3>1
  <2>2. CASE ~(j + 1 < LastIndex /\ Less(mq, j + 1, j))
    <3>1. SmallerChild = j /\ j \in DOMAIN mq
      BY <1>3, <1>6, <1>8, <2>2
    <3>2. ASSUME NEW k \in 1..LastIndex - 1, k = j + 1 PROVE ~Less(mq, k, j)
      BY <1>1, <2>2, <3>2
    <3> QED BY <1>5, <1>9, <3>1, <3>2
  <2> QED BY <2>1, <2>2
<1> QED BY <1>7, <1>10

LEMMA DownKeeps ==
  ASSUME QueueInv, Down
  PROVE  QueueInv'
<1>1. /\ Kept /\ HeapBelow /\ node \in DOMAIN mq /\ sifting = "down"
      /\ LastIndex \in Nat /\ DOMAIN mq = 0..LastIndex /\ 2 * node + 1 < LastIndex
      /\ Less(mq, SmallerChild, node) /\ mq' = Swap(mq, node, SmallerChild)
      /\ node' = SmallerChild /\ UNCHANGED <<seq, removed, sifting>>
  <2>1. Kept /\ HeapBelow /\ node \in DOMAIN mq /\ sifting = "down"
    BY DEF QueueInv, Down
  <2>2. Size(mq) \in Nat /\ DOMAIN mq = 0..Size(mq) - 1
    BY <2>1 DEF Kept
  <2>3. LastIndex \in Nat /\ DOMAIN mq = 0..LastIndex
    BY <2>1, <2>2 DEF LastIndex
  <2> QED BY <2>1, <2>3 DEF Down, MovesDown
<1>2. PICK i \in DOMAIN mq, j \in 1..LastIndex - 1 :
        /\ i = node /\ j = SmallerChild /\ Parent(j) = i
        /\ \A k \in 1..LastIndex - 1 : Parent(k) = i => ~Less(mq, k, j)
  BY <1>1, SmallerChildIs
<1>3. PICK n \in DOMAIN mq : n = LastIndex
  BY <1>1
<1>4. /\ j \in DOMAIN mq /\ i < j /\ j < n /\ i \in Nat /\ j \in Nat /\ n \in Nat /\ DOMAIN mq = 0..n
      /\ Less(mq, j, i) /\ mq' = Swap(mq, i, j) /\ node' = j
  BY <1>1, <1>2, <1>3, ParentIs
<1>5. /\ Kept' /\ DOMAIN mq' = DOMAIN mq /\ Size(mq') = Size(mq)
      /\ \A a, b \in DOMAIN mq : Less(mq', a, b) <=> Less(mq, Seat(i, j, a), Seat(i, j, b))
  BY <1>1, <1>4, SwapKeeps
<1>6. LastIndex' = n
  BY <1>3, <1>5 DEF LastIndex
<1>7. /\ \A k \in 1..n - 1 : Parent(k) # i => ~Less(mq, k, Parent(k))
      /\ \A k \in 1..n - 1 : i # 0 /\ Parent(k) = i => ~Less(mq, k, Parent(i))
      /\ \A k \in 0..n - 1 : Less(mq, n, k)
  BY <1>1, <1>2, <1>3 DEF HeapBelow
<1>8. \A k \in 1..n - 1 : k \in DOMAIN mq /\ k # 0 /\ Parent(k) \in DOMAIN mq /\ Parent(k) < k
  <2>1. \A k \in 1..n - 1 : k \in 0..n /\ k # 0
    BY <1>4
  <2> QED BY <1>4, <2>1, ParentWithin
<1>9. ASSUME NEW k \in 1..n - 1, Parent(k) # j
      PROVE  ~Less(mq', k, Parent(k))
  <2>1. CASE k = j
    <3>1. Seat(i, j, k) = i /\ Seat(i, j, Parent(k)) = j
      BY <1>2, <1>4, <2>1 DEF Seat
    <3>2. ~Less(mq, i, j)
      BY <1>1, <1>4, LessOrders
    <3> QED BY <1>5, <1>8, <3>1, <3>2
  <2>2. CASE k # j /\ Parent(k) = i
    <3>1. k # i
      BY <1>4, <1>8, <2>2
    <3>2. Seat(i, j, k) = k /\ Seat(i, j, Parent(k)) = j
      BY <2>2, <3>1 DEF Seat
    <3>3. ~Less(mq, k, j)
      BY <1>2, <1>3, <2>2
    <3> QED BY <1>5, <1>8, <3>2, <3>3
  <2>3. CASE k = i
    <3>1. Parent(k) # i /\ i # 0 /\ Parent(i) # j
      BY <1>4, <1>8, <1>9, <2>3
    <3>2. Seat(i, j, k) = j /\ Seat(i, j, Parent(k)) = Parent(i)
      BY <2>3, <3>1 DEF Seat
    <3>3. ~Less(mq, j, Parent(i))
      BY <1>2, <1>3, <1>7, <3>1
    <3> QED BY <1>5, <1>8, <3>2, <3>3
  <2>4. CASE k # j /\ k # i /\ Parent(k) # i
    <3>1. Seat(i, j, k) = k /\ Seat(i, j, Parent(k)) = Parent(k)
      BY <1>9, <2>4 DEF Seat
    <3> QED BY <1>5, <1>7, <1>8, <2>4, <3>1
  <2> QED BY <2>1, <2>2, <2>3, <2>4
<1>10. ASSUME NEW k \in 1..n - 1, Parent(k) = j
       PROVE  ~Less(mq', k, Parent(j))
  <2>1. k # j /\ k # i /\ j # i
    BY <1>4, <1>8, <1>10
  <2>2. Seat(i, j, k) = k /\ Seat(i, j, i) = j
    BY <2>1 DEF Seat
  <2>3. ~Less(mq, k, j)
    BY <1>7, <1>10, <2>1
  <2> QED BY <1>2, <1>5, <1>8, <2>2, <2>3
<1>11. ASSUME NEW k \in 0..n - 1
       PROVE  Less(mq', n, k)
  <2>1. Seat(i, j, n) = n /\ Seat(i, j, k) \in 0..n - 1
    BY <1>4 DEF Seat
  <2>2. k \in DOMAIN mq
    BY <1>4
  <2> QED BY <1>5, <1>7, <2>1, <2>2
<1>12. HeapBelow'
  BY <1>4, <1>6, <1>9, <1>10, <1>11 DEF HeapBelow
<1> QED BY <1>1, <1>4, <1>5, <1>6, <1>12 DEF QueueInv

LEMMA DownEndsIs ==
  ASSUME QueueInv, DownEnds
  PROVE  /\ Kept' /\ LastIndex \in DOMAIN mq /\ DOMAIN mq' = DOMAIN mq \ {LastIndex}
         /\ \A i \in DOMAIN mq' : mq'[i] = mq[i]
         /\ removed' = removed \cup {[mq[LastIndex] EXCEPT !.Index = -1]}
<1>1. /\ Kept /\ LastIndex \in Nat /\ LastIndex \in DOMAIN mq /\ DOMAIN mq = 0..LastIndex /\ Size(mq) = LastIndex + 1
      /\ seq' = seq /\ removed' = removed \cup {[mq[LastIndex] EXCEPT !.Index = -1]}
  BY DEF QueueInv, Kept, DownEnds, LastIndex
<1>2. mq' = [i \in 0..LastIndex - 1 |-> mq[i]]
  <2>1. Size(mq) - 2 = LastIndex - 1
    BY <1>1
  <2> QED BY <2>1 DEF DownEnds, ButLast
<1>3. DOMAIN mq' = 0..LastIndex - 1 /\ DOMAIN mq' = DOMAIN mq \ {LastIndex} /\ \A i \in DOMAIN mq' : mq'[i] = mq[i]
  BY <1>1, <1>2
<1>4. Size(mq') = LastIndex
  BY <1>1, <1>3, SizeIs
<1>5. /\ \A i \in DOMAIN mq : mq[i] \in [Seq : 1..seq, Priority : Priorities, Index : {i}]
      /\ \A i, j \in DOMAIN mq : mq[i].Seq = mq[j].Seq => i = j
      /\ removed \subseteq [Seq : 1..seq, Priority : Priorities, Index : {-1}]
      /\ \A x \in removed, i \in DOMAIN mq : x.Seq # mq[i].Seq
      /\ seq \in 0..MaxSeq
  BY <1>1 DEF Kept
<1> DEFINE m == [mq[LastIndex] EXCEPT !.Index = -1]
<1>6. m \in [Seq : 1..seq, Priority : Priorities, Index : {-1}] /\ m.Seq = mq[LastIndex].Seq
  BY <1>1, <1>5
<1> HIDE DEF m
<1>7. removed' = removed \cup {m}
  BY <1>1 DEF m
<1>8. \A x \in removed', i \in DOMAIN mq' : x.Seq # mq'[i].Seq
  BY <1>1, <1>3, <1>5, <1>6, <1>7
<1>9. removed' \subseteq [Seq : 1..seq, Priority : Priorities, Index : {-1}]
  BY <1>5, <1>6, <1>7
<1>10. Kept'
  BY <1>1, <1>3, <1>4, <1>5, <1>8, <1>9 DEF Kept
<1> QED BY <1>1, <1>3, <1>10

LEMMA DownEndsKeeps ==
  ASSUME QueueInv, DownEnds
  PROVE  QueueInv'
<1>1. /\ Kept /\ HeapBelow /\ LastIndex \in Nat /\ DOMAIN mq = 0..LastIndex /\ sifting = "down" /\ sifting' = "no"
      /\ node \in DOMAIN mq
      /\ 2 * node + 1 < LastIndex => ~Less(mq, SmallerChild, node)
  BY DEF QueueInv, Kept, DownEnds, MovesDown, LastIndex
<1>2. /\ Kept' /\ DOMAIN mq' = DOMAIN mq \ {LastIndex} /\ \A i \in DOMAIN mq' : mq'[i] = mq[i]
  BY DownEndsIs
<1>3. ASSUME NEW i \in 1..LastIndex - 1 PROVE ~Less(mq, i, Parent(i))
  <2>1. CASE Parent(i) # node
    BY <1>1, <1>3, <2>1 DEF HeapBelow
  <2>2. CASE Parent(i) = node
    <3>1. 2 * node + 1 < LastIndex
      <4>1. i \in 0..LastIndex /\ i # 0 /\ node \in 0..LastIndex
        BY <1>1
      <4>2. i = 2 * node + 1 \/ i = 2 * node + 2
        BY <1>1, <2>2, <4>1, ParentWithin
      <4> QED BY <1>1, <4>1, <4>2
    <3>2. SmallerChild \in DOMAIN mq /\ ~Less(mq, i, SmallerChild) /\ i \in DOMAIN mq
      BY <1>1, <2>2, <3>1, SmallerChildIs
    <3> QED BY <1>1, <2>2, <3>1, <3>2, LessOrders
  <2> QED BY <2>1, <2>2
<1>4. \A i \in DOMAIN mq' : i # 0 => i \in 1..LastIndex - 1 /\ Parent(i) \in DOMAIN mq'
  <2>1. DOMAIN mq' = 0..LastIndex - 1
    BY <1>1, <1>2
  <2> QED BY <1>1, <2>1, ParentWithin
<1>5. Heap'
  BY <1>2, <1>3, <1>4 DEF Heap, Less
<1> QED BY <1>1, <1>2, <1>5 DEF QueueInv

LEMMA QueueKeeps == QueueInv /\ [QueueNext]_queueVars => QueueInv'
<1> SUFFICES ASSUME QueueInv, [QueueNext]_queueVars PROVE QueueInv'
  OBVIOUS
<1>1. CASE UNCHANGED queueVars
  <2>1. UNCHANGED <<mq, seq, removed, sifting, node>>
    BY <1>1 DEF queueVars
  <2>2. LastIndex' = LastIndex
    BY <2>1 DEF LastIndex
  <2> QED BY <2>1, <2>2 DEF QueueInv, Kept, Heap, HeapAbove, HeapBelow
<1> QED BY <1>1, PushKeeps, PopKeeps, UpKeeps, UpEndsKeeps, DownKeeps, DownEndsKeeps DEF QueueNext

-----------------------------------------------------------------------------
(* Each call is a step of the abstract queue when its messages change.     *)
LEMMA QueueStartsEmpty == QueueInit => PQ!PQInit
<1> SUFFICES ASSUME QueueInit PROVE PQ!PQInit
  OBVIOUS
<1>1. DOMAIN mq = {} /\ removed = {}
  BY DEF QueueInit
<1> QED BY <1>1 DEF PQ!PQInit

LEMMA QueueSteps ==
  ASSUME QueueInv, [QueueNext]_queueVars
  PROVE  [PQ!PQNext]_<<{Bare(mq[i]) : i \in DOMAIN mq}, {Bare(m) : m \in removed}>>
<1> DEFINE content == {Bare(mq[i]) : i \in DOMAIN mq}
           popped == {Bare(m) : m \in removed}
<1>1. ASSUME NEW p \in Priorities, HeapPush(p)
      PROVE  PQ!PQNext
  <2> DEFINE m == [Seq |-> seq + 1, Priority |-> p]
  <2>1. /\ DOMAIN mq' = DOMAIN mq \cup {Size(mq)}
        /\ \A i \in DOMAIN mq : mq'[i] = mq[i]
        /\ Bare(mq'[Size(mq)]) = m /\ removed' = removed
    BY <1>1, PushIs DEF HeapPush
  <2>2. content' = content \cup {m} /\ popped' = popped
    BY <2>1
  <2>3. m \in PQ!PQMessage
    <3>1. seq + 1 \in 1..MaxSeq
      BY <1>1, QueueAssumption DEF QueueInv, Kept, HeapPush
    <3> QED BY <3>1 DEF PQ!PQMessage
  <2>4. m \notin content \cup popped
    <3>1. \A i \in DOMAIN mq : mq[i].Seq # seq + 1
      BY DEF QueueInv, Kept
    <3>2. \A x \in removed : x.Seq # seq + 1
      BY DEF QueueInv, Kept
    <3> QED BY <3>1, <3>2 DEF Bare
  <2>5. PQ!PQPush(m)
    BY <2>2, <2>4 DEF PQ!PQPush
  <2> QED BY <2>3, <2>5 DEF PQ!PQNext
<1>2. ASSUME DownEnds
      PROVE  PQ!PQNext
  <2>1. /\ Kept /\ HeapBelow /\ LastIndex \in Nat /\ DOMAIN mq = 0..LastIndex
    BY <1>2 DEF QueueInv, Kept, DownEnds, LastIndex
  <2>2. /\ LastIndex \in DOMAIN mq /\ DOMAIN mq' = DOMAIN mq \ {LastIndex}
        /\ \A i \in DOMAIN mq' : mq'[i] = mq[i]
        /\ removed' = removed \cup {[mq[LastIndex] EXCEPT !.Index = -1]}
    BY <1>2, DownEndsIs
  <2>3. \A i \in DOMAIN mq : mq[i] \in [Seq : 1..seq, Priority : Priorities, Index : {i}]
    BY <2>1 DEF Kept
  <2>4. PICK m : m = Bare(mq[LastIndex])
    OBVIOUS
  <2>5. \A i \in DOMAIN mq : i # LastIndex => Bare(mq[i]) # m /\ PQ!Before(m, Bare(mq[i]))
    <3> SUFFICES ASSUME NEW i \in DOMAIN mq, i # LastIndex
                 PROVE  Bare(mq[i]) # m /\ PQ!Before(m, Bare(mq[i]))
      OBVIOUS
    <3>1. mq[i].Seq # mq[LastIndex].Seq
      BY <2>1, <2>2 DEF Kept
    <3>2. i \in 0..LastIndex - 1
      BY <2>1
    <3>3. Less(mq, LastIndex, i)
      BY <2>1, <3>2 DEF HeapBelow
    <3> QED BY <2>4, <3>1, <3>3 DEF Bare, Less, PQ!Before
  <2>6. content' = content \ {m}
    <3>1. content' = {Bare(mq[i]) : i \in DOMAIN mq \ {LastIndex}}
      BY <2>2
    <3> QED BY <2>2, <2>4, <2>5, <3>1
  <2>7. Bare([mq[LastIndex] EXCEPT !.Index = -1]) = m
    BY <2>2, <2>3, <2>4 DEF Bare
  <2>8. popped' = popped \cup {m}
    BY <2>2, <2>7
  <2>9. m \in PQ!PQMessage
    <3>1. 1..seq \subseteq 1..MaxSeq
      BY <2>1, QueueAssumption DEF Kept
    <3>2. mq[LastIndex].Seq \in 1..MaxSeq /\ mq[LastIndex].Priority \in Priorities
      BY <2>2, <2>3, <3>1
    <3> QED BY <2>4, <3>2 DEF Bare, PQ!PQMessage
  <2>10. m \in content /\ \A n \in content \ {m} : PQ!Before(m, n)
    BY <2>2, <2>4, <2>5
  <2>11. PQ!PQPop(m)
    BY <2>6, <2>8, <2>10 DEF PQ!PQPop
  <2> QED BY <2>9, <2>11 DEF PQ!PQNext
<1>3. CASE HeapPop
  <2>1. /\ Kept /\ 0 \in DOMAIN mq /\ LastIndex \in DOMAIN mq
        /\ mq' = Swap(mq, 0, LastIndex) /\ UNCHANGED <<seq, removed>>
    BY <1>3 DEF QueueInv, Kept, HeapPop, LastIndex
  <2> QED BY <2>1, SwapContent
<1>4. CASE Up
  <2>1. /\ Kept /\ node \in DOMAIN mq /\ Parent(node) \in DOMAIN mq
        /\ mq' = Swap(mq, Parent(node), node) /\ UNCHANGED <<seq, removed>>
    <3>1. Kept /\ node \in DOMAIN mq /\ node # 0
      BY <1>4 DEF QueueInv, Up, MovesUp
    <3>2. Size(mq) - 1 \in Int /\ DOMAIN mq = 0..Size(mq) - 1
      BY <3>1 DEF Kept
    <3>3. Parent(node) \in DOMAIN mq
      BY <3>1, <3>2, ParentWithin
    <3> QED BY <1>4, <3>1, <3>3 DEF Up
  <2> QED BY <2>1, SwapContent
<1>5. CASE Down
  <2>1. /\ Kept /\ node \in DOMAIN mq /\ SmallerChild \in DOMAIN mq
        /\ mq' = Swap(mq, node, SmallerChild) /\ UNCHANGED <<seq, removed>>
    <3>1. SmallerChild \in 1..LastIndex - 1 /\ Kept /\ node \in DOMAIN mq
      BY <1>5, SmallerChildIs DEF Down, MovesDown, QueueInv
    <3>2. DOMAIN mq = 0..LastIndex /\ LastIndex \in Int
      BY <3>1 DEF Kept, LastIndex
    <3> QED BY <1>5, <3>1, <3>2 DEF Down
  <2> QED BY <2>1, SwapContent
<1>6. CASE UpEnds \/ UNCHANGED queueVars
  <2>1. UNCHANGED <<mq, removed>>
    BY <1>6 DEF UpEnds, queueVars
  <2> QED BY <2>1
<1> QED BY <1>1, <1>2, <1>3, <1>4, <1>5, <1>6 DEF QueueNext

LEMMA QueueImplies == QueueInv => QueueTypeOK
<1> SUFFICES ASSUME QueueInv PROVE QueueTypeOK
  OBVIOUS
<1>1. 1..seq \subseteq 1..MaxSeq
  BY QueueAssumption DEF QueueInv, Kept
<1> QED BY <1>1 DEF QueueInv, Kept, QueueTypeOK

(* At every step of the loops of container/heap, for any number of         *)
(* messages, a message's Index is its place, and -1 once it is popped.     *)
THEOREM QueueTypeCorrect == QueueSpec => []QueueTypeOK
<1> QED BY QueueStarts, QueueKeeps, QueueImplies, PTL DEF QueueSpec

(* The array, sifted exchange by exchange, is a priority queue for any     *)
(* priorities and any number of messages: each pop takes the first in the  *)
(* order of Less, no message is lost, and none comes twice.                *)
THEOREM QueueIsPriorityQueue == QueueSpec => ImplementsPriorityQueue
<1>1. QueueInit => PQ!PQInit
  BY QueueStartsEmpty
<1>2. QueueInv /\ [QueueNext]_queueVars =>
        [PQ!PQNext]_<<{Bare(mq[i]) : i \in DOMAIN mq}, {Bare(m) : m \in removed}>>
  BY QueueSteps
<1> QED BY <1>1, <1>2, QueueStarts, QueueKeeps, PTL
        DEF QueueSpec, ImplementsPriorityQueue, PQ!PQSpec

-----------------------------------------------------------------------------
USE CalculatorAssumption DEF CalculatorAssumption

(***************************************************************************)
(* The check before an addition, computed with wrap-around, holds exactly  *)
(* when the true sum is not an int64 (net-dial main.go:184, net-http 78).  *)
(***************************************************************************)
LEMMA AddCheckExact ==
  ASSUME acc \in Int64, NEW n \in Int64
  PROVE  /\ AddOverflows(n) <=> acc + n \notin Int64
         /\ ~AddOverflows(n) => Wrap(acc + n) = acc + n
BY DEF AddOverflows, Wrap, Int64, MinInt

(***************************************************************************)
(* The same of the check before a subtraction (net-dial 253, net-http 161).*)
(***************************************************************************)
LEMMA SubCheckExact ==
  ASSUME acc \in Int64, NEW n \in Int64
  PROVE  /\ SubOverflows(n) <=> acc - n \notin Int64
         /\ ~SubOverflows(n) => Wrap(acc - n) = acc - n
BY DEF SubOverflows, Wrap, Int64, MinInt

(***************************************************************************)
(* Answers are exact: whatever the numbers and the width of the integers,  *)
(* a result is the true value and "Overflow" is said only of a true value  *)
(* that does not fit.                                                      *)
(***************************************************************************)
THEOREM AnswersExact == Spec => []Exact
<1>1. Init => Exact
  BY DEF Init, Exact
<1>2. Exact /\ [Next]_vars => Exact'
  <2> SUFFICES ASSUME Exact, [Next]_vars PROVE Exact'
    OBVIOUS
  <2>1. CASE Receive
    <3>1. /\ op' = "add" => acc' = 0 /\ exact' = 0 /\ 0 \in Int64
          /\ at' = IF op' = "add" THEN "fold" ELSE "seed"
          /\ acc' = 0 /\ exact' = 0
      BY <2>1 DEF Receive, Int64, MinInt
    <3> QED BY <3>1 DEF Exact, Int64, MinInt
  <2>2. CASE Refuse
    BY <2>2 DEF Refuse, Exact, Answer, Missing, Malformed, Int64, MinInt
  <2>3. CASE Seed
    BY <2>3 DEF Seed, Exact, Parses, Int64, MinInt
  <2>4. CASE Reject
    BY <2>4 DEF Reject, Exact, Answer, Missing, Malformed, Int64, MinInt
  <2>5. CASE Add
    <3> DEFINE n == Head(todo).value
    <3>1. at = "fold" /\ acc \in Int64 /\ n \in Int64 /\ acc = exact
      BY <2>5 DEF Add, Ready, Parses, Exact
    <3>2. CASE AddOverflows(n)
      <4>1. exact' = exact + n /\ reply' = Overflow /\ at' = "idle" /\ exact' \notin Int64
        BY <2>5, <3>1, <3>2, AddCheckExact DEF Add, Fold, Answer
      <4> QED BY <4>1 DEF Exact, Overflow
    <3>3. CASE ~AddOverflows(n)
      <4>1. exact' = exact + n /\ acc' = exact' /\ at' = "fold" /\ acc' \in Int64
        BY <2>5, <3>1, <3>3, AddCheckExact DEF Add, Fold
      <4> QED BY <4>1 DEF Exact, Int64, MinInt
    <3> QED BY <3>2, <3>3
  <2>6. CASE Sub
    <3> DEFINE n == Head(todo).value
    <3>1. at = "fold" /\ acc \in Int64 /\ n \in Int64 /\ acc = exact
      BY <2>6 DEF Sub, Ready, Parses, Exact
    <3>2. CASE SubOverflows(n)
      <4>1. exact' = exact - n /\ reply' = Overflow /\ at' = "idle" /\ exact' \notin Int64
        BY <2>6, <3>1, <3>2, SubCheckExact DEF Sub, Fold, Answer
      <4> QED BY <4>1 DEF Exact, Overflow
    <3>3. CASE ~SubOverflows(n)
      <4>1. exact' = exact - n /\ acc' = exact' /\ at' = "fold" /\ acc' \in Int64
        BY <2>6, <3>1, <3>3, SubCheckExact DEF Sub, Fold
      <4> QED BY <4>1 DEF Exact, Int64, MinInt
    <3> QED BY <3>2, <3>3
  <2>7. CASE Finish
    BY <2>7 DEF Finish, Exact, Answer, Result, Int64, MinInt
  <2>8. CASE UNCHANGED vars
    BY <2>8 DEF vars, Exact, Int64, MinInt
  <2> QED BY <2>1, <2>2, <2>3, <2>4, <2>5, <2>6, <2>7, <2>8 DEF Next
<1> QED BY <1>1, <1>2, PTL DEF Spec

(***************************************************************************)
(* Every variable stays in its type, and only the dial server tells a      *)
(* malformed token from a missing one (net-dial main.go:171, net-http 62). *)
(***************************************************************************)
THEOREM CalculatorTypeCorrect == Spec => []TypeOK
<1>1. Init => TypeOK
  BY EmptySeq DEF Init, TypeOK
<1>2. TypeOK /\ [Next]_vars => TypeOK'
  <2> SUFFICES ASSUME TypeOK, [Next]_vars PROVE TypeOK'
    OBVIOUS
  <2>0. /\ todo \in Seq(Tokens) /\ Len(todo) \in Nat /\ <<>> \in Seq(Tokens) /\ Len(<<>>) = 0
        /\ todo # <<>> => Tail(todo) \in Seq(Tokens) /\ Len(Tail(todo)) = Len(todo) - 1
    BY EmptySeq, HeadTailProperties, LenProperties DEF TypeOK
  <2>1. CASE Receive
    <3>1. PICK n \in 1..MaxTokens : todo' \in [1..n -> Tokens]
      BY <2>1 DEF Receive
    <3>2. n \in Nat /\ n >= 1 /\ n <= MaxTokens
      BY <3>1
    <3>3. todo' \in Seq(Tokens) /\ Len(todo') = n
      BY <3>1, <3>2
    <3>4. todo' # <<>>
      BY <3>2, <3>3
    <3> QED BY <2>1, <3>2, <3>3, <3>4 DEF Receive, TypeOK
  <2>2. CASE Refuse
    <3>1. /\ todo' = <<>> /\ at' = "idle" /\ UNCHANGED <<server, op>>
          /\ reply' = Missing \/ (reply' = [kind |-> "format"] /\ server # "http")
      <4>1. CASE Answer(Missing)
        BY <4>1 DEF Answer
      <4>2. CASE server = "dial" /\ Answer(Malformed)
        BY <4>2 DEF Answer, Malformed
      <4> QED BY <2>2, <4>1, <4>2 DEF Refuse
    <3> QED BY <2>0, <3>1 DEF Missing, TypeOK
  <2>3. CASE Seed
    BY <2>0, <2>3 DEF Seed, TypeOK
  <2>4. CASE Reject
    BY <2>0, <2>4 DEF Reject, Answer, Missing, Malformed, TypeOK
  <2>5. CASE Add \/ Sub
    <3>1. /\ at = "fold" /\ todo # <<>> /\ UNCHANGED <<server, op>>
          /\ \/ reply' = Overflow /\ at' = "idle" /\ todo' = <<>>
             \/ reply' = reply /\ at' = at /\ todo' = Tail(todo)
      BY <2>5 DEF Add, Sub, Ready, Fold, Answer
    <3>2. CASE reply' = Overflow /\ at' = "idle" /\ todo' = <<>>
      BY <2>0, <3>1, <3>2 DEF TypeOK, Overflow
    <3>3. CASE reply' = reply /\ at' = at /\ todo' = Tail(todo)
      <4>1. at' = "fold" /\ todo' \in Seq(Tokens) /\ Len(todo') <= MaxTokens
        BY <2>0, <3>1, <3>3 DEF TypeOK
      <4> QED BY <3>1, <3>3, <4>1 DEF TypeOK
    <3> QED BY <3>1, <3>2, <3>3
  <2>6. CASE Finish
    BY <2>0, <2>6 DEF Finish, Answer, Result, TypeOK
  <2>7. CASE UNCHANGED vars
    BY <2>7 DEF vars, TypeOK
  <2> QED BY <2>1, <2>2, <2>3, <2>4, <2>5, <2>6, <2>7 DEF Next
<1> QED BY <1>1, <1>2, PTL DEF Spec

-----------------------------------------------------------------------------
(***************************************************************************)
(* A run of one of the programs beside the others, which stand still, is a *)
(* behaviour of each: what the run checks is checked of the programs       *)
(* themselves.                                                             *)
(***************************************************************************)
THEOREM EachRunsByItself ==
  SequentialSpec => /\ Spec /\ EditorSpec /\ QueueSpec /\ VCSpec
                    /\ BookSpec /\ HangarSpec /\ AirportSpec
<1> DEFINE all == <<program, vars, editorVars, queueVars, vcVars, bookVars,
                    hangarVars, airportVars>>
<1>1. SequentialInit => /\ Init /\ EditorInit /\ QueueInit /\ VCInit
                        /\ BookInit /\ HangarInit /\ AirportInit
  BY DEF SequentialInit
<1>2. [SequentialNext]_all => /\ [Next]_vars /\ [EditorNext]_editorVars
                              /\ [QueueNext]_queueVars /\ [VCNext]_vcVars
                              /\ [BookNext]_bookVars /\ [HangarNext]_hangarVars
                              /\ [AirportNext]_airportVars
  BY DEF SequentialNext, RunCalculator, RunEditor, RunQueue, RunVersions, RunBook,
         RunHangar, RunAirport, CalculatorStays, EditorStays, QueueStays, VersionsStay,
         BookStays, HangarStays, AirportStays
<1> HIDE DEF all
<1> QED BY <1>1, <1>2, PTL
        DEF all, SequentialSpec, Spec, EditorSpec, QueueSpec, VCSpec, BookSpec, HangarSpec,
            AirportSpec

(* Each of the programs keeps its variables in their types.                *)
THEOREM SequentialTypesOK == SequentialSpec => []TypesOK
<1>1. (/\ TypeOK /\ EditorTypeOK /\ QueueTypeOK /\ VCTypeOK
       /\ BookTypeOK /\ HangarTypeOK /\ AirportTypeOK) => TypesOK
  BY DEF TypesOK
<1> QED BY <1>1, EachRunsByItself, CalculatorTypeCorrect, EditorTypeCorrect, QueueTypeCorrect,
           VCTypeCorrect, BookTypeCorrect, HangarTypeCorrect, AirportTypeCorrect, PTL
=============================================================================
