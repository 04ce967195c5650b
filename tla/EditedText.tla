---------------------------- MODULE EditedText ----------------------------
(***************************************************************************)
(* What the line editor of src/terminal/input.cpp promises: a text of at   *)
(* most Capacity characters with an insertion point between two of them.   *)
(* A key inserts at the point, deletes before it or moves it; Enter        *)
(* submits the text without its trailing spaces; then the next line        *)
(* begins.                                                                 *)
(***************************************************************************)
EXTENDS Integers, Sequences

CONSTANTS Chars, Space, TabLength, Capacity

VARIABLES text, point, submitted

Text == {s \in Seq(Chars) : Len(s) <= Capacity}

Insert(s, k, n, c) ==
  [i \in 1 .. Len(s) + n |->
     IF i <= k THEN s[i] ELSE IF i <= k + n THEN c ELSE s[i - n]]

Delete(s, k) == [i \in 1 .. Len(s) - 1 |-> IF i < k THEN s[i] ELSE s[i + 1]]

IsTrimmed(s, t) ==
  /\ t = SubSeq(s, 1, Len(t)) /\ Len(t) <= Len(s)
  /\ \A i \in Len(t) + 1 .. Len(s) : s[i] = Space
  /\ Len(t) > 0 => t[Len(t)] # Space

Init == text = <<>> /\ point = 0 /\ submitted = FALSE

Type(n, c) ==
  /\ ~submitted /\ Len(text) + n <= Capacity
  /\ text' = Insert(text, point, n, c)
  /\ point' = point + n
  /\ UNCHANGED submitted

Backspace ==
  /\ ~submitted /\ point > 0
  /\ text' = Delete(text, point)
  /\ point' = point - 1
  /\ UNCHANGED submitted

MoveTo(k) ==
  /\ ~submitted /\ point' = k
  /\ UNCHANGED <<text, submitted>>

Submit ==
  /\ ~submitted
  /\ \E n \in 0 .. Len(text) :
       /\ IsTrimmed(text, SubSeq(text, 1, n))
       /\ text' = SubSeq(text, 1, n)
  /\ point' = 0 /\ submitted' = TRUE

StartOver == text' = <<>> /\ point' = 0 /\ submitted' = FALSE

Next ==
  \/ \E c \in Chars : Type(1, c)
  \/ Type(TabLength, Space)
  \/ Backspace
  \/ \E k \in 0 .. Len(text) : MoveTo(k)
  \/ Submit
  \/ StartOver

Spec == Init /\ [][Next]_<<text, point, submitted>>
=============================================================================
