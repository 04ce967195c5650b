----------------------------- MODULE MCKeyboard -----------------------------
(* Key sets for the model checking of Keyboard. *)
EXTENDS Keyboard

RightCtrl == [code |-> 29, extended |-> TRUE]
CapsLock  == [code |-> 58, extended |-> FALSE]
LetterA   == [code |-> 30, extended |-> FALSE]
ArrowUp   == [code |-> 72, extended |-> TRUE]

(* Without its prefix the right ctrl key reads as the left one; with a     *)
(* prefix that is not its own caps lock reads as no key.                   *)
CtrlAndCaps == {RightCtrl, CapsLock}
OneKey == {RightCtrl}
PlainAndExtended == {LetterA, ArrowUp}
=============================================================================
