----------------------------- MODULE MCConsole ------------------------------
(* Instance of Console for TLC: lines of up to five letters and spaces, a  *)
(* table of seven commands, with spaces in some of them and some of them   *)
(* prefixes of others, and a screen of three rows of four columns.         *)
EXTENDS Console, FiniteSetsExt

CONSTANT a

(* str_compare, the terminator counting as 0: the difference of the first  *)
(* characters that differ.                                                 *)
CodeAt(s, i) == IF i > Len(s) THEN 0 ELSE IF s[i] = Space THEN 1 ELSE 2
StrCompare(comparer, other) ==
  LET stop == Min({i \in 1 .. Len(comparer) + 1 :
                    i = Len(comparer) + 1 \/ CodeAt(comparer, i) # CodeAt(other, i)})
  IN CodeAt(comparer, stop) - CodeAt(other, stop)

MCLines == UNION {[1 .. n -> Chars] : n \in 0 .. Capacity}
MCClear == <<a, Space, a>>
MCExit == <<a, a>>
MCCommands ==
  <<<<a>>, MCClear, <<a, Space, a, a>>, MCExit, <<a, a, Space, a>>, <<a, a, a>>,
    <<a, a, a, a>>>>

(* The functions, as a list of its own like the one in the source. *)
MCFunctions ==
  <<<<a>>, <<a, Space, a>>, <<a, Space, a, a>>, <<a, a>>, <<a, a, Space, a>>,
    <<a, a, a>>, <<a, a, a, a>>>>

MCOutputs == {<<a>>}

(* Bound: what the displaced window shows is not explored further. *)
InWindow == ~displaced
=============================================================================
