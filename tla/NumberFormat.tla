---------------------------- MODULE NumberFormat ----------------------------
(***************************************************************************)
(* How terminal::output prints integers (src/terminal/output.h, .cpp): the *)
(* operators << for one value and for an array, the manipulators dec and   *)
(* hex, and the digit loops behind them, one digit per step.  A digit is   *)
(* its value, the sign and the prefix 0x are flags.                        *)
(***************************************************************************)
EXTENDS Integers, Sequences

CONSTANTS
  IntBits,      \* width of int: operands of a narrower type are promoted
  MaxDigits,    \* max_digits: width of a type -> size of the array digits
  Samples,      \* width of a type -> bit patterns that are printed
  Arrays        \* sequences of bit patterns that are printed as arrays

Power(b, n) == LET power[k \in 0 .. n] == IF k = 0 THEN 1 ELSE b * power[k - 1]
               IN  power[n]

Widths == DOMAIN MaxDigits
ASSUME WidthsAssumption ==
  /\ IntBits \in Widths /\ \A w \in Widths : w \in Nat /\ w > 0 /\ w % 4 = 0
  /\ \A w \in Widths : Samples[w] \subseteq 0 .. Power(2, w) - 1
(* An array of C++ has at least one element. *)
ASSUME ArraysAssumption == Arrays \subseteq Seq(Nat) \ {<<>>}
(* 3, 5, 10 and 20 digits for the 8, 16, 32 and 64 bits of the source. *)
ASSUME DigitsAssumption ==
  \A w \in Widths :
    MaxDigits[w] \in Nat /\ Power(2, w) <= Power(10, MaxDigits[w])

VARIABLES
  state,      \* integer_base of the stream
  operands,   \* bit patterns not printed yet, the first is being printed
  width,      \* bits of their type
  signed,     \* their type is signed
  is_pointer, \* operator<<(const void* )
  step, value, shift,
  room,       \* size of the array digits for the type of value
  negative, prefixed, digits   \* the text of the first operand so far

vars == <<state, operands, width, signed, is_pointer, step, value, shift, room,
          negative, prefixed, digits>>

-----------------------------------------------------------------------------
Nibbles(w) == w \div 4
SignedValue(w, u) == IF u >= Power(2, w - 1) THEN u - Power(2, w) ELSE u

(* Division in C++, towards zero. *)
Quotient(v, d) == IF v >= 0 THEN v \div d ELSE -((-v) \div d)

(* static_cast<uintN_t>(0) - static_cast<uintN_t>(value) as the template   *)
(* write_unsigned_no_sync receives it: the operands of a type narrower     *)
(* than int are promoted and the difference is an int.                     *)
Negated(w, u) == IF w < IntBits THEN -u ELSE (Power(2, w) - u) % Power(2, w)

(* Faulty variant: the sign bit is counted as a digit of the magnitude. *)
NegatedForHexNarrow(w, u) == (Power(2, w - 1) - u) % Power(2, w - 1)

(* The same difference passed to write_hex_N_no_sync, whose parameter has  *)
(* the width of the value again.                                           *)
NegatedForHex(w, u) == (Power(2, w) - u) % Power(2, w)

(* Leading zero nibbles from __builtin_clz, which is undefined for 0: any  *)
(* result is possible.                                                     *)
LeadingZeros(w, u) ==
  {n \in 0 .. Nibbles(w) :
     \/ u = 0
     \/ n < Nibbles(w) /\ u \div Power(2, 4 * (Nibbles(w) - n - 1)) \in 1 .. 15}

-----------------------------------------------------------------------------
Printing == operands # <<>>

Init ==
  /\ state = "dec" /\ operands = <<>> /\ width = IntBits /\ signed = FALSE
  /\ is_pointer = FALSE /\ step = "idle" /\ value = 0 /\ shift = 0 /\ room = 0
  /\ negative = FALSE /\ prefixed = FALSE /\ digits = <<>>

SetBase(base) ==
  /\ ~Printing /\ state' = base
  /\ UNCHANGED <<operands, width, signed, is_pointer, step, value, shift, room,
                 negative, prefixed, digits>>
Dec == SetBase("dec")
Hex == SetBase("hex")

Insert(seq, w, is_signed, pointer) ==
  /\ ~Printing
  /\ operands' = seq /\ width' = w /\ signed' = is_signed
  /\ is_pointer' = pointer /\ step' = "begin"
  /\ UNCHANGED <<state, value, shift, room, negative, prefixed, digits>>

InsertValue ==
  \E w \in Widths, is_signed \in BOOLEAN : \E u \in Samples[w] :
    Insert(<<u>>, w, is_signed, FALSE)

InsertArray ==
  \E w \in Widths, is_signed \in BOOLEAN, a \in Arrays :
    Insert([i \in DOMAIN a |-> a[i] % Power(2, w)], w, is_signed, FALSE)

InsertPointer ==
  \E u \in Samples[IntBits] : Insert(<<u>>, IntBits, FALSE, TRUE)

Operand == Head(operands)
OperandNegative == signed /\ SignedValue(width, Operand) < 0

(* write_unsigned_no_sync and, before it, write_signed_N_no_sync. *)
BeginDecimal ==
  /\ Printing /\ step = "begin" /\ state = "dec" /\ ~is_pointer
  /\ negative' = OperandNegative /\ prefixed' = FALSE /\ digits' = <<>>
  /\ value' = IF OperandNegative THEN Negated(width, Operand) ELSE Operand
  /\ room' = IF OperandNegative /\ width < IntBits THEN MaxDigits[IntBits]
             ELSE MaxDigits[width]
  /\ step' = "digit"
  /\ UNCHANGED <<state, operands, width, signed, is_pointer, shift>>

Digit ==
  LET rest == Quotient(value, 10)
  IN /\ step = "digit"
     /\ digits' = <<value - rest * 10>> \o digits
     /\ value' = rest
     /\ step' = IF rest = 0 THEN "written" ELSE "digit"
     /\ UNCHANGED <<state, operands, width, signed, is_pointer, shift, room,
                    negative, prefixed>>

(* write_hex_N_no_sync for 0, which write_pointer_no_sync does not test. *)
ZeroHex ==
  /\ Printing /\ step = "begin" /\ state = "hex" /\ ~is_pointer /\ Operand = 0
  /\ negative' = FALSE /\ prefixed' = TRUE /\ digits' = <<0>>
  /\ step' = "written"
  /\ UNCHANGED <<state, operands, width, signed, is_pointer, value, shift, room>>

BeginHex ==
  /\ Printing /\ step = "begin"
  /\ is_pointer \/ (state = "hex" /\ Operand # 0)
  /\ negative' = OperandNegative /\ prefixed' = TRUE /\ digits' = <<>>
  /\ value' = IF OperandNegative THEN NegatedForHex(width, Operand) ELSE Operand
  /\ \E zeros \in LeadingZeros(width, value') :
       /\ shift' = (Nibbles(width) - 1 - zeros) * 4
       /\ step' = IF shift' < 0 THEN "written" ELSE "nibble"
  /\ UNCHANGED <<state, operands, width, signed, is_pointer, room>>

Nibble ==
  /\ step = "nibble"
  /\ digits' = Append(digits, (value \div Power(2, shift)) % 16)
  /\ shift' = shift - 4
  /\ step' = IF shift < 4 THEN "written" ELSE "nibble"
  /\ UNCHANGED <<state, operands, width, signed, is_pointer, value, room,
                 negative, prefixed>>

(* The text of an operand is on the screen; the next one follows it. *)
Written ==
  /\ step = "written"
  /\ operands' = Tail(operands)
  /\ step' = IF Len(operands) = 1 THEN "idle" ELSE "begin"
  /\ value' = 0 /\ shift' = 0 /\ room' = 0
  /\ negative' = FALSE /\ prefixed' = FALSE /\ digits' = <<>>
  /\ UNCHANGED <<state, width, signed, is_pointer>>

Next ==
  \/ Dec \/ Hex \/ InsertValue \/ InsertArray \/ InsertPointer
  \/ BeginDecimal \/ Digit \/ ZeroHex \/ BeginHex \/ Nibble \/ Written

Spec == Init /\ [][Next]_vars

-----------------------------------------------------------------------------
Radix == IF prefixed THEN 16 ELSE 10

(* The number that a sequence of digits stands for. *)
Numeral(seq, radix) ==
  LET number[n \in 0 .. Len(seq)] ==
        IF n = 0 THEN 0 ELSE number[n - 1] * radix + seq[n]
  IN  number[Len(seq)]

(* The number that the text of the first operand shows. *)
ReadBack ==
  IF negative THEN -Numeral(digits, Radix) ELSE Numeral(digits, Radix)

(* The number that the first operand is. *)
Meant == IF signed THEN SignedValue(width, Operand) ELSE Operand

IsNumeral ==
  /\ digits # <<>>
  /\ \A i \in DOMAIN digits : digits[i] \in 0 .. Radix - 1
  /\ digits[1] # 0 \/ Len(digits) = 1

ShowsOperand == step = "written" => IsNumeral /\ ReadBack = Meant

(* The decimal digits of every value, also of the negative ones that are   *)
(* printed as an int, fit the array on the stack.                          *)
DigitsFit == step \in {"digit", "written"} /\ ~prefixed => Len(digits) <= room

(* The digits fit, and they are the shortest numeral of the value, in the  *)
(* base that was set last, except for the two cases below: also for the    *)
(* smallest value of a signed type, whose magnitude is its own bit         *)
(* pattern, and for an element of an array whatever the elements before it *)
(* were.                                                                   *)
PrintsValue ==
  /\ DigitsFit
  /\ step = "written" =>
    /\ prefixed = (is_pointer \/ state = "hex")
    /\ \/ negative /\ ~prefixed /\ width < IntBits
       \/ is_pointer /\ Operand = 0
       \/ ShowsOperand

(* What the documentation claims of the signed types (terminal_output.md): *)
(* the sign is followed by the magnitude, for all four widths.             *)
SignedPrinted == signed => ShowsOperand

(* What the documentation claims of pointers (terminal_output.md): the     *)
(* prefix is followed by the digits of the address, for every address.     *)
PointerPrinted == is_pointer => ShowsOperand
=============================================================================
