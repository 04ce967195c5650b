--------------------------- MODULE MCNumberFormat ---------------------------
(* Instance of NumberFormat for TLC: all values of 8 bits and, of 16 bits, *)
(* those around the powers of ten and of two.                              *)
EXTENDS NumberFormat

MCMaxDigits == [w \in {8, 16} |-> IF w = 8 THEN 3 ELSE 5]

Around(n) == {n - 1, n, n + 1}
MCSamples ==
  [w \in {8, 16} |->
     IF w = 8 THEN 0 .. 255
     ELSE (0 .. 65535) \cap UNION
       ({Around(10 ^ k) : k \in 0 .. 4} \cup {Around(2 ^ k) : k \in 0 .. 16}
          \cup {Around(65536 - 10 ^ k) : k \in 0 .. 4})]

MCArrays == {<<0, 65535>>, <<255, 1, 128>>, <<32768, 0, 10>>}
=============================================================================
