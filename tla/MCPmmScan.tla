----------------------------- MODULE MCPmmScan ------------------------------
(* Instances of PmmScan for TLC: bitmaps of a few short bytes, at every    *)
(* alignment, with every content and every hint.  In one geometry, words   *)
(* of one byte and vectors of two and four; in the other, words only, but  *)
(* of twice as many bits, so that space has more shifts.                   *)
EXTENDS PmmScan

WordsAndVectors == <<1, 2, 4>>
WordsOnly == <<1, 2>>
=============================================================================
