------------------------- MODULE NumberFormatProofs -------------------------
(***************************************************************************)
(* Proofs about the printing of integers, for every list of widths and     *)
(* every value of each of them.                                            *)
(***************************************************************************)
EXTENDS NumberFormat, SequenceTheorems, WellFoundedInduction, TLAPS

(* A nonempty set of numbers has a least one. *)
LEMMA LeastNumber ==
  ASSUME NEW S, S \subseteq Nat, S # {}
  PROVE  \E n \in S : \A m \in S : n <= m
<1>. DEFINE R == OpToRel(<, Nat)
<1>1. IsWellFoundedOn(R, Nat)
  BY NatLessThanWellFounded
<1>2. \A i, j \in Nat : i < j => <<i, j>> \in R
  BY DEF OpToRel
<1>. HIDE DEF R
<1>3. PICK n \in S : \A m \in S : <<m, n>> \notin R
  BY <1>1, WFMin
<1>4. ASSUME NEW m \in S PROVE n <= m
  <2>1. ~(m < n)
    BY <1>2, <1>3
  <2>. QED BY <2>1
<1>. QED BY <1>4

(* Induction over the numbers, stated of the set of those that satisfy     *)
(* what is to be shown.                                                    *)
LEMMA AllNumbers ==
  ASSUME NEW S, 0 \in S, \A n \in S : n \in Nat => n + 1 \in S
  PROVE  \A n \in Nat : n \in S
<1>. DEFINE Missing == {n \in Nat : n \notin S}
<1>. SUFFICES ASSUME Missing # {} PROVE FALSE
  OBVIOUS
<1>1. PICK m \in Missing : \A n \in Missing : m <= n
  BY LeastNumber
<1>2. m \in Nat /\ m \notin S /\ m # 0 /\ m - 1 \in Nat
  BY <1>1
<1>3. m - 1 \in S
  BY <1>1, <1>2
<1>4. (m - 1) + 1 \in S
  BY <1>2, <1>3
<1>. QED BY <1>2, <1>4

-----------------------------------------------------------------------------
(* Recursive functions over an interval.                                   *)

(* The function that rule computes up to n, from the value `first' for 0. *)
Computes(f, first, rule, n) ==
  /\ f \in [0 .. n -> Int]
  /\ f[0] = first
  /\ \A k \in 1 .. n : f[k] = rule[<<k, f[k - 1]>>]

(* It exists, for every n. *)
LEMMA Computable ==
  ASSUME NEW first \in Int, NEW rule \in [Nat \X Int -> Int], NEW n \in Nat
  PROVE  \E f : Computes(f, first, rule, n)
<1>. DEFINE Reached == {m \in Nat : \E f : Computes(f, first, rule, m)}
<1>1. 0 \in Reached
  <2>. DEFINE f == [k \in 0 .. 0 |-> first]
  <2>1. Computes(f, first, rule, 0)
    BY DEF Computes
  <2>. HIDE DEF f
  <2>. QED BY <2>1
<1>2. ASSUME NEW m \in Reached, m \in Nat PROVE m + 1 \in Reached
  <2>1. PICK f : Computes(f, first, rule, m)
    OBVIOUS
  <2>. DEFINE next == rule[<<m + 1, f[m]>>]
              g == [k \in 0 .. m + 1 |-> IF k = m + 1 THEN next ELSE f[k]]
  <2>2. f \in [0 .. m -> Int] /\ f[0] = first
        /\ \A k \in 1 .. m : f[k] = rule[<<k, f[k - 1]>>]
    BY <2>1 DEF Computes
  <2>3. next \in Int
    <3>1. m \in 0 .. m /\ f[m] \in Int /\ m + 1 \in Nat
      BY <1>2, <2>2
    <3>. QED BY <3>1
  <2>. HIDE DEF next
  <2>4. g \in [0 .. m + 1 -> Int]
    BY <1>2, <2>2, <2>3
  <2>5. g[0] = first
    BY <1>2, <2>2
  <2>6. ASSUME NEW k \in 1 .. m + 1 PROVE g[k] = rule[<<k, g[k - 1]>>]
    <3>1. g[k - 1] = f[k - 1]
      BY <1>2
    <3>2. CASE k = m + 1
      <4>1. g[k] = next /\ k - 1 = m
        BY <1>2, <3>2
      <4>. QED BY <3>1, <3>2, <4>1 DEF next
    <3>3. CASE k # m + 1
      <4>1. k \in 1 .. m /\ g[k] = f[k]
        BY <1>2, <3>3
      <4>. QED BY <2>2, <3>1, <4>1
    <3>. QED BY <3>2, <3>3
  <2>7. Computes(g, first, rule, m + 1)
    <3>. HIDE DEF g
    <3>. QED BY <2>4, <2>5, <2>6 DEF Computes
  <2>. HIDE DEF g
  <2>. QED BY <1>2, <2>7
<1>. HIDE DEF Reached
<1>3. n \in Reached
  BY <1>1, <1>2, AllNumbers
<1>. QED BY <1>3 DEF Reached

(* The powers of b up to the n-th. *)
Powers(f, b, n) == f[0] = 1 /\ \A k \in 1 .. n : f[k] = b * f[k - 1]

LEMMA PowerUnfolds ==
  ASSUME NEW b \in Nat, NEW n \in Nat
  PROVE  \E f : Powers(f, b, n) /\ Power(b, n) = f[n]
<1>. DEFINE Solves(f) == f = [k \in 0 .. n |-> IF k = 0 THEN 1 ELSE b * f[k - 1]]
            rule == [p \in Nat \X Int |-> b * p[2]]
<1>1. PICK f : Computes(f, 1, rule, n)
  <2>1. rule \in [Nat \X Int -> Int]
    OBVIOUS
  <2>. HIDE DEF rule
  <2>. QED BY <2>1, Computable
<1>2. f \in [0 .. n -> Int] /\ f[0] = 1 /\ \A k \in 1 .. n : f[k] = b * f[k - 1]
  <2>1. f \in [0 .. n -> Int] /\ f[0] = 1
        /\ \A k \in 1 .. n : f[k] = rule[<<k, f[k - 1]>>]
    <3>. HIDE DEF rule
    <3>. QED BY <1>1 DEF Computes
  <2>2. ASSUME NEW k \in 1 .. n PROVE f[k] = b * f[k - 1]
    <3>1. k \in Nat /\ f[k - 1] \in Int
      BY <2>1
    <3>2. rule[<<k, f[k - 1]>>] = b * f[k - 1]
      BY <3>1
    <3>. HIDE DEF rule
    <3>. QED BY <2>1, <3>2
  <2>. HIDE DEF rule
  <2>. QED BY <2>1, <2>2
<1>3. Solves(f)
  BY <1>2
<1>. DEFINE power == CHOOSE g : Solves(g)
<1>4. Solves(power)
  <2>. HIDE DEF Solves
  <2>. QED BY <1>3
<1>5. Power(b, n) = power[n]
  BY DEF Power
<1>. HIDE DEF power
<1>6. Powers(power, b, n)
  BY <1>4 DEF Powers
<1>. QED BY <1>5, <1>6

(* The recursion of Power, from one exponent to the next. *)
LEMMA PowerStep ==
  ASSUME NEW b \in Nat, NEW n \in Nat
  PROVE  Power(b, n + 1) = b * Power(b, n)
<1>1. PICK f : Powers(f, b, n) /\ Power(b, n) = f[n]
  BY PowerUnfolds
<1>2. PICK g : Powers(g, b, n + 1) /\ Power(b, n + 1) = g[n + 1]
  <2>1. n + 1 \in Nat
    OBVIOUS
  <2>. QED BY <2>1, PowerUnfolds
<1>. DEFINE Same == {k \in Nat : k <= n => f[k] = g[k]}
<1>3. 0 \in Same
  BY <1>1, <1>2 DEF Powers
<1>4. ASSUME NEW k \in Same, k \in Nat PROVE k + 1 \in Same
  <2>1. ASSUME k + 1 <= n PROVE f[k + 1] = g[k + 1]
    <3>1. k + 1 \in 1 .. n /\ k + 1 \in 1 .. n + 1 /\ (k + 1) - 1 = k /\ f[k] = g[k]
      BY <1>4, <2>1
    <3>2. f[k + 1] = b * f[k] /\ g[k + 1] = b * g[k]
      BY <1>1, <1>2, <3>1 DEF Powers
    <3>. QED BY <3>1, <3>2
  <2>. QED BY <2>1
<1>. HIDE DEF Same
<1>5. n \in Same
  BY <1>3, <1>4, AllNumbers
<1>6. f[n] = g[n]
  BY <1>5 DEF Same
<1>7. g[n + 1] = b * g[n]
  <2>1. n + 1 \in 1 .. n + 1 /\ (n + 1) - 1 = n
    OBVIOUS
  <2>. QED BY <1>2, <2>1 DEF Powers
<1>. QED BY <1>1, <1>2, <1>6, <1>7

LEMMA PowerZero ==
  ASSUME NEW b \in Nat
  PROVE  Power(b, 0) = 1
<1>1. PICK f : Powers(f, b, 0) /\ Power(b, 0) = f[0]
  BY PowerUnfolds
<1>. QED BY <1>1 DEF Powers

(* A power of a number is a number. *)
LEMMA PowerTyped ==
  ASSUME NEW b \in Nat, NEW n \in Nat
  PROVE  Power(b, n) \in Nat
<1>. DEFINE Typed == {k \in Nat : Power(b, k) \in Nat}
<1>1. 0 \in Typed
  BY PowerZero
<1>2. ASSUME NEW k \in Typed, k \in Nat PROVE k + 1 \in Typed
  <2>1. Power(b, k + 1) = b * Power(b, k)
    BY PowerStep
  <2>. QED BY <2>1
<1>. HIDE DEF Typed
<1>3. n \in Typed
  BY <1>1, <1>2, AllNumbers
<1>. QED BY <1>3 DEF Typed

(* A power of a positive number is positive. *)
LEMMA PowerPositive ==
  ASSUME NEW b \in Nat \ {0}, NEW n \in Nat
  PROVE  Power(b, n) \in Nat \ {0}
<1>. DEFINE Good == {k \in Nat : Power(b, k) \in Nat \ {0}}
<1>1. 0 \in Good
  BY PowerZero
<1>2. ASSUME NEW k \in Good, k \in Nat PROVE k + 1 \in Good
  <2>1. Power(b, k + 1) = b * Power(b, k)
    BY PowerStep
  <2>2. Power(b, k) \in Nat /\ Power(b, k) >= 1
    OBVIOUS
  <2>3. ASSUME NEW p \in Nat, p >= 1 PROVE b * p \in Nat /\ b * p # 0
    BY <2>3
  <2>. QED BY <2>1, <2>2, <2>3
<1>. HIDE DEF Good
<1>3. n \in Good
  BY <1>1, <1>2, AllNumbers
<1>. QED BY <1>3 DEF Good

(* Larger exponents give powers that are not smaller. *)
LEMMA PowerMonotone ==
  ASSUME NEW b \in Nat \ {0}, NEW m \in Nat, NEW n \in Nat, m <= n
  PROVE  Power(b, m) <= Power(b, n)
<1>. DEFINE Good == {k \in Nat : Power(b, m) <= Power(b, m + k)}
<1>1. 0 \in Good
  <2>1. Power(b, m) \in Nat /\ m + 0 = m
    BY PowerPositive
  <2>. QED BY <2>1
<1>2. ASSUME NEW k \in Good, k \in Nat PROVE k + 1 \in Good
  <2>1. Power(b, (m + k) + 1) = b * Power(b, m + k)
    <3>1. m + k \in Nat
      BY <1>2
    <3>. QED BY <3>1, PowerStep
  <2>2. (m + k) + 1 = m + (k + 1) /\ m + k \in Nat
    BY <1>2
  <2>3. Power(b, m) \in Nat /\ Power(b, m + k) \in Nat
    BY <2>2, PowerPositive
  <2>4. ASSUME NEW p \in Nat PROVE p <= b * p
    OBVIOUS
  <2>5. Power(b, m + k) <= Power(b, m + (k + 1))
    BY <2>1, <2>2, <2>3, <2>4
  <2>6. Power(b, m) <= Power(b, m + k)
    OBVIOUS
  <2>7. Power(b, m + (k + 1)) \in Nat
    <3>1. m + (k + 1) \in Nat
      BY <1>2
    <3>. QED BY <3>1, PowerPositive
  <2>. QED BY <1>2, <2>3, <2>5, <2>6, <2>7
<1>. HIDE DEF Good
<1>3. n - m \in Nat
  OBVIOUS
<1>4. n - m \in Good
  BY <1>1, <1>2, <1>3, AllNumbers
<1>. QED BY <1>4 DEF Good

(* A power below another has the smaller exponent. *)
LEMMA PowerBelow ==
  ASSUME NEW b \in Nat \ {0}, NEW m \in Nat, NEW n \in Nat,
         Power(b, m) < Power(b, n)
  PROVE  m < n
<1>1. Power(b, m) \in Nat /\ Power(b, n) \in Nat
  BY PowerPositive
<1>2. CASE n <= m
  <2>1. Power(b, n) <= Power(b, m)
    BY <1>2, PowerMonotone
  <2>. QED BY <1>1, <2>1
<1>. QED BY <1>2

(* Four bits more: sixteen times the value. *)
LEMMA PowerNibble ==
  ASSUME NEW s \in Nat
  PROVE  Power(2, s + 4) = 16 * Power(2, s)
<1>1. Power(2, s + 1) = 2 * Power(2, s)
  BY PowerStep
<1>2. Power(2, s + 2) = 2 * Power(2, s + 1)
  <2>1. s + 1 \in Nat /\ (s + 1) + 1 = s + 2
    OBVIOUS
  <2>. QED BY <2>1, PowerStep
<1>3. Power(2, s + 3) = 2 * Power(2, s + 2)
  <2>1. s + 2 \in Nat /\ (s + 2) + 1 = s + 3
    OBVIOUS
  <2>. QED BY <2>1, PowerStep
<1>4. Power(2, s + 4) = 2 * Power(2, s + 3)
  <2>1. s + 3 \in Nat /\ (s + 3) + 1 = s + 4
    OBVIOUS
  <2>. QED BY <2>1, PowerStep
<1>5. Power(2, s) \in Nat
  BY PowerPositive
<1>. QED BY <1>1, <1>2, <1>3, <1>4, <1>5

(* The bit patterns of a width: an even number, half of them with the sign *)
(* bit set.                                                                *)
LEMMA Patterns ==
  ASSUME NEW w \in Widths
  PROVE  /\ w \in Nat /\ w >= 4
         /\ Power(2, w) = 2 * Power(2, w - 1)
         /\ Power(2, w) \in Nat /\ Power(2, w - 1) \in Nat \ {0}
<1>1. w \in Nat /\ w > 0 /\ w % 4 = 0
  BY WidthsAssumption
<1>2. w >= 4
  BY <1>1
<1>3. w - 1 \in Nat /\ (w - 1) + 1 = w
  BY <1>1, <1>2
<1>4. Power(2, w) = 2 * Power(2, w - 1)
  BY <1>3, PowerStep
<1>5. Power(2, w - 1) \in Nat \ {0}
  BY <1>3, PowerPositive
<1>. QED BY <1>1, <1>2, <1>4, <1>5

-----------------------------------------------------------------------------
(* Numerals.                                                               *)

(* The numbers that the first digits of seq stand for. *)
Numbers(f, seq, radix) ==
  f[0] = 0 /\ \A k \in 1 .. Len(seq) : f[k] = f[k - 1] * radix + seq[k]

LEMMA NumeralUnfolds ==
  ASSUME NEW seq \in Seq(Int), NEW radix \in Nat
  PROVE  \E f : Numbers(f, seq, radix) /\ Numeral(seq, radix) = f[Len(seq)]
<1>. DEFINE size == Len(seq)
            Solves(f) == f = [k \in 0 .. size |->
                                IF k = 0 THEN 0 ELSE f[k - 1] * radix + seq[k]]
            rule == [p \in Nat \X Int |->
                       p[2] * radix + IF p[1] \in DOMAIN seq THEN seq[p[1]] ELSE 0]
<1>0. size \in Nat /\ DOMAIN seq = 1 .. size /\ \A k \in 1 .. size : seq[k] \in Int
  OBVIOUS
<1>. HIDE DEF size
<1>1. PICK f : Computes(f, 0, rule, size)
  <2>1. rule \in [Nat \X Int -> Int]
    <3>1. ASSUME NEW p \in Nat \X Int
          PROVE  p[2] * radix + (IF p[1] \in DOMAIN seq THEN seq[p[1]] ELSE 0) \in Int
      <4>1. (IF p[1] \in DOMAIN seq THEN seq[p[1]] ELSE 0) \in Int
        BY <1>0
      <4>2. p[2] * radix \in Int
        OBVIOUS
      <4>. QED BY <4>1, <4>2
    <3>. QED BY <3>1
  <2>. HIDE DEF rule
  <2>. QED BY <1>0, <2>1, Computable
<1>2. f \in [0 .. size -> Int] /\ f[0] = 0
      /\ \A k \in 1 .. size : f[k] = f[k - 1] * radix + seq[k]
  <2>1. f \in [0 .. size -> Int] /\ f[0] = 0
        /\ \A k \in 1 .. size : f[k] = rule[<<k, f[k - 1]>>]
    <3>. HIDE DEF rule
    <3>. QED BY <1>1 DEF Computes
  <2>2. ASSUME NEW k \in 1 .. size PROVE f[k] = f[k - 1] * radix + seq[k]
    <3>1. k \in Nat /\ f[k - 1] \in Int /\ k \in DOMAIN seq
      BY <1>0, <2>1
    <3>2. rule[<<k, f[k - 1]>>] = f[k - 1] * radix + seq[k]
      BY <3>1
    <3>. HIDE DEF rule
    <3>. QED BY <2>1, <3>2
  <2>. HIDE DEF rule
  <2>. QED BY <2>1, <2>2
<1>3. Solves(f)
  BY <1>0, <1>2
<1>. DEFINE number == CHOOSE g : Solves(g)
<1>4. Solves(number)
  <2>. HIDE DEF Solves
  <2>. QED BY <1>3
<1>5. Numeral(seq, radix) = number[size]
  BY DEF Numeral, size
<1>. HIDE DEF number
<1>6. number[0] = 0 /\ \A k \in 1 .. size : number[k] = number[k - 1] * radix + seq[k]
  BY <1>0, <1>4
<1>7. Numbers(number, seq, radix)
  BY <1>6 DEF Numbers, size
<1>. QED BY <1>5, <1>7 DEF size

(* No digits stand for 0. *)
LEMMA NumeralEmpty ==
  ASSUME NEW radix \in Nat
  PROVE  Numeral(<<>>, radix) = 0
<1>1. PICK f : Numbers(f, <<>>, radix) /\ Numeral(<<>>, radix) = f[Len(<<>>)]
  <2>1. <<>> \in Seq(Int)
    OBVIOUS
  <2>. QED BY <2>1, NumeralUnfolds
<1>2. Len(<<>>) = 0
  OBVIOUS
<1>. QED BY <1>1, <1>2 DEF Numbers

(* The numbers are integers. *)
LEMMA NumbersTyped ==
  ASSUME NEW seq \in Seq(Int), NEW radix \in Nat, NEW f, Numbers(f, seq, radix)
  PROVE  \A k \in 0 .. Len(seq) : f[k] \in Int
<1>. DEFINE Typed == {k \in Nat : k <= Len(seq) => f[k] \in Int}
<1>0. Len(seq) \in Nat /\ \A k \in 1 .. Len(seq) : seq[k] \in Int
  OBVIOUS
<1>1. 0 \in Typed
  BY DEF Numbers
<1>2. ASSUME NEW k \in Typed, k \in Nat PROVE k + 1 \in Typed
  <2>1. ASSUME k + 1 <= Len(seq) PROVE f[k + 1] \in Int
    <3>1. k + 1 \in 1 .. Len(seq) /\ (k + 1) - 1 = k /\ f[k] \in Int
      BY <1>0, <1>2, <2>1
    <3>2. f[k + 1] = f[k] * radix + seq[k + 1]
      BY <3>1 DEF Numbers
    <3>3. f[k] * radix \in Int /\ seq[k + 1] \in Int
      BY <1>0, <3>1
    <3>. QED BY <3>2, <3>3
  <2>. QED BY <1>2, <2>1
<1>. HIDE DEF Typed
<1>3. \A k \in Nat : k \in Typed
  BY <1>1, <1>2, AllNumbers
<1>. QED BY <1>0, <1>3 DEF Typed

LEMMA NumeralTyped ==
  ASSUME NEW seq \in Seq(Int), NEW radix \in Nat
  PROVE  Numeral(seq, radix) \in Int
<1>1. PICK f : Numbers(f, seq, radix) /\ Numeral(seq, radix) = f[Len(seq)]
  BY NumeralUnfolds
<1>2. Len(seq) \in 0 .. Len(seq)
  OBVIOUS
<1>. QED BY <1>1, <1>2, NumbersTyped

(* A digit behind the others. *)
LEMMA NumeralAppend ==
  ASSUME NEW seq \in Seq(Int), NEW d \in Int, NEW radix \in Nat
  PROVE  Numeral(Append(seq, d), radix) = Numeral(seq, radix) * radix + d
<1>. DEFINE more == Append(seq, d)
            size == Len(seq)
<1>1. /\ size \in Nat /\ more \in Seq(Int) /\ Len(more) = size + 1
      /\ more[size + 1] = d /\ \A k \in 1 .. size : more[k] = seq[k]
  OBVIOUS
<1>2. PICK f : Numbers(f, seq, radix) /\ Numeral(seq, radix) = f[Len(seq)]
  BY NumeralUnfolds
<1>. HIDE DEF more
<1>3. PICK g : Numbers(g, more, radix) /\ Numeral(more, radix) = g[Len(more)]
  BY <1>1, NumeralUnfolds
<1>. DEFINE Same == {k \in Nat : k <= size => f[k] = g[k]}
<1>4. 0 \in Same
  BY <1>2, <1>3 DEF Numbers
<1>5. ASSUME NEW k \in Same, k \in Nat PROVE k + 1 \in Same
  <2>1. ASSUME k + 1 <= size PROVE f[k + 1] = g[k + 1]
    <3>1. /\ k + 1 \in 1 .. Len(seq) /\ k + 1 \in 1 .. Len(more)
          /\ (k + 1) - 1 = k /\ f[k] = g[k] /\ more[k + 1] = seq[k + 1]
      <4>1. k + 1 \in 1 .. size /\ k + 1 \in 1 .. size + 1 /\ k <= size
            /\ (k + 1) - 1 = k
        BY <1>1, <1>5, <2>1
      <4>2. f[k] = g[k]
        BY <1>5, <4>1
      <4>. QED BY <1>1, <4>1, <4>2
    <3>2. f[k + 1] = f[k] * radix + seq[k + 1]
      BY <1>2, <3>1 DEF Numbers
    <3>3. g[k + 1] = g[k] * radix + more[k + 1]
      BY <1>3, <3>1 DEF Numbers
    <3>. QED BY <3>1, <3>2, <3>3
  <2>. QED BY <1>5, <2>1
<1>. HIDE DEF Same
<1>6. f[size] = g[size]
  <2>1. size \in Same
    BY <1>1, <1>4, <1>5, AllNumbers
  <2>. QED BY <1>1, <2>1 DEF Same
<1>7. g[size + 1] = g[size] * radix + more[size + 1]
  <2>1. size + 1 \in 1 .. Len(more) /\ (size + 1) - 1 = size
    BY <1>1
  <2>. QED BY <1>3, <2>1 DEF Numbers
<1>. QED BY <1>1, <1>2, <1>3, <1>6, <1>7 DEF more

(* A digit before the others counts as often as the power of the radix for *)
(* the number of the others.                                               *)
LEMMA NumeralPrepend ==
  ASSUME NEW seq \in Seq(Int), NEW d \in Int, NEW radix \in Nat
  PROVE  Numeral(<<d>> \o seq, radix)
           = d * Power(radix, Len(seq)) + Numeral(seq, radix)
<1>. DEFINE more == <<d>> \o seq
            size == Len(seq)
<1>1. /\ size \in Nat /\ more \in Seq(Int) /\ Len(more) = size + 1
      /\ more[1] = d /\ \A k \in 1 .. size : more[k + 1] = seq[k]
      /\ \A k \in 1 .. size : seq[k] \in Int
  OBVIOUS
<1>2. PICK f : Numbers(f, seq, radix) /\ Numeral(seq, radix) = f[Len(seq)]
  BY NumeralUnfolds
<1>. HIDE DEF more
<1>3. PICK g : Numbers(g, more, radix) /\ Numeral(more, radix) = g[Len(more)]
  BY <1>1, NumeralUnfolds
<1>. DEFINE Good == {k \in Nat : k <= size => g[k + 1] = d * Power(radix, k) + f[k]}
<1>4. 0 \in Good
  <2>1. 1 \in 1 .. Len(more) /\ 1 - 1 = 0
    BY <1>1
  <2>2. g[1] = g[0] * radix + more[1] /\ g[0] = 0
    BY <1>3, <2>1 DEF Numbers
  <2>3. g[1] = d
    BY <1>1, <2>2
  <2>4. f[0] = 0
    BY <1>2 DEF Numbers
  <2>. QED BY <2>3, <2>4, PowerZero
<1>5. ASSUME NEW k \in Good, k \in Nat PROVE k + 1 \in Good
  <2>1. ASSUME k + 1 <= size
        PROVE  g[(k + 1) + 1] = d * Power(radix, k + 1) + f[k + 1]
    <3>1. /\ k + 1 \in 1 .. Len(seq) /\ (k + 1) + 1 \in 1 .. Len(more)
          /\ (k + 1) - 1 = k /\ ((k + 1) + 1) - 1 = k + 1 /\ k \in 0 .. Len(seq)
          /\ more[(k + 1) + 1] = seq[k + 1]
      BY <1>1, <1>5, <2>1
    <3>2. f[k + 1] = f[k] * radix + seq[k + 1]
      BY <1>2, <3>1 DEF Numbers
    <3>3. g[(k + 1) + 1] = g[k + 1] * radix + seq[k + 1]
      BY <1>3, <3>1 DEF Numbers
    <3>4. g[k + 1] = d * Power(radix, k) + f[k]
      BY <1>5, <2>1
    <3>5. Power(radix, k + 1) = radix * Power(radix, k)
      BY <1>5, PowerStep
    <3>6. Power(radix, k) \in Int /\ f[k] \in Int /\ seq[k + 1] \in Int
      <4>1. f[k] \in Int
        BY <1>2, <3>1, NumbersTyped
      <4>2. Power(radix, k) \in Nat
        BY <1>5, PowerTyped
      <4>. QED BY <1>1, <3>1, <4>1, <4>2
    <3>7. ASSUME NEW p \in Int, NEW v \in Int, NEW e \in Int
          PROVE  (d * p + v) * radix + e = d * (radix * p) + (v * radix + e)
      OBVIOUS
    <3>8. (d * Power(radix, k) + f[k]) * radix + seq[k + 1]
            = d * (radix * Power(radix, k)) + (f[k] * radix + seq[k + 1])
      BY <3>6, <3>7
    <3>. QED BY <3>2, <3>3, <3>4, <3>5, <3>8
  <2>. QED BY <1>5, <2>1
<1>. HIDE DEF Good
<1>6. size \in Good
  BY <1>1, <1>4, <1>5, AllNumbers
<1>7. g[size + 1] = d * Power(radix, size) + f[size]
  BY <1>1, <1>6 DEF Good
<1>. QED BY <1>1, <1>2, <1>3, <1>7 DEF more

-----------------------------------------------------------------------------
(* The invariant.                                                          *)

(* What the digits of the first operand are to show. *)
Magnitude == IF OperandNegative THEN Power(2, width) - Operand ELSE Operand

(* A negative value of a narrow type in decimal, and the null pointer: the *)
(* printings of which only the number of digits is claimed.                *)
Promoted == negative /\ ~prefixed /\ width < IntBits
NullPointer == is_pointer /\ Operand = 0

Size(v) == IF v < 0 THEN -v ELSE v

AreDigits(seq, radix) == \A i \in DOMAIN seq : seq[i] \in 0 .. radix - 1

NumberTypes ==
  /\ state \in {"dec", "hex"} /\ width \in Widths
  /\ signed \in BOOLEAN /\ is_pointer \in BOOLEAN
  /\ negative \in BOOLEAN /\ prefixed \in BOOLEAN
  /\ operands \in Seq(Nat)
  /\ \A i \in DOMAIN operands : operands[i] < Power(2, width)
  /\ step \in {"idle", "begin", "digit", "nibble", "written"}
  /\ step = "idle" <=> operands = <<>>
  /\ value \in Int /\ room \in Nat /\ digits \in Seq(Int)

(* Sign and prefix belong to the operand and to the base. *)
Flags ==
  step \in {"digit", "nibble", "written"} =>
    /\ negative = OperandNegative
    /\ prefixed = (is_pointer \/ state = "hex")
    /\ step = "digit" => ~prefixed
    /\ step = "nibble" => prefixed

(* What is left of the value and the digits written so far make up the     *)
(* magnitude.                                                              *)
DecimalSplit(v, seq, m) ==
  /\ v \in Nat
  /\ v * Power(10, Len(seq)) + Numeral(seq, 10) = m
  /\ AreDigits(seq, 10)

(* The digits still to come fit the array beside the ones that are there. *)
HasRoom(v, seq, size) ==
  /\ size > 0 /\ Len(seq) <= size
  /\ Size(v) * Power(10, Len(seq)) < Power(10, size)
  /\ seq # <<>> => v # 0

DecimalDigits ==
  step = "digit" =>
    /\ HasRoom(value, digits, room)
    /\ ~Promoted => DecimalSplit(value, digits, Magnitude)

(* The nibbles written so far are those above the next four bits, and the  *)
(* first of them is not 0.                                                 *)
HexSplit(v, seq, s, m) ==
  /\ v = m
  /\ Numeral(seq, 16) = v \div Power(2, s + 4)
  /\ AreDigits(seq, 16)
  /\ IF seq = <<>> THEN v \div Power(2, s) \in 1 .. 15 ELSE seq[1] # 0

HexDigits ==
  step = "nibble" =>
    /\ value \in Nat /\ shift \in Nat /\ shift % 4 = 0
    /\ ~NullPointer => HexSplit(value, digits, shift, Magnitude)

(* A shortest numeral of m. *)
IsNumeralOf(seq, radix, m) ==
  /\ seq # <<>> /\ AreDigits(seq, radix)
  /\ seq[1] # 0 \/ Len(seq) = 1
  /\ Numeral(seq, radix) = m

Shown ==
  step = "written" =>
    /\ ~prefixed => Len(digits) <= room
    /\ ~Promoted /\ ~NullPointer => IsNumeralOf(digits, Radix, Magnitude)

NumberInv ==
  NumberTypes /\ Flags /\ DecimalDigits /\ HexDigits /\ Shown

-----------------------------------------------------------------------------
(* One digit.                                                              *)

(* The division of C++ by 10, of either sign. *)
LEMMA Dividing ==
  ASSUME NEW v \in Int
  PROVE  /\ Quotient(v, 10) \in Int
         /\ Size(v) \in Nat /\ Size(Quotient(v, 10)) \in Nat
         /\ Size(Quotient(v, 10)) * 10 <= Size(v)
         /\ v \in Nat => /\ Quotient(v, 10) \in Nat
                         /\ v - Quotient(v, 10) * 10 \in 0 .. 9
  BY DEF Quotient, Size

(* A sequence with one more element in front. *)
LEMMA Prepended ==
  ASSUME NEW seq \in Seq(Int), NEW d \in Int
  PROVE  /\ <<d>> \o seq \in Seq(Int) /\ Len(<<d>> \o seq) = Len(seq) + 1
         /\ <<d>> \o seq # <<>> /\ (<<d>> \o seq)[1] = d
         /\ Len(seq) \in Nat /\ (seq = <<>> => Len(seq) = 0)
         /\ \A i \in 1 .. Len(seq) + 1 : i # 1 =>
              i - 1 \in DOMAIN seq /\ (<<d>> \o seq)[i] = seq[i - 1]
  OBVIOUS

LEMMA PrependedDigits ==
  ASSUME NEW seq \in Seq(Int), NEW radix \in Nat, NEW d \in 0 .. radix - 1,
         AreDigits(seq, radix)
  PROVE  AreDigits(<<d>> \o seq, radix)
<1>. DEFINE more == <<d>> \o seq
<1>1. /\ more \in Seq(Int) /\ Len(more) = Len(seq) + 1 /\ more[1] = d
      /\ Len(seq) \in Nat
      /\ \A i \in 1 .. Len(seq) + 1 : i # 1 =>
           i - 1 \in DOMAIN seq /\ more[i] = seq[i - 1]
  BY Prepended
<1>. HIDE DEF more
<1>2. ASSUME NEW i \in DOMAIN more PROVE more[i] \in 0 .. radix - 1
  <2>1. i \in 1 .. Len(seq) + 1
    BY <1>1
  <2>2. CASE i = 1
    BY <1>1, <2>2
  <2>3. CASE i # 1
    <3>1. i - 1 \in DOMAIN seq /\ more[i] = seq[i - 1]
      BY <1>1, <2>1, <2>3
    <3>. QED BY <3>1 DEF AreDigits
  <2>. QED BY <2>2, <2>3
<1>3. AreDigits(more, radix)
  BY <1>2 DEF AreDigits
<1>. QED BY <1>3 DEF more

(* A division moves one digit from the value to the text. *)
LEMMA SplitMoves ==
  ASSUME NEW v \in Nat, NEW seq \in Seq(Int), NEW m \in Int, DecimalSplit(v, seq, m)
  PROVE  DecimalSplit(Quotient(v, 10), <<v - Quotient(v, 10) * 10>> \o seq, m)
<1>. DEFINE q == Quotient(v, 10)
            d == v - q * 10
<1>1. q \in Nat /\ d \in 0 .. 9 /\ d \in Int
  <2>1. v \in Int
    OBVIOUS
  <2>2. Quotient(v, 10) \in Nat /\ v - Quotient(v, 10) * 10 \in 0 .. 9
    BY <2>1, Dividing
  <2>. QED BY <2>2
<1>2. v = q * 10 + d
  BY <1>1
<1>. HIDE DEF q, d
<1>3. AreDigits(<<d>> \o seq, 10)
  <2>1. d \in 0 .. 10 - 1
    BY <1>1
  <2>. QED BY <2>1, PrependedDigits DEF DecimalSplit
<1>4. Numeral(<<d>> \o seq, 10) = d * Power(10, Len(seq)) + Numeral(seq, 10)
  BY <1>1, NumeralPrepend
<1>5. Len(<<d>> \o seq) = Len(seq) + 1 /\ Len(seq) \in Nat
  BY <1>1, Prepended
<1>6. Power(10, Len(seq) + 1) = 10 * Power(10, Len(seq)) /\ Power(10, Len(seq)) \in Nat
  BY <1>5, PowerStep, PowerTyped
<1>7. Numeral(seq, 10) \in Int
  BY NumeralTyped
<1>8. ASSUME NEW p \in Nat, NEW n \in Int
      PROVE  (q * 10 + d) * p + n = q * (10 * p) + (d * p + n)
  BY <1>1
<1>9. v * Power(10, Len(seq)) + Numeral(seq, 10) = m
  BY DEF DecimalSplit
<1>10. q * Power(10, Len(<<d>> \o seq)) + Numeral(<<d>> \o seq, 10) = m
  <2>1. (q * 10 + d) * Power(10, Len(seq)) + Numeral(seq, 10)
          = q * (10 * Power(10, Len(seq))) + (d * Power(10, Len(seq)) + Numeral(seq, 10))
    BY <1>6, <1>7, <1>8
  <2>2. Power(10, Len(<<d>> \o seq)) = 10 * Power(10, Len(seq))
    BY <1>5, <1>6
  <2>3. q * Power(10, Len(<<d>> \o seq)) = q * (10 * Power(10, Len(seq)))
    BY <2>2
  <2>4. (q * 10 + d) * Power(10, Len(seq)) + Numeral(seq, 10) = m
    BY <1>2, <1>9
  <2>. QED BY <1>4, <2>1, <2>3, <2>4
<1>11. DecimalSplit(q, <<d>> \o seq, m)
  BY <1>1, <1>3, <1>10 DEF DecimalSplit
<1>. QED BY <1>11 DEF q, d

(* ... and the text stays within the array: as long as the value is not 0, *)
(* it has a digit less than the array.                                     *)
LEMMA RoomShrinks ==
  ASSUME NEW v \in Int, NEW seq \in Seq(Int), NEW size \in Nat, NEW d \in Int,
         HasRoom(v, seq, size)
  PROVE  /\ Len(<<d>> \o seq) <= size
         /\ Quotient(v, 10) # 0 => HasRoom(Quotient(v, 10), <<d>> \o seq, size)
<1>. DEFINE q == Quotient(v, 10)
            P == Power(10, Len(seq))
            more == <<d>> \o seq
<1>1. /\ Size(v) \in Nat /\ Size(q) \in Nat /\ Size(q) * 10 <= Size(v)
  BY Dividing
<1>2. Len(more) = Len(seq) + 1 /\ Len(seq) \in Nat /\ (seq = <<>> => Len(seq) = 0)
  BY Prepended
<1>3. size > 0 /\ Size(v) * P < Power(10, size) /\ (seq # <<>> => v # 0)
  BY DEF HasRoom
<1>4. P \in Nat \ {0} /\ Power(10, size) \in Nat
  BY <1>2, PowerPositive
<1>5. Power(10, Len(seq) + 1) = 10 * P
  BY <1>2, PowerStep
<1>. HIDE DEF q, P, more
<1>6. Len(more) <= size
  <2>1. CASE seq = <<>>
    BY <1>2, <1>3, <2>1
  <2>2. CASE seq # <<>>
    <3>1. Size(v) >= 1
      BY <1>3, <2>2 DEF Size
    <3>2. ASSUME NEW a \in Nat, a >= 1, NEW p \in Nat PROVE p <= a * p /\ a * p \in Nat
      BY <3>2
    <3>3. P <= Size(v) * P /\ Size(v) * P \in Nat
      BY <1>1, <1>4, <3>1, <3>2
    <3>4. P < Power(10, size)
      BY <1>3, <1>4, <3>3
    <3>5. Len(seq) < size
      BY <1>2, <3>4, PowerBelow DEF P
    <3>. QED BY <1>2, <3>5
  <2>. QED BY <2>1, <2>2
<1>7. ASSUME q # 0 PROVE HasRoom(q, more, size)
  <2>1. ASSUME NEW a \in Nat, NEW b \in Nat, a * 10 <= b, NEW p \in Nat
        PROVE  a * (10 * p) <= b * p
    <3>1. (a * 10) * p <= b * p
      BY <2>1
    <3>. QED BY <3>1
  <2>2. Size(q) * (10 * P) <= Size(v) * P
    BY <1>1, <1>4, <2>1
  <2>3. Size(q) * (10 * P) \in Nat /\ Size(v) * P \in Nat
    BY <1>1, <1>4
  <2>4. Size(q) * Power(10, Len(more)) < Power(10, size)
    BY <1>2, <1>3, <1>4, <1>5, <2>2, <2>3
  <2>. QED BY <1>3, <1>6, <1>7, <2>4 DEF HasRoom
<1>. QED BY <1>6, <1>7 DEF q, more

(* With the last digit, the text is a numeral of the magnitude. *)
LEMMA LastDigit ==
  ASSUME NEW v \in Nat, NEW seq \in Seq(Int), NEW m \in Int,
         DecimalSplit(v, seq, m), seq # <<>> => v # 0, Quotient(v, 10) = 0
  PROVE  IsNumeralOf(<<v - Quotient(v, 10) * 10>> \o seq, 10, m)
<1>. DEFINE more == <<v>> \o seq
<1>1. v - Quotient(v, 10) * 10 = v
  OBVIOUS
<1>2. DecimalSplit(0, more, m)
  BY <1>1, SplitMoves
<1>3. /\ more \in Seq(Int) /\ more # <<>> /\ more[1] = v
      /\ Len(more) = Len(seq) + 1 /\ Len(seq) \in Nat /\ (seq = <<>> => Len(seq) = 0)
  BY Prepended
<1>. HIDE DEF more
<1>4. Numeral(more, 10) = m
  <2>1. 0 * Power(10, Len(more)) + Numeral(more, 10) = m
    BY <1>2 DEF DecimalSplit
  <2>2. Power(10, Len(more)) \in Nat /\ Numeral(more, 10) \in Int
    <3>1. Len(more) \in Nat
      BY <1>3
    <3>. QED BY <1>3, <3>1, PowerTyped, NumeralTyped
  <2>. QED BY <2>1, <2>2
<1>5. more[1] # 0 \/ Len(more) = 1
  BY <1>3
<1>6. IsNumeralOf(more, 10, m)
  BY <1>2, <1>3, <1>4, <1>5 DEF IsNumeralOf, DecimalSplit
<1>. QED BY <1>1, <1>6 DEF more

(* The quotient by sixteen times a number, in two steps. *)
LEMMA NestedQuotient ==
  ASSUME NEW v \in Nat, NEW p \in Nat \ {0}
  PROVE  /\ v \div p \in Nat
         /\ (v \div p) \div 16 = v \div (16 * p)
         /\ (v \div (16 * p)) * 16 + ((v \div p) % 16) = v \div p
         /\ (v \div p) % 16 \in 0 .. 15
<1>. DEFINE a == v \div p
            b == a \div 16
            c == v \div (16 * p)
<1>1. a \in Nat /\ p * a <= v /\ v < p * a + p
  OBVIOUS
<1>2. 16 * p \in Nat /\ 16 * p > 0
  OBVIOUS
<1>3. c \in Nat /\ (16 * p) * c <= v /\ v < (16 * p) * c + 16 * p
  <2>1. ASSUME NEW n \in Nat, n > 0
        PROVE  v \div n \in Nat /\ n * (v \div n) <= v /\ v < n * (v \div n) + n
    BY <2>1
  <2>. QED BY <1>2, <2>1
<1>. HIDE DEF a, c
<1>4. b \in Nat /\ 16 * b <= a /\ a < 16 * b + 16 /\ b * 16 + (a % 16) = a
      /\ a % 16 \in 0 .. 15
  BY <1>1
<1>. HIDE DEF b
<1>5. b = c
  <2>1. ASSUME NEW x \in Nat, NEW y \in Nat, x < y PROVE p * x + p <= p * y
    <3>1. x + 1 <= y
      BY <2>1
    <3>2. p * (x + 1) <= p * y
      BY <3>1
    <3>. QED BY <3>2
  <2>2. ASSUME b < c PROVE FALSE
    <3>1. a < 16 * c
      BY <1>3, <1>4, <2>2
    <3>2. p * a + p <= p * (16 * c)
      BY <1>1, <1>3, <2>1, <3>1
    <3>3. p * (16 * c) = (16 * p) * c
      BY <1>3
    <3>4. p * a \in Nat /\ (16 * p) * c \in Nat
      BY <1>1, <1>3
    <3>. QED BY <1>1, <1>3, <3>2, <3>3, <3>4
  <2>3. ASSUME c < b PROVE FALSE
    <3>1. 16 * c + 15 < a
      BY <1>1, <1>3, <1>4, <2>3
    <3>2. p * (16 * c + 15) + p <= p * a
      BY <1>1, <1>3, <2>1, <3>1
    <3>3. p * (16 * c + 15) + p = (16 * p) * c + 16 * p
      BY <1>3
    <3>4. p * a \in Nat /\ (16 * p) * c \in Nat
      BY <1>1, <1>3
    <3>. QED BY <1>1, <1>3, <3>2, <3>3, <3>4
  <2>. QED BY <1>3, <1>4, <2>2, <2>3
<1>. QED BY <1>1, <1>4, <1>5 DEF a, b, c

(* A sequence with one more element behind. *)
LEMMA AppendedDigits ==
  ASSUME NEW seq \in Seq(Int), NEW radix \in Nat, NEW d \in 0 .. radix - 1,
         AreDigits(seq, radix)
  PROVE  /\ Append(seq, d) \in Seq(Int) /\ Append(seq, d) # <<>>
         /\ AreDigits(Append(seq, d), radix)
         /\ Append(seq, d)[1] = IF seq = <<>> THEN d ELSE seq[1]
<1>. DEFINE more == Append(seq, d)
<1>1. /\ more \in Seq(Int) /\ Len(more) = Len(seq) + 1 /\ Len(seq) \in Nat
      /\ more[Len(seq) + 1] = d
      /\ \A i \in 1 .. Len(seq) : i \in DOMAIN seq /\ more[i] = seq[i]
  OBVIOUS
<1>2. seq = <<>> <=> Len(seq) = 0
  OBVIOUS
<1>. HIDE DEF more
<1>3. more # <<>>
  BY <1>1
<1>4. more[1] = IF seq = <<>> THEN d ELSE seq[1]
  <2>1. CASE seq = <<>>
    BY <1>1, <1>2, <2>1
  <2>2. CASE seq # <<>>
    <3>1. 1 \in 1 .. Len(seq)
      BY <1>1, <1>2, <2>2
    <3>. QED BY <1>1, <2>2, <3>1
  <2>. QED BY <2>1, <2>2
<1>5. ASSUME NEW i \in DOMAIN more PROVE more[i] \in 0 .. radix - 1
  <2>1. i \in 1 .. Len(seq) \/ i = Len(seq) + 1
    BY <1>1
  <2>2. CASE i \in 1 .. Len(seq)
    BY <1>1, <2>2 DEF AreDigits
  <2>3. CASE i = Len(seq) + 1
    BY <1>1, <2>3
  <2>. QED BY <2>1, <2>2, <2>3
<1>6. AreDigits(more, radix)
  BY <1>5 DEF AreDigits
<1>. QED BY <1>1, <1>3, <1>4, <1>6 DEF more

(* The next nibble of a value is the next digit of its numeral. *)
LEMMA NibbleShown ==
  ASSUME NEW v \in Nat, NEW seq \in Seq(Int), NEW s \in Nat, NEW m \in Nat,
         HexSplit(v, seq, s, m), s % 4 = 0
  PROVE  LET more == Append(seq, (v \div Power(2, s)) % 16)
         IN  /\ more \in Seq(Int)
             /\ s >= 4 => HexSplit(v, more, s - 4, m)
             /\ s < 4 => IsNumeralOf(more, 16, m)
<1>. DEFINE p == Power(2, s)
            d == (v \div p) % 16
            more == Append(seq, d)
<1>1. p \in Nat \ {0} /\ Power(2, s + 4) = 16 * p
  <2>1. Power(2, s) \in Nat \ {0}
    <3>. HIDE DEF p, d, more
    <3>1. 2 \in Nat \ {0}
      OBVIOUS
    <3>. QED BY <3>1, PowerPositive
  <2>2. Power(2, s + 4) = 16 * Power(2, s)
    BY PowerNibble
  <2>. QED BY <2>1, <2>2
<1>. HIDE DEF p
<1>2. /\ v \div p \in Nat /\ d \in 0 .. 15
      /\ (v \div (16 * p)) * 16 + d = v \div p
  BY <1>1, NestedQuotient
<1>3. /\ v = m /\ Numeral(seq, 16) = v \div (16 * p) /\ AreDigits(seq, 16)
      /\ IF seq = <<>> THEN v \div p \in 1 .. 15 ELSE seq[1] # 0
  BY <1>1 DEF HexSplit, p
<1>4. seq = <<>> => d # 0
  <2>1. v \div (16 * p) \in Int
    BY <1>3, NumeralTyped
  <2>2. ASSUME NEW x \in Int, x * 16 + 0 \in 1 .. 15 PROVE FALSE
    BY <2>2
  <2>. HIDE DEF d
  <2>. QED BY <1>2, <1>3, <2>1, <2>2
<1>. HIDE DEF d
<1>5. d \in 0 .. 16 - 1 /\ d \in Int /\ 16 \in Nat
  BY <1>2
<1>6. more \in Seq(Int) /\ more # <<>> /\ AreDigits(more, 16)
      /\ more[1] = IF seq = <<>> THEN d ELSE seq[1]
  BY <1>3, <1>5, AppendedDigits
<1>7. more[1] # 0
  BY <1>3, <1>4, <1>6
<1>8. Numeral(more, 16) = v \div p
  <2>1. Numeral(more, 16) = Numeral(seq, 16) * 16 + d
    BY <1>5, NumeralAppend
  <2>. QED BY <1>2, <1>3, <2>1
<1>. HIDE DEF more
<1>9. ASSUME s >= 4 PROVE HexSplit(v, more, s - 4, m)
  <2>1. (s - 4) + 4 = s
    OBVIOUS
  <2>. QED BY <1>3, <1>6, <1>7, <1>8, <2>1 DEF HexSplit, p
<1>10. ASSUME s < 4 PROVE IsNumeralOf(more, 16, m)
  <2>1. s = 0
    BY <1>10
  <2>2. v \div p = v
    <3>1. p = 1
      BY <2>1, PowerZero DEF p
    <3>. QED BY <3>1
  <2>. QED BY <1>3, <1>6, <1>7, <1>8, <2>2 DEF IsNumeralOf
<1>. QED BY <1>6, <1>9, <1>10 DEF more, d, p

-----------------------------------------------------------------------------
(* The operand that is being printed.                                      *)

LEMMA OperandFacts ==
  ASSUME NumberTypes, operands # <<>>
  PROVE  /\ width \in Widths /\ Operand \in Nat /\ Operand < Power(2, width)
         /\ OperandNegative \in BOOLEAN
         /\ OperandNegative => Operand > 0
         /\ Magnitude \in Nat /\ Magnitude <= Power(2, width)
         /\ Meant = IF OperandNegative THEN -Magnitude ELSE Magnitude
<1>. DEFINE u == Operand
            full == Power(2, width)
            half == Power(2, width - 1)
<1>1. width \in Widths /\ signed \in BOOLEAN
  BY DEF NumberTypes
<1>2. u \in Nat /\ u < full
  <2>1. 1 \in DOMAIN operands /\ Operand = operands[1]
    BY DEF NumberTypes, Operand
  <2>. QED BY <2>1 DEF NumberTypes
<1>3. full = 2 * half /\ full \in Nat /\ half \in Nat \ {0}
  BY <1>1, Patterns
<1>4. SignedValue(width, u) = IF u >= half THEN u - full ELSE u
  BY DEF SignedValue
<1>. HIDE DEF u, full, half
<1>5. OperandNegative <=> signed /\ u >= half
  <2>1. OperandNegative <=> signed /\ SignedValue(width, u) < 0
    BY DEF OperandNegative, u
  <2>2. (SignedValue(width, u) < 0) <=> u >= half
    BY <1>2, <1>3, <1>4
  <2>. QED BY <2>1, <2>2
<1>6. Magnitude = IF OperandNegative THEN full - u ELSE u
  BY DEF Magnitude, full, u
<1>7. Meant = IF signed THEN SignedValue(width, u) ELSE u
  BY DEF Meant, u
<1>8. OperandNegative \in BOOLEAN
  BY DEF OperandNegative
<1>9. OperandNegative => u > 0
  BY <1>2, <1>3, <1>5
<1>10. Magnitude \in Nat /\ Magnitude <= full
  <2>1. CASE OperandNegative
    BY <1>2, <1>3, <1>6, <2>1
  <2>2. CASE ~OperandNegative
    BY <1>2, <1>3, <1>6, <2>2
  <2>. QED BY <2>1, <2>2
<1>11. Meant = IF OperandNegative THEN -Magnitude ELSE Magnitude
  <2>1. CASE signed /\ u >= half
    <3>1. OperandNegative
      BY <1>5, <2>1
    <3>2. Magnitude = full - u /\ Meant = u - full
      BY <1>4, <1>6, <1>7, <2>1, <3>1
    <3>. QED BY <1>2, <1>3, <3>1, <3>2
  <2>2. CASE signed /\ ~(u >= half)
    BY <1>2, <1>3, <1>4, <1>5, <1>6, <1>7, <2>2
  <2>3. CASE ~signed
    BY <1>5, <1>6, <1>7, <2>3
  <2>. QED BY <2>1, <2>2, <2>3
<1>. QED BY <1>1, <1>2, <1>8, <1>9, <1>10, <1>11 DEF u, full

(* The operand stays while it is printed. *)
LEMMA SameOperand ==
  ASSUME UNCHANGED <<operands, width, signed, is_pointer>>
  PROVE  /\ Operand' = Operand /\ OperandNegative' = OperandNegative
         /\ Magnitude' = Magnitude /\ NullPointer' = NullPointer
  BY DEF Operand, OperandNegative, Magnitude, NullPointer

(* The largest value of a width has no more digits than its array, and the *)
(* array is not empty.                                                     *)
LEMMA ArrayHolds ==
  ASSUME NEW w \in Widths, NEW v \in Int, Size(v) < Power(2, w)
  PROVE  MaxDigits[w] \in Nat /\ HasRoom(v, <<>>, MaxDigits[w])
<1>. DEFINE size == MaxDigits[w]
<1>1. size \in Nat /\ Power(2, w) <= Power(10, size)
  BY DigitsAssumption
<1>. HIDE DEF size
<1>2. Power(10, size) \in Nat
  BY <1>1, PowerTyped
<1>3. Power(10, 0) = 1 /\ Len(<<>>) = 0
  BY PowerZero
<1>4. Power(2, w) \in Nat /\ Power(2, w) >= 2
  BY Patterns
<1>5. Size(v) \in Nat
  BY DEF Size
<1>6. Size(v) * Power(10, Len(<<>>)) < Power(10, size)
  BY <1>1, <1>2, <1>3, <1>4, <1>5
<1>7. size > 0
  <2>1. Power(10, 0) < Power(10, size)
    BY <1>1, <1>2, <1>3, <1>4
  <2>. QED BY <1>1, <2>1, PowerBelow
<1>8. HasRoom(v, <<>>, size)
  BY <1>1, <1>3, <1>6, <1>7 DEF HasRoom
<1>. QED BY <1>1, <1>8 DEF size

(* At the start, all of the magnitude is left. *)
LEMMA SplitStarts ==
  ASSUME NEW m \in Nat
  PROVE  DecimalSplit(m, <<>>, m)
<1>1. Power(10, Len(<<>>)) = 1 /\ Numeral(<<>>, 10) = 0
  BY PowerZero, NumeralEmpty
<1>2. AreDigits(<<>>, 10)
  BY DEF AreDigits
<1>. QED BY <1>1, <1>2 DEF DecimalSplit

-----------------------------------------------------------------------------
(* The steps.                                                              *)

(* Nothing is claimed between two operands. *)
LEMMA BetweenOperands ==
  ASSUME NumberTypes', (step \in {"idle", "begin"})'
  PROVE  NumberInv'
  BY DEF NumberInv, Flags, DecimalDigits, HexDigits, Shown

LEMMA InitNumber == Init => NumberInv
<1>. SUFFICES ASSUME Init PROVE NumberInv
  OBVIOUS
<1>1. NumberTypes
  <2>1. <<>> \in Seq(Nat) /\ <<>> \in Seq(Int) /\ DOMAIN <<>> = {}
    OBVIOUS
  <2>2. \A i \in DOMAIN operands : operands[i] < Power(2, width)
    BY <2>1 DEF Init
  <2>3. /\ signed \in BOOLEAN /\ is_pointer \in BOOLEAN
        /\ negative \in BOOLEAN /\ prefixed \in BOOLEAN
    BY DEF Init
  <2>4. width \in Widths
    BY WidthsAssumption DEF Init
  <2>5. /\ state = "dec" /\ step = "idle" /\ operands = <<>> /\ digits = <<>>
        /\ value = 0 /\ room = 0
    BY DEF Init
  <2>. QED BY <2>1, <2>2, <2>3, <2>4, <2>5 DEF NumberTypes
<1>2. step = "idle"
  BY DEF Init
<1>. QED BY <1>1, <1>2 DEF NumberInv, Flags, DecimalDigits, HexDigits, Shown

LEMMA BaseKeeps ==
  ASSUME NumberInv, NEW base \in {"dec", "hex"}, SetBase(base)
  PROVE  NumberInv'
<1>1. step = "idle"
  BY DEF NumberInv, NumberTypes, SetBase, Printing
<1>2. NumberTypes'
  BY DEF NumberInv, NumberTypes, SetBase
<1>3. step' = "idle"
  BY <1>1 DEF SetBase
<1>. QED BY <1>2, <1>3, BetweenOperands

(* Operands of a width: at least one, and each of them fits. *)
AreOperands(seq, w) ==
  seq \in Seq(Nat) /\ seq # <<>> /\ \A i \in DOMAIN seq : seq[i] < Power(2, w)

LEMMA InsertKeeps ==
  ASSUME NumberInv, NEW seq, NEW w \in Widths, AreOperands(seq, w),
         NEW is_signed \in BOOLEAN, NEW pointer \in BOOLEAN,
         Insert(seq, w, is_signed, pointer)
  PROVE  NumberInv'
<1>1. /\ operands' = seq /\ width' = w /\ signed' = is_signed
      /\ is_pointer' = pointer /\ step' = "begin"
      /\ UNCHANGED <<state, value, shift, room, negative, prefixed, digits>>
  BY DEF Insert
<1>2. NumberTypes'
  BY <1>1 DEF NumberInv, NumberTypes, AreOperands
<1>. QED BY <1>1, <1>2, BetweenOperands

LEMMA SampleIsOperand ==
  ASSUME NEW w \in Widths, NEW u \in Samples[w]
  PROVE  AreOperands(<<u>>, w)
<1>1. u \in Nat /\ u < Power(2, w)
  <2>1. Samples[w] \subseteq 0 .. Power(2, w) - 1 /\ Power(2, w) \in Nat
    BY WidthsAssumption, Patterns
  <2>. QED BY <2>1
<1>2. <<u>> \in Seq(Nat) /\ <<u>> # <<>> /\ DOMAIN <<u>> = {1} /\ <<u>>[1] = u
  BY <1>1
<1>. QED BY <1>1, <1>2 DEF AreOperands

LEMMA InsertionsKeep ==
  NumberInv /\ (InsertValue \/ InsertArray \/ InsertPointer) => NumberInv'
<1>1. ASSUME NumberInv, InsertValue PROVE NumberInv'
  <2>1. PICK w \in Widths, is_signed \in BOOLEAN : \E u \in Samples[w] :
          Insert(<<u>>, w, is_signed, FALSE)
    BY <1>1 DEF InsertValue
  <2>2. PICK u \in Samples[w] : Insert(<<u>>, w, is_signed, FALSE)
    BY <2>1
  <2>3. AreOperands(<<u>>, w) /\ FALSE \in BOOLEAN
    BY SampleIsOperand
  <2>. QED BY <1>1, <2>2, <2>3, InsertKeeps
<1>2. ASSUME NumberInv, InsertPointer PROVE NumberInv'
  <2>1. PICK u \in Samples[IntBits] : Insert(<<u>>, IntBits, FALSE, TRUE)
    BY <1>2 DEF InsertPointer
  <2>2. IntBits \in Widths
    BY WidthsAssumption
  <2>3. AreOperands(<<u>>, IntBits) /\ FALSE \in BOOLEAN /\ TRUE \in BOOLEAN
    BY <2>2, SampleIsOperand
  <2>. QED BY <1>2, <2>1, <2>2, <2>3, InsertKeeps
<1>3. ASSUME NumberInv, InsertArray PROVE NumberInv'
  <2>1. PICK w \in Widths, is_signed \in BOOLEAN, a \in Arrays :
          Insert([i \in DOMAIN a |-> a[i] % Power(2, w)], w, is_signed, FALSE)
    BY <1>3 DEF InsertArray
  <2>. DEFINE n == Power(2, w)
              seq == [i \in DOMAIN a |-> a[i] % n]
  <2>2. n \in Nat \ {0} /\ a \in Seq(Nat) /\ a # <<>>
    BY Patterns, ArraysAssumption
  <2>. HIDE DEF n
  <2>3. \A i \in DOMAIN a : a[i] \in Nat /\ a[i] % n \in Nat /\ a[i] % n < n
    BY <2>2
  <2>4. seq \in Seq(Nat) /\ DOMAIN seq = DOMAIN a
    <3>1. DOMAIN a = 1 .. Len(a) /\ Len(a) \in Nat
      BY <2>2
    <3>2. seq \in [1 .. Len(a) -> Nat]
      BY <2>3, <3>1
    <3>. HIDE DEF seq
    <3>3. seq \in Seq(Nat)
      BY <3>1, <3>2, SeqDef
    <3>. QED BY <3>1, <3>2, <3>3
  <2>5. seq # <<>>
    <3>. HIDE DEF seq
    <3>1. DOMAIN a # {}
      <4>1. Len(a) \in Nat /\ Len(a) # 0 /\ DOMAIN a = 1 .. Len(a)
        BY <2>2, EmptySeq
      <4>2. 1 \in DOMAIN a
        BY <4>1
      <4>. QED BY <4>2
    <3>. QED BY <2>4, <3>1
  <2>6. AreOperands(seq, w)
    <3>1. \A i \in DOMAIN seq : seq[i] < n
      BY <2>3
    <3>. HIDE DEF seq
    <3>. QED BY <2>4, <2>5, <3>1 DEF AreOperands, n
  <2>7. Insert(seq, w, is_signed, FALSE) /\ FALSE \in BOOLEAN
    BY <2>1 DEF n
  <2>. HIDE DEF seq
  <2>. QED BY <1>3, <2>6, <2>7, InsertKeeps
<1>. QED BY <1>1, <1>2, <1>3

(* The negation of the source is the magnitude, but for the sign that the  *)
(* promotion to int leaves.                                                *)
LEMMA NegatedFacts ==
  ASSUME NEW w \in Widths, NEW u \in Nat, u > 0, u < Power(2, w)
  PROVE  /\ NegatedForHex(w, u) = Power(2, w) - u
         /\ Negated(w, u) = IF w < IntBits THEN -u ELSE Power(2, w) - u
<1>1. Power(2, w) \in Nat
  BY Patterns
<1>2. ASSUME NEW p \in Nat, u < p PROVE (p - u) % p = p - u
  BY <1>2
<1>3. (Power(2, w) - u) % Power(2, w) = Power(2, w) - u
  BY <1>1, <1>2
<1>. QED BY <1>3 DEF NegatedForHex, Negated

LEMMA BeginDecimalKeeps == NumberInv /\ BeginDecimal => NumberInv'
<1>. SUFFICES ASSUME NumberInv, BeginDecimal PROVE NumberInv'
  OBVIOUS
<1>1. /\ NumberTypes /\ operands # <<>> /\ state = "dec" /\ ~is_pointer
      /\ negative' = OperandNegative /\ prefixed' = FALSE /\ digits' = <<>>
      /\ step' = "digit"
      /\ UNCHANGED <<state, operands, width, signed, is_pointer, shift>>
  BY DEF NumberInv, BeginDecimal, Printing
<1>2. /\ Operand' = Operand /\ OperandNegative' = OperandNegative
      /\ Magnitude' = Magnitude
  BY <1>1, SameOperand
<1>3. /\ width \in Widths /\ Operand \in Nat /\ Operand < Power(2, width)
      /\ OperandNegative \in BOOLEAN
      /\ OperandNegative => Operand > 0
      /\ Magnitude \in Nat
  BY <1>1, OperandFacts
<1>4. width \in Nat /\ IntBits \in Widths /\ IntBits \in Nat
  BY <1>3, WidthsAssumption
<1>. DEFINE narrow == OperandNegative /\ width < IntBits
<1>5. Promoted' = narrow
  BY <1>1 DEF Promoted
<1>6. /\ value' \in Int /\ room' \in Nat /\ HasRoom(value', <<>>, room')
      /\ ~narrow => value' = Magnitude
  <2>1. CASE narrow
    <3>1. value' = -Operand /\ room' = MaxDigits[IntBits]
      BY <1>3, <2>1, NegatedFacts DEF BeginDecimal
    <3>2. Size(-Operand) = Operand
      BY <1>3 DEF Size
    <3>3. Power(2, width) <= Power(2, IntBits)
      BY <1>4, <2>1, PowerMonotone
    <3>4. Power(2, width) \in Nat /\ Power(2, IntBits) \in Nat
      BY <1>3, <1>4, Patterns
    <3>5. Size(-Operand) < Power(2, IntBits) /\ -Operand \in Int
      BY <1>3, <3>2, <3>3, <3>4
    <3>6. MaxDigits[IntBits] \in Nat /\ HasRoom(-Operand, <<>>, MaxDigits[IntBits])
      BY <1>4, <3>5, ArrayHolds
    <3>. QED BY <2>1, <3>1, <3>5, <3>6
  <2>2. CASE ~narrow
    <3>1. value' = Magnitude
      <4>1. CASE OperandNegative
        <5>1. value' = Negated(width, Operand) /\ ~(width < IntBits)
          BY <2>2, <4>1 DEF BeginDecimal
        <5>. QED BY <1>3, <4>1, <5>1, NegatedFacts DEF Magnitude
      <4>2. CASE ~OperandNegative
        BY <4>2 DEF BeginDecimal, Magnitude
      <4>. QED BY <4>1, <4>2
    <3>2. room' = MaxDigits[width]
      BY <2>2 DEF BeginDecimal
    <3>3. Size(Magnitude) < Power(2, width)
      <4>1. Power(2, width) \in Nat
        BY <1>3, Patterns
      <4>2. Magnitude < Power(2, width)
        BY <1>3, <4>1 DEF Magnitude
      <4>. QED BY <1>3, <4>2 DEF Size
    <3>4. MaxDigits[width] \in Nat /\ HasRoom(Magnitude, <<>>, MaxDigits[width])
      BY <1>3, <3>3, ArrayHolds
    <3>. QED BY <1>3, <3>1, <3>2, <3>4
  <2>. QED BY <2>1, <2>2
<1>. HIDE DEF narrow
<1>7. NumberTypes'
  <2>1. <<>> \in Seq(Int)
    OBVIOUS
  <2>2. negative' \in BOOLEAN /\ prefixed' \in BOOLEAN /\ digits' \in Seq(Int)
    BY <1>1, <1>3, <2>1
  <2>3. (step = "idle" <=> operands = <<>>)'
    BY <1>1
  <2>. QED BY <1>1, <1>6, <2>2, <2>3 DEF NumberTypes
<1>8. Flags'
  BY <1>1, <1>2 DEF Flags
<1>9. DecimalDigits'
  BY <1>1, <1>2, <1>3, <1>5, <1>6, SplitStarts DEF DecimalDigits
<1>. QED BY <1>1, <1>7, <1>8, <1>9 DEF NumberInv, HexDigits, Shown

LEMMA DigitKeeps == NumberInv /\ Digit => NumberInv'
<1>. SUFFICES ASSUME NumberInv, Digit PROVE NumberInv'
  OBVIOUS
<1>. DEFINE rest == Quotient(value, 10)
            d == value - rest * 10
            more == <<d>> \o digits
<1>1. /\ step = "digit" /\ digits' = more /\ value' = rest
      /\ step' = IF rest = 0 THEN "written" ELSE "digit"
      /\ UNCHANGED <<state, operands, width, signed, is_pointer, shift, room,
                     negative, prefixed>>
  BY DEF Digit
<1>2. /\ NumberTypes /\ Flags /\ operands # <<>>
      /\ value \in Int /\ room \in Nat /\ digits \in Seq(Int)
  BY <1>1 DEF NumberInv, NumberTypes
<1>3. /\ HasRoom(value, digits, room) /\ ~prefixed
      /\ ~Promoted => DecimalSplit(value, digits, Magnitude)
  BY <1>1 DEF NumberInv, DecimalDigits, Flags
<1>4. rest \in Int /\ d \in Int /\ more \in Seq(Int)
  <2>1. rest \in Int
    BY <1>2, Dividing
  <2>2. d \in Int
    BY <1>2, <2>1
  <2>. HIDE DEF d
  <2>. QED BY <1>2, <2>1, <2>2, Prepended
<1>5. Magnitude \in Nat
  BY <1>2, OperandFacts
<1>6. Len(more) <= room /\ (rest # 0 => HasRoom(rest, more, room))
  <2>. HIDE DEF d
  <2>. QED BY <1>2, <1>3, <1>4, RoomShrinks
<1>7. ASSUME ~Promoted
      PROVE  /\ DecimalSplit(rest, more, Magnitude)
             /\ rest = 0 => IsNumeralOf(more, 10, Magnitude)
  <2>1. value \in Nat /\ (digits # <<>> => value # 0) /\ Magnitude \in Int
    BY <1>3, <1>5, <1>7 DEF DecimalSplit, HasRoom
  <2>2. DecimalSplit(value, digits, Magnitude)
    BY <1>3, <1>7
  <2>. QED BY <1>2, <2>1, <2>2, SplitMoves, LastDigit
<1>. HIDE DEF rest, d, more
<1>8. /\ OperandNegative' = OperandNegative /\ Magnitude' = Magnitude
      /\ Promoted' = Promoted /\ Radix' = 10
  <2>1. OperandNegative' = OperandNegative /\ Magnitude' = Magnitude
    BY <1>1, SameOperand
  <2>. QED BY <1>1, <1>3, <2>1 DEF Promoted, Radix
<1>9. NumberTypes'
  BY <1>1, <1>2, <1>4 DEF NumberTypes
<1>10. Flags'
  BY <1>1, <1>2, <1>8 DEF Flags
<1>11. DecimalDigits'
  BY <1>1, <1>6, <1>7, <1>8 DEF DecimalDigits
<1>12. Shown'
  BY <1>1, <1>6, <1>7, <1>8 DEF Shown
<1>13. HexDigits'
  BY <1>1 DEF HexDigits
<1>. QED BY <1>9, <1>10, <1>11, <1>12, <1>13 DEF NumberInv

(* The numeral of 0. *)
LEMMA ZeroShown ==
  IsNumeralOf(<<0>>, 16, 0)
<1>. DEFINE zero == <<0>>
<1>1. zero \in Seq(Int) /\ Len(zero) = 1 /\ zero[1] = 0
  OBVIOUS
<1>. HIDE DEF zero
<1>2. PICK f : Numbers(f, zero, 16) /\ Numeral(zero, 16) = f[Len(zero)]
  BY <1>1, NumeralUnfolds
<1>3. Numeral(<<0>>, 16) = 0
  <2>1. f[0] = 0 /\ f[1] = f[1 - 1] * 16 + zero[1]
    BY <1>1, <1>2 DEF Numbers
  <2>. QED BY <1>1, <1>2, <2>1 DEF zero
<1>4. AreDigits(<<0>>, 16)
  BY DEF AreDigits
<1>5. <<0>> # <<>> /\ Len(<<0>>) = 1
  OBVIOUS
<1>. QED BY <1>3, <1>4, <1>5 DEF IsNumeralOf

LEMMA ZeroHexKeeps == NumberInv /\ ZeroHex => NumberInv'
<1>. SUFFICES ASSUME NumberInv, ZeroHex PROVE NumberInv'
  OBVIOUS
<1>1. /\ NumberTypes /\ operands # <<>> /\ state = "hex" /\ Operand = 0
      /\ negative' = FALSE /\ prefixed' = TRUE /\ digits' = <<0>>
      /\ step' = "written"
      /\ UNCHANGED <<state, operands, width, signed, is_pointer, value, shift,
                     room>>
  BY DEF NumberInv, ZeroHex, Printing
<1>2. OperandNegative' = OperandNegative /\ Magnitude' = Magnitude
  BY <1>1, SameOperand
<1>3. OperandNegative \in BOOLEAN /\ ~OperandNegative
  BY <1>1, OperandFacts
<1>4. Magnitude = 0
  BY <1>1, <1>3 DEF Magnitude
<1>5. NumberTypes'
  <2>1. <<0>> \in Seq(Int)
    OBVIOUS
  <2>2. negative' \in BOOLEAN /\ prefixed' \in BOOLEAN /\ digits' \in Seq(Int)
    BY <1>1, <2>1
  <2>3. (step = "idle" <=> operands = <<>>)'
    BY <1>1
  <2>. QED BY <1>1, <2>2, <2>3 DEF NumberTypes
<1>6. Flags'
  <2>1. negative' = OperandNegative'
    BY <1>1, <1>2, <1>3
  <2>2. prefixed' = (is_pointer \/ state = "hex")'
    BY <1>1
  <2>. QED BY <1>1, <2>1, <2>2 DEF Flags
<1>7. Shown'
  <2>1. Radix' = 16
    BY <1>1 DEF Radix
  <2>. QED BY <1>1, <1>2, <1>4, <2>1, ZeroShown DEF Shown
<1>. QED BY <1>1, <1>5, <1>6, <1>7 DEF NumberInv, DecimalDigits, HexDigits

(* Where the leading zeros say, the first nibble is not 0. *)
LEMMA FirstNibble ==
  ASSUME NEW w \in Widths, NEW u \in Nat, NEW zeros \in LeadingZeros(w, u),
         NEW s, s = (Nibbles(w) - 1 - zeros) * 4
  PROVE  /\ s \in Int
         /\ s >= 0 => s \in Nat /\ s % 4 = 0
         /\ u # 0 => s \in Nat /\ HexSplit(u, <<>>, s, u)
<1>1. Nibbles(w) \in Nat
  BY Patterns DEF Nibbles
<1>2. zeros \in 0 .. Nibbles(w)
  BY DEF LeadingZeros
<1>3. s \in Int /\ s = 4 * (Nibbles(w) - zeros - 1)
  BY <1>1, <1>2
<1>4. ASSUME s >= 0 PROVE s \in Nat /\ s % 4 = 0
  <2>. DEFINE k == Nibbles(w) - zeros - 1
  <2>1. k \in Int /\ s = 4 * k
    BY <1>1, <1>2, <1>3
  <2>. HIDE DEF k
  <2>2. k \in Nat
    BY <1>4, <2>1
  <2>. QED BY <2>1, <2>2
<1>5. ASSUME u # 0 PROVE s \in Nat /\ HexSplit(u, <<>>, s, u)
  <2>1. /\ zeros < Nibbles(w)
        /\ u \div Power(2, 4 * (Nibbles(w) - zeros - 1)) \in 1 .. 15
    BY <1>5 DEF LeadingZeros
  <2>2. s \in Nat
    BY <1>1, <1>2, <1>3, <2>1
  <2>3. u \div Power(2, s) \in 1 .. 15
    BY <1>3, <2>1
  <2>4. Power(2, s + 4) = 16 * Power(2, s) /\ Power(2, s) \in Nat \ {0}
    <3>1. 2 \in Nat \ {0}
      OBVIOUS
    <3>. QED BY <2>2, <3>1, PowerNibble, PowerPositive
  <2>5. u \div Power(2, s + 4) = 0
    <3>1. (u \div Power(2, s)) \div 16 = u \div (16 * Power(2, s))
      BY <2>4, NestedQuotient
    <3>2. ASSUME NEW a \in 1 .. 15 PROVE a \div 16 = 0
      OBVIOUS
    <3>. QED BY <2>3, <2>4, <3>1, <3>2
  <2>6. Numeral(<<>>, 16) = 0 /\ AreDigits(<<>>, 16)
    BY NumeralEmpty DEF AreDigits
  <2>. QED BY <2>2, <2>3, <2>5, <2>6 DEF HexSplit
<1>. QED BY <1>3, <1>4, <1>5

LEMMA BeginHexKeeps == NumberInv /\ BeginHex => NumberInv'
<1>. SUFFICES ASSUME NumberInv, BeginHex PROVE NumberInv'
  OBVIOUS
<1>1. /\ NumberTypes /\ operands # <<>>
      /\ is_pointer \/ (state = "hex" /\ Operand # 0)
      /\ negative' = OperandNegative /\ prefixed' = TRUE /\ digits' = <<>>
      /\ value' = IF OperandNegative THEN NegatedForHex(width, Operand) ELSE Operand
      /\ UNCHANGED <<state, operands, width, signed, is_pointer, room>>
  BY DEF NumberInv, BeginHex, Printing
<1>2. PICK zeros \in LeadingZeros(width, value') :
        /\ shift' = (Nibbles(width) - 1 - zeros) * 4
        /\ step' = IF shift' < 0 THEN "written" ELSE "nibble"
  BY DEF BeginHex
<1>3. /\ OperandNegative' = OperandNegative /\ Magnitude' = Magnitude
      /\ NullPointer' = NullPointer
  BY <1>1, SameOperand
<1>4. /\ width \in Widths /\ Operand \in Nat /\ Operand < Power(2, width)
      /\ OperandNegative \in BOOLEAN
      /\ OperandNegative => Operand > 0
      /\ Magnitude \in Nat
  BY <1>1, OperandFacts
<1>5. value' = Magnitude
  BY <1>1, <1>4, NegatedFacts DEF Magnitude
<1>6. ASSUME ~NullPointer PROVE Magnitude # 0
  <2>1. CASE OperandNegative
    <3>1. Magnitude = Power(2, width) - Operand /\ Power(2, width) \in Nat
      BY <1>4, <2>1, Patterns DEF Magnitude
    <3>. QED BY <1>4, <3>1
  <2>2. CASE ~OperandNegative
    <3>1. Operand # 0
      BY <1>1, <1>6 DEF NullPointer
    <3>. QED BY <2>2, <3>1 DEF Magnitude
  <2>. QED BY <2>1, <2>2
<1>7. /\ shift' \in Int
      /\ shift' >= 0 => shift' \in Nat /\ shift' % 4 = 0
      /\ Magnitude # 0 => shift' \in Nat /\ HexSplit(Magnitude, <<>>, shift', Magnitude)
  BY <1>2, <1>4, <1>5, FirstNibble
<1>8. step' \in {"nibble", "written"}
      /\ (step' = "nibble" => shift' >= 0)
      /\ (step' = "written" => shift' < 0)
  BY <1>2, <1>7
<1>9. NumberTypes'
  <2>1. <<>> \in Seq(Int)
    OBVIOUS
  <2>2. negative' \in BOOLEAN /\ prefixed' \in BOOLEAN /\ digits' \in Seq(Int)
    BY <1>1, <1>4, <2>1
  <2>3. (step = "idle" <=> operands = <<>>)'
    BY <1>1, <1>8
  <2>4. value' \in Int
    BY <1>4, <1>5
  <2>. QED BY <1>1, <1>8, <2>2, <2>3, <2>4 DEF NumberTypes
<1>10. Flags'
  <2>1. negative' = OperandNegative'
    BY <1>1, <1>3
  <2>2. prefixed' = (is_pointer \/ state = "hex")'
    BY <1>1
  <2>. QED BY <1>1, <1>8, <2>1, <2>2 DEF Flags
<1>11. HexDigits'
  BY <1>1, <1>3, <1>4, <1>5, <1>6, <1>7, <1>8 DEF HexDigits
<1>12. Shown'
  <2>1. step' = "written" => NullPointer'
    BY <1>3, <1>6, <1>7, <1>8
  <2>. QED BY <1>1, <2>1 DEF Shown
<1>13. DecimalDigits'
  BY <1>8 DEF DecimalDigits
<1>. QED BY <1>9, <1>10, <1>11, <1>12, <1>13 DEF NumberInv

LEMMA NibbleKeeps == NumberInv /\ Nibble => NumberInv'
<1>. SUFFICES ASSUME NumberInv, Nibble PROVE NumberInv'
  OBVIOUS
<1>. DEFINE more == Append(digits, (value \div Power(2, shift)) % 16)
<1>1. /\ step = "nibble" /\ digits' = more /\ shift' = shift - 4
      /\ step' = IF shift < 4 THEN "written" ELSE "nibble"
      /\ UNCHANGED <<state, operands, width, signed, is_pointer, value, room,
                     negative, prefixed>>
  BY DEF Nibble
<1>2. NumberTypes /\ Flags /\ operands # <<>> /\ digits \in Seq(Int)
  BY <1>1 DEF NumberInv, NumberTypes
<1>3. /\ prefixed
      /\ value \in Nat /\ shift \in Nat /\ shift % 4 = 0
      /\ ~NullPointer => HexSplit(value, digits, shift, Magnitude)
  BY <1>1 DEF NumberInv, HexDigits, Flags
<1>4. Magnitude \in Nat
  BY <1>2, OperandFacts
<1>5. more \in Seq(Int)
  <2>1. Power(2, shift) \in Nat \ {0}
    <3>1. 2 \in Nat \ {0}
      OBVIOUS
    <3>. QED BY <1>3, <3>1, PowerPositive
  <2>2. (value \div Power(2, shift)) % 16 \in 0 .. 15
    BY <1>3, <2>1, NestedQuotient
  <2>3. (value \div Power(2, shift)) % 16 \in Int
    BY <2>2
  <2>. QED BY <1>2, <2>3
<1>6. ASSUME ~NullPointer
      PROVE  /\ shift >= 4 => HexSplit(value, more, shift - 4, Magnitude)
             /\ shift < 4 => IsNumeralOf(more, 16, Magnitude)
  <2>1. HexSplit(value, digits, shift, Magnitude)
    BY <1>3, <1>6
  <2>. QED BY <1>2, <1>3, <1>4, <2>1, NibbleShown
<1>. HIDE DEF more
<1>7. /\ OperandNegative' = OperandNegative /\ Magnitude' = Magnitude
      /\ NullPointer' = NullPointer /\ Radix' = 16
  <2>1. /\ OperandNegative' = OperandNegative /\ Magnitude' = Magnitude
        /\ NullPointer' = NullPointer
    BY <1>1, SameOperand
  <2>. QED BY <1>1, <1>3, <2>1 DEF Radix
<1>8. NumberTypes'
  BY <1>1, <1>2, <1>5 DEF NumberTypes
<1>9. Flags'
  BY <1>1, <1>2, <1>3, <1>7 DEF Flags
<1>10. HexDigits'
  <2>1. step' = "nibble" => shift >= 4 /\ shift' \in Nat /\ shift' % 4 = 0
    BY <1>1, <1>3
  <2>. QED BY <1>1, <1>3, <1>6, <1>7, <2>1 DEF HexDigits
<1>11. Shown'
  <2>1. step' = "written" => shift < 4
    BY <1>1, <1>3
  <2>. QED BY <1>1, <1>3, <1>6, <1>7, <2>1 DEF Shown
<1>12. DecimalDigits'
  BY <1>1 DEF DecimalDigits
<1>. QED BY <1>8, <1>9, <1>10, <1>11, <1>12 DEF NumberInv

(* The operands behind the first one. *)
LEMMA WrittenKeeps == NumberInv /\ Written => NumberInv'
<1>. SUFFICES ASSUME NumberInv, Written PROVE NumberInv'
  OBVIOUS
<1>1. /\ step = "written" /\ operands' = Tail(operands)
      /\ step' = IF Len(operands) = 1 THEN "idle" ELSE "begin"
      /\ value' = 0 /\ room' = 0
      /\ negative' = FALSE /\ prefixed' = FALSE /\ digits' = <<>>
      /\ UNCHANGED <<state, width, signed, is_pointer>>
  BY DEF Written
<1>2. /\ NumberTypes /\ operands \in Seq(Nat) /\ operands # <<>>
      /\ \A i \in DOMAIN operands : operands[i] < Power(2, width)
  BY <1>1 DEF NumberInv, NumberTypes
<1>3. /\ Tail(operands) \in Seq(Nat)
      /\ Len(Tail(operands)) = Len(operands) - 1 /\ Len(operands) \in Nat
      /\ \A i \in DOMAIN Tail(operands) :
           i + 1 \in DOMAIN operands /\ Tail(operands)[i] = operands[i + 1]
  BY <1>2
<1>4. Tail(operands) = <<>> <=> Len(operands) = 1
  <2>. DEFINE rest == Tail(operands)
  <2>1. rest \in Seq(Nat) /\ Len(rest) = Len(operands) - 1
    BY <1>3
  <2>. HIDE DEF rest
  <2>2. rest # <<>> => Len(rest) # 0
    BY <2>1, EmptySeq
  <2>3. rest = <<>> => Len(rest) = 0
    OBVIOUS
  <2>4. rest = <<>> <=> Len(operands) - 1 = 0
    BY <2>1, <2>2, <2>3
  <2>5. Len(operands) - 1 = 0 <=> Len(operands) = 1
    BY <1>3
  <2>. QED BY <2>4, <2>5 DEF rest
<1>5. NumberTypes'
  <2>1. <<>> \in Seq(Int)
    OBVIOUS
  <2>2. \A i \in DOMAIN operands' : operands'[i] < Power(2, width)
    BY <1>1, <1>2, <1>3
  <2>3. (step = "idle" <=> operands = <<>>)'
    BY <1>1, <1>4
  <2>4. negative' \in BOOLEAN /\ prefixed' \in BOOLEAN
    BY <1>1
  <2>5. operands' \in Seq(Nat) /\ value' \in Int /\ room' \in Nat /\ digits' \in Seq(Int)
    BY <1>1, <1>3, <2>1
  <2>6. step' \in {"idle", "begin"}
    BY <1>1
  <2>. QED BY <1>1, <1>2, <2>2, <2>3, <2>4, <2>5, <2>6 DEF NumberTypes
<1>6. step' \in {"idle", "begin"}
  BY <1>1
<1>. QED BY <1>5, <1>6, BetweenOperands

LEMMA IdleKeeps == NumberInv /\ UNCHANGED vars => NumberInv'
<1>. SUFFICES ASSUME NumberInv, UNCHANGED vars PROVE NumberInv'
  OBVIOUS
<1>1. UNCHANGED <<state, operands, width, signed, is_pointer, step, value, shift,
                  room, negative, prefixed, digits>>
  BY DEF vars
<1>2. /\ Operand' = Operand /\ OperandNegative' = OperandNegative
      /\ Magnitude' = Magnitude /\ NullPointer' = NullPointer
      /\ Promoted' = Promoted /\ Radix' = Radix
  <2>1. /\ Operand' = Operand /\ OperandNegative' = OperandNegative
        /\ Magnitude' = Magnitude /\ NullPointer' = NullPointer
    BY <1>1, SameOperand
  <2>. QED BY <1>1, <2>1 DEF Promoted, Radix
<1>3. NumberTypes'
  BY <1>1 DEF NumberInv, NumberTypes
<1>4. Flags'
  BY <1>1, <1>2 DEF NumberInv, Flags
<1>5. DecimalDigits' /\ HexDigits' /\ Shown'
  BY <1>1, <1>2 DEF NumberInv, DecimalDigits, HexDigits, Shown
<1>. QED BY <1>3, <1>4, <1>5 DEF NumberInv

LEMMA NextKeepsNumberInv == NumberInv /\ [Next]_vars => NumberInv'
<1>1. ASSUME NumberInv, Dec \/ Hex PROVE NumberInv'
  <2>1. "dec" \in {"dec", "hex"} /\ "hex" \in {"dec", "hex"}
    OBVIOUS
  <2>. QED BY <1>1, <2>1, BaseKeeps DEF Dec, Hex
<1>. QED BY <1>1, InsertionsKeep, BeginDecimalKeeps, DigitKeeps, ZeroHexKeeps,
            BeginHexKeeps, NibbleKeeps, WrittenKeeps, IdleKeeps DEF Next

LEMMA NumberInvAlways == Spec => []NumberInv
  BY InitNumber, NextKeepsNumberInv, PTL DEF Spec

-----------------------------------------------------------------------------
(* What a reader sees. *)

LEMMA InvPrints == NumberInv => PrintsValue
<1>. SUFFICES ASSUME NumberInv PROVE PrintsValue
  OBVIOUS
<1>1. DigitsFit
  BY DEF NumberInv, DecimalDigits, Shown, HasRoom, DigitsFit
<1>2. ASSUME step = "written" PROVE prefixed = (is_pointer \/ state = "hex")
  BY <1>2 DEF NumberInv, Flags
<1>3. ASSUME step = "written", ~Promoted, ~NullPointer PROVE ShowsOperand
  <2>1. IsNumeralOf(digits, Radix, Magnitude)
    BY <1>3 DEF NumberInv, Shown
  <2>2. operands # <<>> /\ NumberTypes
    BY <1>3 DEF NumberInv, NumberTypes
  <2>3. Meant = IF OperandNegative THEN -Magnitude ELSE Magnitude
    BY <2>2, OperandFacts
  <2>4. negative = OperandNegative
    BY <1>3 DEF NumberInv, Flags
  <2>5. ReadBack = Meant
    BY <2>1, <2>3, <2>4 DEF ReadBack, IsNumeralOf
  <2>6. IsNumeral
    BY <2>1 DEF IsNumeralOf, IsNumeral, AreDigits
  <2>. QED BY <2>5, <2>6 DEF ShowsOperand
<1>. QED BY <1>1, <1>2, <1>3 DEF PrintsValue, Promoted, NullPointer

(* Every integer is printed as the shortest numeral of its value in the    *)
(* base that was set, in an array of any length, for every width: the      *)
(* smallest value of a signed type, whose magnitude is its own bit         *)
(* pattern, included; and the digits of every value fit the array on the   *)
(* stack, those of a narrow negative value too, which is printed as int.   *)
THEOREM ValueAlwaysPrinted == Spec => []PrintsValue
  BY NumberInvAlways, InvPrints, PTL
=============================================================================
