------------------------- MODULE CommandLineProofs -------------------------
(***************************************************************************)
(* Proofs about CommandLine, for any words, any formats and any            *)
(* transactions: the options mean what they mean from left to right, the   *)
(* map of unspent outputs is kept if a format needs it, and the days that  *)
(* are printed are right, for words of any width.                          *)
(***************************************************************************)
EXTENDS CommandLine, NaturalLemmas

-----------------------------------------------------------------------------
(***************************************************************************)
(* The arithmetic of calculations.c.                                       *)
(***************************************************************************)

LEMMA Divided ==
    ASSUME NEW n \in Nat, NEW d \in Nat \ {0}
    PROVE  n \div d \in Nat /\ n % d \in 0..d - 1 /\ n = d * (n \div d) + (n % d)
  OBVIOUS

LEMMA TimesIsMonotone ==
    ASSUME NEW a \in Nat, NEW b \in Nat, NEW c \in Nat, a <= b
    PROVE  a * c <= b * c /\ a * c \in Nat /\ b * c \in Nat
  OBVIOUS

LEMMA Distributes ==
    ASSUME NEW a \in Nat, NEW b \in Nat, NEW c \in Nat
    PROVE  (a + b) * c = a * c + b * c /\ a * c \in Nat /\ b * c \in Nat
  OBVIOUS

\* A product that is less than a multiple of d is of less than that many.
LEMMA LessOf ==
    ASSUME NEW a \in Nat, NEW b \in Nat, NEW d \in Nat \ {0}, a * d < b * d
    PROVE  a < b
  <1> SUFFICES ASSUME b <= a PROVE FALSE
    OBVIOUS
  <1>1. b * d <= a * d /\ a * d \in Nat /\ b * d \in Nat
    BY TimesIsMonotone
  <1> QED
    BY <1>1

LEMMA WordIs ==
    /\ Half \in Nat \ {0} /\ Word \in Nat \ {0} /\ Word = Half * Half
    /\ Half <= Word /\ Word % 2 = 0 /\ Day \in Nat \ {0} /\ DayShift \in Nat \ {0}
  <1>1. Half \in Nat \ {0} /\ Half % 2 = 0 /\ Day \in Nat \ {0} /\ DayShift \in Nat \ {0}
    BY CalculationsAssumption
  <1>2. PICK k \in Nat : Half = 2 * k
    BY <1>1, Divided
  <1>3. Word = 2 * (k * Half) /\ k * Half \in Nat
    BY <1>1, <1>2 DEF Word
  <1>4. 1 * Half <= Half * Half
    BY <1>1, TimesIsMonotone
  <1> QED
    BY <1>1, <1>3, <1>4 DEF Word

\* What the two words of a sum stand for.
SumOf(s) == s.over * Word + s.base
TwoWords == [over : 0..Word - 1, base : 0..Word - 1]

\* Long multiplication with the base Half.
LEMMA ProductOfHalves ==
    ASSUME NEW h \in Nat, NEW lh \in Nat, NEW ll \in Nat, NEW rh \in Nat, NEW rl \in Nat
    PROVE  (h * lh + ll) * (h * rh + rl) =
              (lh * rh) * (h * h) + (lh * rl) * h + (ll * rh) * h + ll * rl
  OBVIOUS

\* mul_and_add carries: the sum is exact as long as it fits into two words.
LEMMA MulAndAddIs ==
    ASSUME NEW s \in TwoWords, NEW l \in 0..Word - 1, NEW r \in 0..Word - 1,
           SumOf(s) + l * r < Word * Word
    PROVE  /\ MulAndAdd(s, l, r) \in TwoWords
           /\ SumOf(MulAndAdd(s, l, r)) = SumOf(s) + l * r
  <1> DEFINE H == Half
             lh == l \div H
             ll == l % H
             rh == r \div H
             rl == r % H
             bh == s.base \div H
             bl == s.base % H
             c == bl + ll * rl
             b1 == bh + c \div H
             b2 == (b1 % H) + lh * rl
             b3 == (b2 % H) + ll * rh
             a == s.over + b1 \div H + b2 \div H + b3 \div H + lh * rh
             n == [over |-> a % Word, base |-> ((b3 % H) * H) + (c % H)]
  <1>1. MulAndAdd(s, l, r) = n
    BY DEF MulAndAdd
  <1>2. H \in Nat \ {0} /\ Word = H * H /\ Word \in Nat \ {0}
    BY WordIs
  <1>3. s.over \in Nat /\ s.base \in Nat /\ l \in Nat /\ r \in Nat
    BY <1>2 DEF TwoWords
  <1>4. /\ lh \in Nat /\ ll \in Nat /\ l = H * lh + ll
        /\ rh \in Nat /\ rl \in Nat /\ r = H * rh + rl
        /\ bh \in Nat /\ bl \in Nat /\ s.base = H * bh + bl
    <2> HIDE DEF H
    <2>1. lh \in Nat /\ ll \in Nat /\ l = H * lh + ll
      <3>1. PICK x \in Nat, h \in Nat \ {0} : x = l /\ h = H
        BY <1>2, <1>3
      <3>2. x \div h \in Nat /\ x % h \in 0..h - 1 /\ x = h * (x \div h) + (x % h)
        BY Divided
      <3> QED
        BY <3>1, <3>2
    <2>2. rh \in Nat /\ rl \in Nat /\ r = H * rh + rl
      <3>1. PICK x \in Nat, h \in Nat \ {0} : x = r /\ h = H
        BY <1>2, <1>3
      <3>2. x \div h \in Nat /\ x % h \in 0..h - 1 /\ x = h * (x \div h) + (x % h)
        BY Divided
      <3> QED
        BY <3>1, <3>2
    <2>3. bh \in Nat /\ bl \in Nat /\ s.base = H * bh + bl
      <3>1. PICK x \in Nat, h \in Nat \ {0} : x = s.base /\ h = H
        BY <1>2, <1>3
      <3>2. x \div h \in Nat /\ x % h \in 0..h - 1 /\ x = h * (x \div h) + (x % h)
        BY Divided
      <3> QED
        BY <3>1, <3>2
    <2> QED
      BY <2>1, <2>2, <2>3
  <1>5. lh * rl \in Nat /\ ll * rh \in Nat /\ lh * rh \in Nat /\ ll * rl \in Nat
    BY <1>4
  <1>6. c \in Nat /\ c \div H \in Nat /\ c % H \in 0..H - 1 /\ c = H * (c \div H) + (c % H)
    <2>1. c \in Nat
      BY <1>4, <1>5
    <2> HIDE DEF c, H
    <2> QED
      BY <2>1, <1>2, Divided
  <1>7. b1 \in Nat /\ b1 \div H \in Nat /\ b1 % H \in 0..H - 1 /\ b1 = H * (b1 \div H) + (b1 % H)
    <2>1. b1 \in Nat
      BY <1>4, <1>6
    <2> HIDE DEF b1, H
    <2> QED
      BY <2>1, <1>2, Divided
  <1>8. b2 \in Nat /\ b2 \div H \in Nat /\ b2 % H \in 0..H - 1 /\ b2 = H * (b2 \div H) + (b2 % H)
    <2>1. b2 \in Nat
      BY <1>5, <1>7
    <2> HIDE DEF b2, H
    <2> QED
      BY <2>1, <1>2, Divided
  <1>9. b3 \in Nat /\ b3 \div H \in Nat /\ b3 % H \in 0..H - 1 /\ b3 = H * (b3 \div H) + (b3 % H)
    <2>1. b3 \in Nat
      BY <1>5, <1>8
    <2> HIDE DEF b3, H
    <2> QED
      BY <2>1, <1>2, Divided
  <1>10. PICK x1 \in Nat, x2 \in Nat, x3 \in Nat, x4 \in Nat :
            x1 = ll * rl /\ x2 = lh * rl /\ x3 = ll * rh /\ x4 = lh * rh
    BY <1>5
  <1>11. PICK q \in Nat, q1 \in Nat, q2 \in Nat, q3 \in Nat :
            q = c \div H /\ q1 = b1 \div H /\ q2 = b2 \div H /\ q3 = b3 \div H
    BY <1>6, <1>7, <1>8, <1>9
  <1>12. PICK m \in Nat, m1 \in Nat, m2 \in Nat, m3 \in Nat :
            /\ m = c % H /\ m1 = b1 % H /\ m2 = b2 % H /\ m3 = b3 % H
            /\ m < H /\ m3 < H
    <2> HIDE DEF c, b1, b2, b3, H
    <2> QED
      BY <1>2, <1>6, <1>7, <1>8, <1>9
  <1>13. /\ bl + x1 = H * q + m /\ bh + q = H * q1 + m1
         /\ m1 + x2 = H * q2 + m2 /\ m2 + x3 = H * q3 + m3
    <2>1. c = bl + x1 /\ b1 = bh + q /\ b2 = m1 + x2 /\ b3 = m2 + x3
      BY <1>10, <1>11, <1>12
    <2> HIDE DEF c, b1, b2, b3, bl, bh, H
    <2>2. c = H * q + m
      BY <1>6, <1>11, <1>12
    <2>3. b1 = H * q1 + m1
      BY <1>7, <1>11, <1>12
    <2>4. b2 = H * q2 + m2
      BY <1>8, <1>11, <1>12
    <2>5. b3 = H * q3 + m3
      BY <1>9, <1>11, <1>12
    <2> QED
      BY <2>1, <2>2, <2>3, <2>4, <2>5
  <1>14. a = s.over + q1 + q2 + q3 + x4 /\ n = [over |-> a % Word, base |-> m3 * H + m]
    BY <1>10, <1>11, <1>12
  <1>15. l * r = x4 * (H * H) + x2 * H + x3 * H + x1
    <2> HIDE DEF lh, ll, rh, rl, H
    <2> QED
      BY <1>2, <1>4, <1>10, ProductOfHalves
  <1>16. SumOf(s) = s.over * (H * H) + H * bh + bl
    <2>1. SumOf(s) = s.over * (H * H) + s.base
      BY <1>2 DEF SumOf
    <2> HIDE DEF bh, bl, H
    <2>2. H * bh \in Nat /\ s.over * (H * H) \in Nat
      BY <1>2, <1>3, <1>4
    <2> QED
      BY <1>4, <2>1, <2>2
  <1> HIDE DEF H, lh, ll, rh, rl, bh, bl, c, b1, b2, b3, n
  <1>17. bh * H + q * H = q1 * (H * H) + m1 * H
    BY <1>2, <1>4, <1>13
  <1>18. m1 * H + x2 * H = q2 * (H * H) + m2 * H
    BY <1>2, <1>13
  <1>19. m2 * H + x3 * H = q3 * (H * H) + m3 * H
    BY <1>2, <1>13
  <1>20. a \in Nat /\ a * (H * H) =
            s.over * (H * H) + q1 * (H * H) + q2 * (H * H) + q3 * (H * H) + x4 * (H * H)
    BY <1>2, <1>3, <1>14
  <1> HIDE DEF a
  <1>21. a * (H * H) + (m3 * H + m) = SumOf(s) + l * r
    <2>1. H * bh = bh * H /\ H * q = q * H
      BY <1>2, <1>4
    <2>2. /\ bh * H \in Nat /\ q * H \in Nat /\ m1 * H \in Nat /\ m2 * H \in Nat /\ m3 * H \in Nat
          /\ x2 * H \in Nat /\ x3 * H \in Nat
      BY <1>2, <1>4
    <2>3. /\ s.over * (H * H) \in Nat /\ q1 * (H * H) \in Nat /\ q2 * (H * H) \in Nat
          /\ q3 * (H * H) \in Nat /\ x4 * (H * H) \in Nat
      BY <1>2, <1>3
    <2> QED
      BY <1>4, <1>13, <1>15, <1>16, <1>17, <1>18, <1>19, <1>20, <2>1, <2>2, <2>3
  <1>22. m3 * H + m \in 0..Word - 1
    <2>1. m3 * H <= (H - 1) * H /\ m3 * H \in Nat
      BY <1>2, <1>12, TimesIsMonotone
    <2>2. (H - 1) * H = Word - H
      BY <1>2
    <2> QED
      BY <1>2, <1>12, <2>1, <2>2
  <1>23. a < Word
    <2>1. a * Word < Word * Word
      BY <1>2, <1>20, <1>21, <1>22
    <2> QED
      BY <1>2, <1>20, <2>1, LessOf
  <1>24. a % Word = a
    BY <1>2, <1>20, <1>23
  <1>25. n \in TwoWords /\ SumOf(n) = a * (H * H) + (m3 * H + m)
    BY <1>2, <1>14, <1>20, <1>22, <1>23, <1>24 DEF SumOf, TwoWords
  <1> QED
    BY <1>1, <1>21, <1>25

\* Satoshi days are rounded twice, and only a sum of half a word of days is refused.
LEMMA DaysAre ==
    ASSUME NEW s \in TwoWords
    PROVE  CloseTo(Days(s), SumOf(s))
  <1>1. PICK W \in Nat \ {0}, shift \in Nat \ {0}, day \in Nat \ {0} :
           W = Word /\ shift = DayShift /\ day = Day
    BY WordIs
  <1>2. PICK over \in Nat, base \in Nat : over = s.over /\ base = s.base /\ over < W /\ base < W
    BY <1>1 DEF TwoWords
  <1>3. PICK half \in Nat : half = day \div 2 /\ 2 * half <= day
    BY <1>1
  <1>4. SumOf(s) = over * W + base /\ over * W \in Nat /\ half * W \in Nat
    BY <1>1, <1>2 DEF SumOf
  <1>5. CASE over >= half
    <2>1. half * W <= over * W
      BY <1>5, TimesIsMonotone
    <2>2. Days(s) = -2
      BY <1>1, <1>2, <1>3, <1>5 DEF Days
    <2>3. SumOf(s) >= (Day \div 2) * Word
      BY <1>1, <1>3, <1>4, <2>1
    <2> QED
      BY <2>2, <2>3 DEF CloseTo
  <1>6. CASE over < half
    <2>1. PICK k \in Nat \ {0} : k = W \div shift /\ W = shift * k
      <3>1. W % shift = 0
        BY <1>1, CalculationsAssumption
      <3>2. W \div shift \in Nat /\ W = shift * (W \div shift)
        BY <3>1, Divided
      <3> QED
        BY <3>2
    <2>2. PICK p \in Nat : p = over * k /\ p < W
      <3>1. over + 1 <= shift
        BY <1>1, <1>3, <1>6, CalculationsAssumption
      <3>2. (over + 1) * k <= shift * k
        BY <3>1, TimesIsMonotone
      <3>3. (over + 1) * k = over * k + 1 * k /\ over * k \in Nat
        BY Distributes
      <3> QED
        BY <2>1, <3>2, <3>3
    <2>3. PICK a \in Nat, ar \in Nat : a = p \div day /\ p = day * a + ar /\ ar < day
      BY Divided
    <2>4. PICK b \in Nat, br \in Nat : b = base \div day /\ base = day * b + br /\ br < day
      <3>1. base \div day \in Nat /\ base % day \in 0..day - 1 /\ base = day * (base \div day) + (base % day)
        BY Divided
      <3> QED
        BY <3>1
    <2>5. PICK v \in Nat : v = a * shift + b
      BY Distributes
    <2>6. over * W = (day * a) * shift + ar * shift
      <3>1. over * W = p * shift
        BY <2>1, <2>2
      <3> QED
        BY <2>3, <3>1
    <2>7. v * day = (day * a) * shift + day * b
      BY <2>5
    <2>8. /\ ar * shift \in Nat /\ (day * a) * shift \in Nat /\ day * b \in Nat
          /\ day * shift \in Nat /\ ar * shift <= day * shift
      BY <2>3, TimesIsMonotone
    <2>9. v * day <= over * W + base /\ over * W + base < v * day + day * shift + day
      BY <2>4, <2>6, <2>7, <2>8
    <2>10. v * day + day * shift + day = (v + shift + 1) * day
      OBVIOUS
    <2>11. over * W + base < half * W
      <3>1. (over + 1) * W <= half * W
        BY <1>6, TimesIsMonotone
      <3>2. (over + 1) * W = over * W + W
        OBVIOUS
      <3> QED
        BY <1>2, <1>4, <3>1, <3>2
    <2>12. PICK w \in Nat : W = 2 * w /\ w = W \div 2
      BY <1>1, WordIs
    <2>13. v < w
      <3>1. 2 * (v * day) < 2 * (half * W) /\ v * day \in Nat
        BY <1>4, <2>9, <2>11
      <3>2. (2 * half) * W <= day * W
        BY <1>3, TimesIsMonotone
      <3>3. 2 * (v * day) = (2 * v) * day /\ 2 * (half * W) = (2 * half) * W /\ day * W = W * day
        OBVIOUS
      <3>4. (2 * v) * day < W * day
        BY <1>4, <3>1, <3>2, <3>3
      <3>5. 2 * v < W
        BY <3>4, LessOf
      <3> QED
        BY <2>12, <3>5
    <2>14. Days(s) = v
      <3>1. (over * k) % W = p
        BY <2>2
      <3>2. ((((over * k) % W) \div day) * shift) + base \div day = v
        BY <2>3, <2>4, <2>5, <3>1
      <3>3. Signed(v) = v
        BY <1>1, <2>12, <2>13 DEF Signed
      <3>4. ~(over >= half)
        BY <1>6
      <3> QED
        BY <1>1, <1>2, <1>3, <2>1, <3>2, <3>3, <3>4 DEF Days
    <2> QED
      BY <1>1, <1>3, <1>4, <2>9, <2>10, <2>11, <2>14 DEF CloseTo
  <1> QED
    BY <1>2, <1>3, <1>5, <1>6

\* f has the sums of a from its first element on.
Adds(f, a) == f \in [0..Len(a) -> Nat] /\ f[0] = 0 /\ \A k \in 1..Len(a) : f[k] = f[k - 1] + a[k]

LEMMA TotalIs ==
    ASSUME NEW a \in Seq(Nat)
    PROVE  \E f : Adds(f, a) /\ Total(a) = f[Len(a)]
  <1> DEFINE n == Len(a)
             g == [i \in 1..n |-> [x \in Nat |-> x + a[i]]]
             total == CHOOSE v : v = [k \in 0..n |-> IF k = 0 THEN 0 ELSE v[k - 1] + a[k]]
  <1>1. n \in Nat /\ \A i \in 1..n : a[i] \in Nat
    OBVIOUS
  <1>2. g \in [1..n -> [Nat -> Nat]]
    BY <1>1
  <1>3. PICK v \in [0..n -> Nat] : v[0] = 0 /\ \A i \in 1..n : v[i] = g[i][v[i - 1]]
    <2> HIDE DEF g, n
    <2>1. PICK v : IsLoop(v, Nat, 0, n, g)
      BY <1>1, <1>2, RecursiveFunction
    <2> QED
      BY <2>1 DEF IsLoop
  <1>4. v = [k \in 0..n |-> IF k = 0 THEN 0 ELSE v[k - 1] + a[k]]
    <2>1. ASSUME NEW i \in 1..n PROVE v[i] = v[i - 1] + a[i]
      <3>1. i - 1 \in 0..n /\ v[i - 1] \in Nat
        <4> HIDE DEF g, n
        <4>1. i - 1 \in 0..n
          BY <1>1
        <4> QED
          BY <1>3, <4>1
      <3>2. g[i][v[i - 1]] = v[i - 1] + a[i]
        BY <3>1
      <3> HIDE DEF g
      <3> QED
        BY <1>3, <3>2
    <2>2. \A i \in 0..n : i = 0 \/ i \in 1..n
      BY <1>1
    <2> QED
      BY <1>3, <2>1, <2>2
  <1>5. total = [k \in 0..n |-> IF k = 0 THEN 0 ELSE total[k - 1] + a[k]]
    BY <1>4
  <1>6. Total(a) = total[n]
    BY DEF Total
  <1>7. PICK f : f = total
    OBVIOUS
  <1> HIDE DEF total, g
  <1>8. f[0] = 0 /\ DOMAIN f = 0..n /\ \A k \in 1..n : f[k] = f[k - 1] + a[k]
    <2> HIDE DEF n
    <2>1. f = [k \in 0..n |-> IF k = 0 THEN 0 ELSE f[k - 1] + a[k]]
      BY <1>5, <1>7
    <2>2. f[0] = 0
      <3>1. 0 \in 0..n
        BY <1>1
      <3> QED
        BY <2>1, <3>1
    <2>3. ASSUME NEW k \in 1..n PROVE f[k] = f[k - 1] + a[k]
      <3>1. k \in 0..n /\ k # 0
        BY <1>1
      <3> QED
        BY <2>1, <3>1
    <2> QED
      BY <2>1, <2>2, <2>3
  <1>9. PICK X : X = {k \in 0..n : f[k] \in Nat}
    OBVIOUS
  <1>10. ASSUME NEW i \in 1..n, i - 1 \in X PROVE i \in X
    BY <1>1, <1>8, <1>9, <1>10
  <1>11. \A k \in 0..n : k \in X
    <2> HIDE DEF n
    <2>1. 0 \in X
      BY <1>1, <1>8, <1>9
    <2> QED
      BY <1>1, <1>10, <2>1, TurnByTurn
  <1>12. f \in [0..n -> Nat]
    BY <1>5, <1>7, <1>9, <1>11
  <1> QED
    BY <1>6, <1>7, <1>8, <1>12 DEF Adds

-----------------------------------------------------------------------------
(***************************************************************************)
(* The invariant.                                                          *)
(***************************************************************************)

Walked == {"print", "past", "badFormat", "nullInput", "invalidTotal", "printed"}
Labels == {"parse", "parsed", "usage", "error", "iterate"} \cup Walked

\* Satoshi seconds, input by input.
Seconds(t) == [k \in DOMAIN t.inputs |-> t.inputs[k].amount * DestroyedFor(t.inputs[k], t.now)]

\* What main has decided, and a callback for one of its formats.
CallInv ==
    /\ pc \in Labels
    /\ pc \notin Walked => out = <<>> /\ sum = NULL
    /\ pc \in Walked \cup {"iterate"} => needsUtxo = NeedsUtxo([k \in Kinds |-> settings[k]])
    /\ pc \in Walked =>
          /\ job.kind \in Kinds /\ job.format = settings[job.kind] /\ job.format # NULL
          /\ job.inputs \in Seq(Utxos) /\ Len(job.inputs) <= Half
          /\ job.now \in 0..Half - 1 /\ job.last \in (0..Half - 1) \cup {NULL}
          /\ job.utxo \in Utxos

\* The sum holds the inputs added so far; the bound says why it never overflows.
SumInv ==
    \/ sum = NULL
    \/ /\ Printing({<<"t", "D">>}) /\ ~job.coinbase
       /\ sum.n \in 0..Len(job.inputs) /\ sum.s \in TwoWords
       /\ SumOf(sum.s) <= sum.n * (Word * Half)
       /\ \E f : /\ Adds(f, Seconds(job)) /\ ExactSum(job) = f[Len(job.inputs)]
                 /\ SumOf(sum.s) = f[sum.n]

OutInv == (\E S : out \in Seq(S)) /\ DaysExact

IInv == CallInv /\ SumInv /\ OutInv

\* DaysExact of one thing that is printed.
EntryExact(x) ==
    /\ x.code = <<"t", "D">> /\ ~job.coinbase => CloseTo(x.value, ExactSum(job))
    /\ /\ x.code = <<"u", "C">> /\ job.last # NULL
       /\ 0 < job.last /\ job.last <= job.now /\ job.utxo.timestamp <= job.now
       => CloseTo(x.value, job.utxo.amount * (job.now - Since(job)))

LEMMA OutKept == ASSUME OutInv, job' = job, out' = out PROVE OutInv'
  BY DEF OutInv, DaysExact, Since, ExactSum

LEMMA Printed ==
    ASSUME OutInv, job' = job, NEW x, out' = Append(out, x), EntryExact(x)
    PROVE  OutInv'
  <1>1. PICK S : out \in Seq(S)
    BY DEF OutInv
  <1>2. out \in Seq(S \cup {x})
    BY <1>1
  <1>3. PICK o \in Seq(S \cup {x}) : o = Append(out, x)
    BY <1>2
  <1>4. DOMAIN o = 1..Len(out) + 1 /\ o[Len(out) + 1] = x /\ \A k \in 1..Len(out) : o[k] = out[k]
    BY <1>2, <1>3
  <1>5. DOMAIN out = 1..Len(out) /\ Len(out) \in Nat
    BY <1>1
  <1>6. ASSUME NEW k \in DOMAIN o PROVE EntryExact(o[k])
    <2>1. CASE k = Len(out) + 1
      BY <1>4, <2>1
    <2>2. CASE k \in DOMAIN out
      BY <1>4, <1>5, <2>2 DEF OutInv, DaysExact, EntryExact
    <2> QED
      BY <1>4, <1>5, <2>1, <2>2
  <1> QED
    BY <1>3, <1>6 DEF OutInv, DaysExact, EntryExact, Since, ExactSum

-----------------------------------------------------------------------------
(***************************************************************************)
(* Every step keeps it.                                                    *)
(***************************************************************************)

LEMMA InitIInv == Init => IInv
  <1> SUFFICES ASSUME Init PROVE IInv
    OBVIOUS
  <1>1. out \in Seq({}) /\ DOMAIN out = {}
    BY DEF Init
  <1> QED
    BY <1>1 DEF Init, IInv, CallInv, Labels, Walked, SumInv, OutInv, DaysExact

\* main, up to the call of iterate().
LEMMA MainStep == ASSUME IInv, Parse \/ Iterate PROVE IInv'
  <1>1. /\ pc \in {"parse", "parsed"} /\ pc' \in {"parse", "parsed", "usage", "error", "iterate"}
        /\ UNCHANGED printVars
        /\ pc' = "iterate" => needsUtxo' = NeedsUtxo([k \in Kinds |-> settings'[k]])
    <2>1. CASE Parse
      BY <2>1 DEF Parse
    <2>2. CASE Iterate
      <3>1. pc' = "iterate" => argv = <<>>
        BY <2>2 DEF Iterate
      <3>2. PICK needs \in BOOLEAN : needs = NeedsUtxo([k \in Kinds |-> settings[k]])
        BY DEF NeedsUtxo
      <3>3. needsUtxo' = (argv = <<>> /\ needs) /\ settings' = settings
        BY <2>2, <3>2 DEF Iterate
      <3>4. pc' = "iterate" => needsUtxo' = needs
        BY <3>1, <3>3
      <3> QED
        BY <2>2, <3>2, <3>3, <3>4 DEF Iterate
    <2> QED
      BY <2>1, <2>2
  <1>2. out = <<>> /\ sum = NULL
    BY <1>1 DEF IInv, CallInv, Walked
  <1>3. CallInv'
    BY <1>1, <1>2 DEF CallInv, Labels, Walked, printVars
  <1>4. SumInv'
    BY <1>1, <1>2 DEF SumInv, printVars
  <1> QED
    BY <1>1, <1>3, <1>4, OutKept DEF IInv, printVars

LEMMA CallBackStep == ASSUME IInv, CallBack PROVE IInv'
  <1>1. pc = "iterate" /\ pc' = "print" /\ out' = <<>> /\ sum' = NULL /\ UNCHANGED parseVars
    BY DEF CallBack, IInv, CallInv, Walked
  <1>2. PICK kind \in Kinds, with \in Jobs :
          /\ settings[kind] # NULL
          /\ job' = [kind |-> kind, format |-> settings[kind], coinbase |-> with.coinbase,
                     inputs |-> with.inputs, outputs |-> with.outputs,
                     now |-> with.now, last |-> with.last, utxo |-> with.utxo]
    BY DEF CallBack
  <1>3. CallInv'
    BY <1>1, <1>2, JobsAssumption DEF IInv, CallInv, Labels, Walked, parseVars
  <1>4. out' \in Seq({}) /\ DOMAIN out' = {}
    BY <1>1
  <1>5. OutInv'
    BY <1>4 DEF OutInv, DaysExact
  <1> QED
    BY <1>1, <1>3, <1>5 DEF IInv, SumInv

\* A callback goes on: what main has decided stays.
LEMMA CallKept ==
    ASSUME CallInv, pc = "print", pc' \in Walked, UNCHANGED parseVars, job' = job
    PROVE  CallInv'
  BY DEF CallInv, Labels, Walked, parseVars

\* While the inputs are added up the other escapes have to wait.
LEMMA NotAdding ==
    ASSUME IInv, \/ Char # "%" \/ Code # <<"t", "D">> \/ ~KnownEscape(Code, job.kind)
    PROVE  sum = NULL
  BY DEF IInv, SumInv, Printing

\* An escape that prints no days, or a character.
LEMMA PrintsNoDays ==
    ASSUME IInv, pc = "print", pc' \in Walked, UNCHANGED <<parseVars, job, sum>>, sum = NULL,
           NEW x, x.code # <<"t", "D">>, x.code # <<"u", "C">>,
           out' = out \/ out' = Append(out, x)
    PROVE  IInv'
  <1>1. CallInv'
    BY CallKept DEF IInv
  <1>2. EntryExact(x)
    BY DEF EntryExact
  <1>3. OutInv'
    BY <1>2, OutKept, Printed DEF IInv
  <1> QED
    BY <1>1, <1>3 DEF IInv, SumInv

LEMMA SteppedIs == Stepped => pc' \in Walked
  BY DEF Stepped, Walked

LEMMA OtherStep ==
    ASSUME IInv, \/ PrintLiteral \/ SkipEscape \/ BadFormat \/ SequenceOfOutput \/ PrintFees
                 \/ PrintGuess \/ PrintField \/ EndOfFormat
    PROVE  IInv'
  <1>1. pc = "print" /\ pc' \in Walked /\ UNCHANGED <<parseVars, job, sum>>
    BY SteppedIs DEF PrintLiteral, SkipEscape, BadFormat, SequenceOfOutput, PrintFees,
         PrintGuess, PrintField, EndOfFormat, Printing, printVars, Walked
  <1>2. PICK none : none = [code |-> <<>>, value |-> 0]
    OBVIOUS
  <1>3. none.code # <<"t", "D">> /\ none.code # <<"u", "C">>
    BY <1>2
  <1>4. CASE PrintLiteral
    <2>1. PICK x : x = [code |-> <<Char>>, value |-> 0]
      OBVIOUS
    <2>2. x.code # <<"t", "D">> /\ x.code # <<"u", "C">>
      <3>1. Len(x.code) = 1 /\ Len(<<"t", "D">>) = 2 /\ Len(<<"u", "C">>) = 2
        BY <2>1
      <3> QED
        BY <3>1
    <2>3. out' = Append(out, x) /\ sum = NULL
      BY <1>4, <2>1, NotAdding DEF PrintLiteral, Shows
    <2> QED
      BY <1>1, <2>2, <2>3, PrintsNoDays
  <1>5. CASE SkipEscape \/ BadFormat \/ SequenceOfOutput \/ EndOfFormat
    <2>1. out' = out
      BY <1>5 DEF SkipEscape, BadFormat, SequenceOfOutput, EndOfFormat, printVars
    <2>2. sum = NULL
      <3>1. CASE SkipEscape
        <4>1. Code[1] # "t"
          BY <3>1 DEF SkipEscape, Class
        <4> QED
          BY <4>1, NotAdding
      <3>2. CASE BadFormat
        BY <3>2, NotAdding DEF BadFormat, BadEscape
      <3>3. CASE SequenceOfOutput
        BY <3>3, NotAdding DEF SequenceOfOutput, Printing
      <3>4. CASE EndOfFormat
        BY <3>4, NotAdding DEF EndOfFormat
      <3> QED
        BY <1>5, <3>1, <3>2, <3>3, <3>4
    <2> QED
      BY <1>1, <1>3, <2>1, <2>2, PrintsNoDays
  <1>6. CASE PrintFees \/ PrintGuess \/ PrintField
    <2>1. Code \notin {<<"t", "D">>, <<"u", "C">>}
      BY <1>6 DEF PrintFees, PrintGuess, PrintField, Printing, Calculated
    <2>2. sum = NULL
      BY <2>1, NotAdding
    <2>3. PICK value : out' = out \/ out' = Append(out, [code |-> Code, value |-> value])
      BY <1>6 DEF PrintFees, PrintGuess, PrintField, Shows
    <2>4. PICK x : x = [code |-> Code, value |-> value]
      OBVIOUS
    <2> QED
      BY <1>1, <2>1, <2>2, <2>3, <2>4, PrintsNoDays
  <1> QED
    BY <1>4, <1>5, <1>6

\* The job, as far as the days are concerned.
LEMMA JobIs ==
    ASSUME IInv, pc = "print"
    PROVE  /\ Seconds(job) \in Seq(Nat) /\ Len(Seconds(job)) = Len(job.inputs)
           /\ Len(job.inputs) \in Nat /\ Len(job.inputs) <= Half
           /\ \A k \in 1..Len(job.inputs) :
                 /\ job.inputs[k].amount \in 0..Word - 1
                 /\ DestroyedFor(job.inputs[k], job.now) \in 0..Half - 1
                 /\ Seconds(job)[k] = job.inputs[k].amount * DestroyedFor(job.inputs[k], job.now)
                 /\ Seconds(job)[k] \in Nat
  <1>1. PICK ins \in Seq(Utxos) : ins = job.inputs
    BY DEF IInv, CallInv, Walked
  <1>2. Len(ins) <= Half /\ job.now \in 0..Half - 1
    BY <1>1 DEF IInv, CallInv, Walked
  <1>3. ASSUME NEW k \in 1..Len(ins)
        PROVE  /\ ins[k].amount \in 0..Word - 1 /\ DestroyedFor(ins[k], job.now) \in 0..Half - 1
               /\ ins[k].amount * DestroyedFor(ins[k], job.now) \in Nat
    <2>1. ins[k] \in Utxos
      BY <1>1
    <2>2. ins[k].amount \in 0..Word - 1 /\ ins[k].timestamp \in 0..Half - 1
      BY <2>1 DEF Utxos
    <2>3. DestroyedFor(ins[k], job.now) \in 0..Half - 1
      BY <1>2, <2>2, WordIs DEF DestroyedFor
    <2> QED
      BY <2>2, <2>3, WordIs
  <1>4. DOMAIN ins = 1..Len(ins) /\ Len(ins) \in Nat
    BY <1>1
  <1>5. PICK a : a = [k \in 1..Len(ins) |-> ins[k].amount * DestroyedFor(ins[k], job.now)]
    OBVIOUS
  <1>6. a \in Seq(Nat) /\ Len(a) = Len(ins)
    BY <1>3, <1>4, <1>5
  <1>7. Seconds(job) = a
    BY <1>1, <1>4, <1>5 DEF Seconds
  <1> QED
    BY <1>1, <1>2, <1>3, <1>4, <1>5, <1>6, <1>7

LEMMA NothingIs == Nothing \in TwoWords /\ SumOf(Nothing) = 0
  BY WordIs DEF Nothing, TwoWords, SumOf

LEMMA StartDaysStep == ASSUME IInv, StartDays PROVE IInv'
  <1>1. /\ pc = "print" /\ UNCHANGED <<parseVars, job>> /\ Char = "%" /\ Code = <<"t", "D">>
        /\ sum = NULL
    BY DEF StartDays, Printing
  <1>2. pc' \in Walked
    BY <1>1, SteppedIs DEF StartDays, Walked
  <1>3. CASE job.coinbase
    <2>1. PICK x : x = [code |-> Code, value |-> 0]
      OBVIOUS
    <2>2. EntryExact(x)
      BY <1>1, <1>3, <2>1 DEF EntryExact
    <2>3. out' = Append(out, x) /\ sum' = sum
      BY <1>3, <2>1 DEF StartDays, Shows
    <2> QED
      BY <1>1, <1>2, <2>2, <2>3, Printed, CallKept DEF IInv, SumInv
  <1>4. CASE ~job.coinbase
    <2>1. sum' = [s |-> Nothing, n |-> 0] /\ UNCHANGED <<pc, at, out>>
      BY <1>4 DEF StartDays
    <2>2. PICK f : Adds(f, Seconds(job)) /\ Total(Seconds(job)) = f[Len(Seconds(job))]
      BY <1>1, JobIs, TotalIs
    <2>3. ExactSum(job) = f[Len(job.inputs)] /\ f[0] = 0 /\ Adds(f, Seconds(job))
      BY <1>1, <2>2, JobIs DEF ExactSum, Seconds, Adds
    <2>4. 0 <= 0 * (Word * Half)
      BY WordIs
    <2>5. SumInv'
      <3>1. Seconds(job)' = Seconds(job) /\ ExactSum(job)' = ExactSum(job)
        BY <1>1 DEF Seconds, ExactSum
      <3>2. Printing({<<"t", "D">>})'
        BY <1>1, <2>1 DEF StartDays, Printing, Char, Code
      <3>3. sum'.n \in 0..Len(job.inputs) /\ sum'.s \in TwoWords /\ SumOf(sum'.s) = 0 /\ sum'.n = 0
        BY <1>1, <2>1, NothingIs, JobIs
      <3> QED
        BY <1>1, <1>4, <2>3, <2>4, <3>1, <3>2, <3>3 DEF SumInv
    <2> QED
      BY <1>1, <1>2, <2>1, <2>5, OutKept, CallKept DEF IInv
  <1> QED
    BY <1>3, <1>4

\* One more input, which cannot make the sum overflow.
LEMMA AddInputStep == ASSUME IInv, AddInput PROVE IInv'
  <1>1. /\ Printing({<<"t", "D">>}) /\ pc = "print" /\ ~job.coinbase
        /\ UNCHANGED <<pc, parseVars, job, at, out>>
    BY DEF IInv, SumInv, AddInput, Printing
  <1>2. PICK n \in Nat, s \in TwoWords :
          /\ n = sum.n /\ s = sum.s /\ sum # NULL
          /\ SumOf(s) <= n * (Word * Half) /\ n + 1 \in 1..Len(job.inputs)
    <2>1. PICK len \in Nat : len = Len(job.inputs)
      BY <1>1, JobIs
    <2>2. sum # NULL /\ sum.n < len
      BY <2>1 DEF AddInput
    <2>3. sum.n \in 0..len /\ sum.s \in TwoWords /\ SumOf(sum.s) <= sum.n * (Word * Half)
      BY <2>1, <2>2 DEF IInv, SumInv
    <2>4. PICK n : n = sum.n
      OBVIOUS
    <2>5. n \in Nat /\ n + 1 \in 1..len
      BY <2>2, <2>3, <2>4
    <2>6. PICK s : s = sum.s
      OBVIOUS
    <2> QED
      BY <2>1, <2>2, <2>3, <2>4, <2>5, <2>6
  <1>3. PICK f : Adds(f, Seconds(job)) /\ ExactSum(job) = f[Len(job.inputs)] /\ SumOf(s) = f[n]
    BY <1>2 DEF IInv, SumInv
  <1>4. PICK l \in 0..Word - 1, r \in 0..Half - 1 :
          /\ l = job.inputs[n + 1].amount /\ r = DestroyedFor(job.inputs[n + 1], job.now)
          /\ Seconds(job)[n + 1] = l * r
    BY <1>1, <1>2, <1>3, JobIs
  <1>5. sum' = [s |-> MulAndAdd(s, l, r), n |-> n + 1]
    BY <1>2, <1>3, <1>4 DEF AddInput
  <1>6. PICK H \in Nat \ {0}, W \in Nat \ {0} : H = Half /\ W = Word /\ W = H * H /\ H <= W
    BY WordIs
  <1>7. l * r \in Nat /\ l * r < W * H
    <2>1. l * r <= W * r /\ l * r \in Nat
      BY <1>6, TimesIsMonotone
    <2>2. W * r < W * H
      BY <1>6
    <2> QED
      BY <1>6, <2>1, <2>2
  <1>8. SumOf(s) \in Nat
    BY <1>6 DEF SumOf, TwoWords
  <1>9. SumOf(s) + l * r <= (n + 1) * (W * H) /\ SumOf(s) + l * r < W * W
    <2>1. (n + 1) * (W * H) = n * (W * H) + W * H /\ W * H \in Nat
      OBVIOUS
    <2>2. SumOf(s) + l * r < (n + 1) * (W * H)
      <3>1. PICK x \in Nat, y \in Nat, u \in Nat, v \in Nat :
               x = SumOf(s) /\ y = l * r /\ u = n * (W * H) /\ v = W * H
        BY <1>7, <1>8
      <3>2. x <= u /\ y < v
        BY <1>2, <1>6, <1>7, <3>1
      <3>3. x + y < u + v
        BY <3>2
      <3> QED
        BY <2>1, <3>1, <3>3
    <2>3. n + 1 <= H
      <3>1. PICK len \in Nat : len = Len(job.inputs) /\ len <= Half
        BY <1>1, JobIs
      <3> QED
        BY <1>2, <1>3, <1>6, <3>1
    <2>4. (n + 1) * (W * H) <= H * (W * H)
      BY <2>1, <2>3, TimesIsMonotone
    <2>5. H * (W * H) = W * W
      BY <1>6
    <2> QED
      BY <1>7, <1>8, <2>1, <2>2, <2>4, <2>5
  <1>10. r \in 0..Word - 1
    BY <1>6
  <1>11. MulAndAdd(s, l, r) \in TwoWords /\ SumOf(MulAndAdd(s, l, r)) = SumOf(s) + l * r
    BY <1>6, <1>9, <1>10, MulAndAddIs
  <1>12. f[n + 1] = f[n] + l * r
    <2>1. n + 1 \in 1..Len(Seconds(job)) /\ (n + 1) - 1 = n
      BY <1>1, <1>2, <1>3, JobIs
    <2> QED
      BY <1>2, <1>3, <1>4, <2>1 DEF Adds
  <1>13. SumInv'
    <2>1. Seconds(job)' = Seconds(job) /\ ExactSum(job)' = ExactSum(job)
      BY <1>1 DEF Seconds, ExactSum
    <2>2. Printing({<<"t", "D">>})'
      BY <1>1 DEF Printing, Char, Code
    <2>3. sum'.n = n + 1 /\ sum'.s = MulAndAdd(s, l, r) /\ n + 1 \in 0..Len(job.inputs)
      BY <1>2, <1>3, <1>5
    <2>4. SumOf(sum'.s) = f[sum'.n] /\ SumOf(sum'.s) <= sum'.n * (Word * Half)
      BY <1>2, <1>3, <1>6, <1>9, <1>11, <1>12, <2>3
    <2> QED
      BY <1>1, <1>2, <1>3, <1>11, <2>1, <2>2, <2>3, <2>4 DEF SumInv
  <1> QED
    BY <1>1, <1>13, OutKept, CallKept DEF IInv, Walked

LEMMA PrintDaysStep == ASSUME IInv, PrintDays PROVE IInv'
  <1>1. /\ pc = "print" /\ ~job.coinbase /\ UNCHANGED <<parseVars, job>> /\ pc' \in Walked
        /\ sum' = NULL /\ Code = <<"t", "D">>
    BY SteppedIs DEF IInv, SumInv, PrintDays, Printing
  <1>2. sum.s \in TwoWords /\ SumOf(sum.s) = ExactSum(job)
    BY DEF IInv, SumInv, PrintDays
  <1>3. PICK x : x = [code |-> Code, value |-> Days(sum.s)]
    OBVIOUS
  <1>4. out' = Append(out, x)
    BY <1>3 DEF PrintDays, Shows
  <1>5. EntryExact(x)
    <2>1. CloseTo(x.value, ExactSum(job))
      BY <1>2, <1>3, DaysAre
    <2>2. x.code # <<"u", "C">>
      BY <1>1, <1>3
    <2> QED
      BY <2>1, <2>2 DEF EntryExact
  <1> QED
    BY <1>1, <1>4, <1>5, Printed, CallKept DEF IInv, SumInv

\* %uC: the time that counts, if no block is older than the one before it.
LEMMA PrintCreatedStep == ASSUME IInv, PrintCreated PROVE IInv'
  <1>1. /\ pc = "print" /\ UNCHANGED <<parseVars, job, sum>> /\ pc' \in Walked
        /\ Code = <<"u", "C">>
    BY SteppedIs DEF PrintCreated, Printing
  <1>2. PICK value : value = IF job.last = NULL THEN 0 ELSE CalculateBdc(job.utxo, job.now, job.last)
    OBVIOUS
  <1>3. PICK x : x = [code |-> Code, value |-> value]
    OBVIOUS
  <1>4. out' = Append(out, x)
    BY <1>2, <1>3 DEF PrintCreated, Shows
  <1>5. EntryExact(x)
    <2> SUFFICES ASSUME job.last # NULL, 0 < job.last, job.last <= job.now,
                        job.utxo.timestamp <= job.now
                 PROVE  CloseTo(value, job.utxo.amount * (job.now - Since(job)))
      BY <1>1, <1>3 DEF EntryExact
    <2>1. PICK amount \in 0..Word - 1, created \in 0..Half - 1, now \in 0..Half - 1, last \in 0..Half - 1 :
            /\ amount = job.utxo.amount /\ created = job.utxo.timestamp
            /\ now = job.now /\ last = job.last
      BY <1>1 DEF IInv, CallInv, Walked, Utxos
    <2>2. PICK H \in Nat \ {0}, W \in Nat \ {0} : H = Half /\ W = Word /\ W = H * H /\ H <= W
      BY WordIs
    <2>3. PICK time \in 0..H - 1 : time = CreatedFor(job.utxo, job.now, job.last)
                                   /\ time = job.now - Since(job)
      <3>1. (now - last) % H = now - last /\ (now - created) % H = now - created
        BY <2>1, <2>2
      <3>2. U32(now - last) = now - last /\ U32(now - created) = now - created
        BY <2>2, <3>1 DEF U32
      <3> QED
        BY <2>1, <2>2, <3>2 DEF CreatedFor, Since
    <2>4. amount * time \in Nat /\ amount * time < W * W
      <3>1. amount * time <= W * time /\ amount * time \in Nat
        BY <2>1, <2>2, TimesIsMonotone
      <3>2. W * time < W * W
        BY <2>2
      <3> QED
        BY <2>2, <3>1, <3>2
    <2>5. PICK s : s = MulAndAdd(Nothing, amount, time)
      OBVIOUS
    <2>6. s \in TwoWords /\ SumOf(s) = amount * time
      BY <2>2, <2>4, <2>5, NothingIs, MulAndAddIs
    <2>7. value = Days(s)
      BY <1>2, <2>1, <2>3, <2>5 DEF CalculateBdc
    <2> QED
      BY <2>1, <2>3, <2>6, <2>7, DaysAre
  <1>6. sum = NULL
    BY <1>1, NotAdding
  <1> QED
    BY <1>1, <1>4, <1>5, <1>6, Printed, CallKept DEF IInv, SumInv

LEMMA StutterIInv == ASSUME IInv, UNCHANGED vars PROVE IInv'
  <1>1. CallInv'
    BY DEF IInv, CallInv, vars, parseVars, printVars
  <1>2. SumInv'
    BY DEF IInv, SumInv, Printing, Char, Code, Seconds, ExactSum, vars, parseVars, printVars
  <1> QED
    BY <1>1, <1>2, OutKept DEF IInv, vars, printVars

\* Whatever the words, the formats and the transactions are.
THEOREM Invariance == Spec => []IInv
  <1>1. ASSUME IInv, [Next]_vars PROVE IInv'
    BY <1>1, MainStep, CallBackStep, OtherStep, StartDaysStep, AddInputStep, PrintDaysStep,
       PrintCreatedStep, StutterIInv DEF Next
  <1> QED
    BY InitIInv, <1>1, PTL DEF Spec

\* Whatever formats there are, main asks for the map if one of their codes looks
\* for an output in it: HasCode finds each code that print_format comes to.
THEOREM KeepsTheMap == Spec => []MapKeptIfRead
  <1>1. IInv => MapKeptIfRead
    <2> SUFFICES ASSUME IInv, pc = "print", Char = "%", KnownEscape(Code, job.kind),
                        ReadsMap(Code, job.coinbase)
                 PROVE  needsUtxo
      BY DEF MapKeptIfRead
    <2>1. PICK kind \in Kinds : kind = job.kind /\ job.format = settings[kind] /\ settings[kind] # NULL
      BY DEF IInv, CallInv, Walked
    <2>2. PICK formats : formats = [k \in Kinds |-> settings[k]]
      OBVIOUS
    <2>3. needsUtxo = NeedsUtxo(formats) /\ formats[kind] = job.format /\ formats[kind] # NULL
      BY <2>1, <2>2 DEF IInv, CallInv, Walked
    <2>4. HasCode(formats[kind], Code)
      BY <2>3 DEF HasCode, Char, Code, CharAt
    <2>5. Code \in Calculated \cup Looked /\ Code[1] \in Given(kind)
      BY <2>1 DEF ReadsMap, KnownEscape
    <2>6. Code \in Calculated => Code[1] = "t"
      BY DEF Calculated
    <2>7. Code \in Looked => Code[1] = "i"
      BY DEF Looked
    <2>8. NeedsUtxo(formats)
      <3>1. CASE kind = "block"
        BY <3>1, <2>5, <2>6, <2>7 DEF Given
      <3>2. CASE kind = "tx"
        BY <3>2, <2>3, <2>4, <2>5, <2>6, <2>7 DEF Given, NeedsUtxo, HasAny
      <3>3. CASE kind = "input"
        BY <3>3, <2>3, <2>4, <2>5 DEF NeedsUtxo, HasAny
      <3>4. CASE kind = "output"
        BY <3>4, <2>3, <2>4, <2>5, <2>6, <2>7 DEF Given, NeedsUtxo, HasAny
      <3>5. CASE kind = "utxo"
        BY <3>5, <2>3 DEF NeedsUtxo
      <3> QED
        BY <2>1, <3>1, <3>2, <3>3, <3>4, <3>5 DEF Kinds
    <2> QED
      BY <2>3, <2>8
  <1> QED
    BY <1>1, Invariance, PTL

\* The days printed are right for words of any width and any length of a day: the
\* carries of mul_and_add are exact, and dividing its two words loses what
\* CloseTo allows.
THEOREM DaysAreExact == Spec => []DaysExact
  <1>1. IInv => DaysExact
    BY DEF IInv, OutInv
  <1> QED
    BY <1>1, Invariance, PTL

-----------------------------------------------------------------------------
(***************************************************************************)
(* Options: the words in the order of the line, against parse_one, which   *)
(* takes them out of argv.                                                 *)
(***************************************************************************)

\* f has what has been read after each word, g after each letter of one.
Reads(f) ==
    /\ f[0] = Going(Defaults, 0)
    /\ \A k \in 1..Len(line) : f[k] = OneWord(f[k - 1], line[k])
Spells(g, acc, letters) ==
    /\ g[0] = acc
    /\ \A k \in 1..Len(letters) : g[k] = OneLetter(g[k - 1], letters[k])

LEMMA LineIs ==
    ASSUME line \in Lines
    PROVE  /\ Len(line) \in Nat /\ DOMAIN line = 1..Len(line)
           /\ \A k \in 1..Len(line) :
                 /\ line[k].dash \in {0, 1, 2}
                 /\ line[k].dash = 1 => Len(line[k].letters) \in Nat /\ IsSequence(line[k].letters)
  <1>1. IsSequence(line)
    BY LinesAssumption
  <1>2. Len(line) \in Nat /\ DOMAIN line = 1..Len(line)
    BY <1>1 DEF IsSequence
  <1>3. ASSUME NEW k \in 1..Len(line)
        PROVE  /\ line[k].dash \in 0..2
               /\ line[k].dash = 1 => IsSequence(line[k].letters)
    BY <1>2, LinesAssumption
  <1>4. ASSUME NEW s, IsSequence(s) PROVE Len(s) \in Nat
    BY <1>4 DEF IsSequence
  <1> QED
    BY <1>2, <1>3, <1>4

LEMMA LettersAre ==
    ASSUME NEW acc, NEW letters, Len(letters) \in Nat
    PROVE  \E g : Spells(g, acc, letters) /\ AllLetters(acc, letters) = g[Len(letters)]
  <1>1. PICK n \in Nat : n = Len(letters)
    OBVIOUS
  <1> DEFINE Is(g, m) == /\ g = [k \in 0..m |-> g[k]] /\ g[0] = acc
                         /\ \A k \in 1..m : g[k] = OneLetter(g[k - 1], letters[k])
             X == {m \in 0..n : \E g : Is(g, m)}
  <1>2. 0 \in X
    <2>1. PICK g : g = [k \in 0..0 |-> acc]
      OBVIOUS
    <2>2. g[0] = acc
      BY <2>1
    <2>3. g = [k \in 0..0 |-> g[k]]
      BY <2>1
    <2>4. Is(g, 0)
      BY <2>2, <2>3
    <2> QED
      BY <2>4
  <1>3. ASSUME NEW m \in 1..n, m - 1 \in X PROVE m \in X
    <2>1. PICK g : Is(g, m - 1)
      BY <1>3
    <2>2. PICK last : last = OneLetter(g[m - 1], letters[m])
      OBVIOUS
    <2>3. PICK h : h = [k \in 0..m |-> IF k = m THEN last ELSE g[k]]
      OBVIOUS
    <2>4. \A k \in 0..m - 1 : h[k] = g[k]
      BY <2>3
    <2>5. h[m] = last
      BY <2>3
    <2>6. h[0] = acc /\ h = [k \in 0..m |-> h[k]]
      <3>1. h[0] = acc
        BY <2>1, <2>4
      <3>2. h = [k \in 0..m |-> h[k]]
        BY <2>3
      <3> QED
        BY <3>1, <3>2
    <2>7. ASSUME NEW k \in 1..m PROVE h[k] = OneLetter(h[k - 1], letters[k])
      <3>1. h[k - 1] = g[k - 1]
        BY <2>4
      <3>2. CASE k = m
        BY <2>2, <2>5, <3>1, <3>2
      <3>3. CASE k # m
        <4>1. k \in 1..m - 1
          BY <3>3
        <4>2. g[k] = OneLetter(g[k - 1], letters[k])
          BY <2>1, <4>1
        <4> QED
          BY <2>4, <3>1, <4>1, <4>2
      <3> QED
        BY <3>2, <3>3
    <2>8. Is(h, m)
      BY <2>6, <2>7
    <2> HIDE DEF Is
    <2>9. \E e : Is(e, m)
      BY <2>8
    <2> QED
      BY <2>9
  <1>4. PICK g : Is(g, n)
    <2>1. \A i \in 0..n : i \in X
      <3> HIDE DEF X
      <3> QED
        BY <1>2, <1>3, TurnByTurn
    <2> QED
      BY <2>1
  <1> DEFINE after == CHOOSE h : h = [k \in 0..n |->
                          IF k = 0 THEN acc ELSE OneLetter(h[k - 1], letters[k])]
  <1>5. g = [k \in 0..n |-> IF k = 0 THEN acc ELSE OneLetter(g[k - 1], letters[k])]
    <2>1. ASSUME NEW k \in 0..n
          PROVE  g[k] = IF k = 0 THEN acc ELSE OneLetter(g[k - 1], letters[k])
      BY <1>4
    <2> QED
      BY <1>4, <2>1
  <1>6. after = [k \in 0..n |-> IF k = 0 THEN acc ELSE OneLetter(after[k - 1], letters[k])]
    BY <1>5
  <1>7. AllLetters(acc, letters) = after[n]
    BY <1>1 DEF AllLetters
  <1>8. Spells(after, acc, letters)
    <2> HIDE DEF after
    <2> QED
      BY <1>1, <1>6 DEF Spells
  <1> QED
    BY <1>1, <1>7, <1>8

\* The same for the words.
LEMMA MeaningIs ==
    ASSUME line \in Lines
    PROVE  \E f : Reads(f) /\ Meaning = f[Len(line)]
  <1>1. PICK n \in Nat : n = Len(line)
    BY LineIs
  <1> DEFINE Is(g, m) == /\ g = [k \in 0..m |-> g[k]] /\ g[0] = Going(Defaults, 0)
                         /\ \A k \in 1..m : g[k] = OneWord(g[k - 1], line[k])
             X == {m \in 0..n : \E g : Is(g, m)}
  <1>2. 0 \in X
    <2>1. PICK g : g = [k \in 0..0 |-> Going(Defaults, 0)]
      OBVIOUS
    <2>2. g[0] = Going(Defaults, 0)
      BY <2>1
    <2>3. g = [k \in 0..0 |-> g[k]]
      BY <2>1
    <2>4. Is(g, 0)
      BY <2>2, <2>3
    <2> QED
      BY <2>4
  <1>3. ASSUME NEW m \in 1..n, m - 1 \in X PROVE m \in X
    <2>1. PICK g : Is(g, m - 1)
      BY <1>3
    <2>2. PICK last : last = OneWord(g[m - 1], line[m])
      OBVIOUS
    <2>3. PICK h : h = [k \in 0..m |-> IF k = m THEN last ELSE g[k]]
      OBVIOUS
    <2>4. \A k \in 0..m - 1 : h[k] = g[k]
      BY <2>3
    <2>5. h[m] = last
      BY <2>3
    <2>6. h[0] = Going(Defaults, 0) /\ h = [k \in 0..m |-> h[k]]
      <3>1. h[0] = Going(Defaults, 0)
        BY <2>1, <2>4
      <3>2. h = [k \in 0..m |-> h[k]]
        BY <2>3
      <3> QED
        BY <3>1, <3>2
    <2>7. ASSUME NEW k \in 1..m PROVE h[k] = OneWord(h[k - 1], line[k])
      <3>1. h[k - 1] = g[k - 1]
        BY <2>4
      <3>2. CASE k = m
        BY <2>2, <2>5, <3>1, <3>2
      <3>3. CASE k # m
        <4>1. k \in 1..m - 1
          BY <3>3
        <4>2. g[k] = OneWord(g[k - 1], line[k])
          BY <2>1, <4>1
        <4> QED
          BY <2>4, <3>1, <4>1, <4>2
      <3> QED
        BY <3>2, <3>3
    <2>8. Is(h, m)
      BY <2>6, <2>7
    <2> HIDE DEF Is
    <2>9. \E e : Is(e, m)
      BY <2>8
    <2> QED
      BY <2>9
  <1>4. PICK g : Is(g, n)
    <2>1. \A i \in 0..n : i \in X
      <3> HIDE DEF X
      <3> QED
        BY <1>2, <1>3, TurnByTurn
    <2> QED
      BY <2>1
  <1> DEFINE after == CHOOSE h : h = [k \in 0..n |->
                          IF k = 0 THEN Going(Defaults, 0) ELSE OneWord(h[k - 1], line[k])]
  <1>5. g = [k \in 0..n |-> IF k = 0 THEN Going(Defaults, 0) ELSE OneWord(g[k - 1], line[k])]
    <2>1. ASSUME NEW k \in 0..n
          PROVE  g[k] = IF k = 0 THEN Going(Defaults, 0) ELSE OneWord(g[k - 1], line[k])
      <3>1. k # 0 => k \in 1..n
        OBVIOUS
      <3>2. g[0] = Going(Defaults, 0) /\ \A i \in 1..n : g[i] = OneWord(g[i - 1], line[i])
        BY <1>4
      <3> QED
        BY <3>1, <3>2
    <2> QED
      BY <1>4, <2>1
  <1>6. after = [k \in 0..n |-> IF k = 0 THEN Going(Defaults, 0) ELSE OneWord(after[k - 1], line[k])]
    BY <1>5
  <1>7. Meaning = after[n]
    BY <1>1 DEF Meaning
  <1>8. Reads(after)
    <2> HIDE DEF after
    <2> QED
      BY <1>1, <1>6 DEF Reads
  <1> QED
    BY <1>1, <1>7, <1>8

\* Nothing is read after an error, or the end of an option's argument.
LEMMA Ended ==
    ASSUME line \in Lines, NEW f, Reads(f), NEW p \in 0..Len(line), f[p].end # NULL
    PROVE  f[Len(line)] = f[p]
  <1> DEFINE n == Len(line)
             X == {i \in 0..n : i <= p \/ f[i] = f[p]}
  <1>1. n \in Nat
    BY LineIs
  <1>2. 0 \in X
    BY <1>1
  <1>3. ASSUME NEW i \in 1..n, i - 1 \in X PROVE i \in X
    <2>1. CASE i <= p
      BY <2>1
    <2>2. CASE i > p
      <3>1. f[i - 1] = f[p]
        <4>1. i - 1 <= p => i - 1 = p
          BY <1>1, <2>2
        <4> QED
          BY <1>3, <4>1
      <3>2. f[i] = OneWord(f[i - 1], line[i])
        BY DEF Reads
      <3>3. f[i] = f[p]
        BY <3>1, <3>2 DEF OneWord
      <3> QED
        BY <3>3, <1>1
    <2> QED
      BY <1>1, <2>1, <2>2
  <1>4. \A i \in 0..n : i \in X
    <2> HIDE DEF X, n
    <2> QED
      BY <1>1, <1>2, <1>3, TurnByTurn
  <1>5. n \in X
    BY <1>1, <1>4
  <1> QED
    BY <1>1, <1>5

LEMMA LettersEnded ==
    ASSUME NEW g, NEW acc, NEW letters, Len(letters) \in Nat, Spells(g, acc, letters),
           NEW p \in 0..Len(letters), g[p].end # NULL \/ g[p].taken
    PROVE  g[Len(letters)] = g[p]
  <1> DEFINE n == Len(letters)
             X == {i \in 0..n : i <= p \/ g[i] = g[p]}
  <1>1. n \in Nat
    OBVIOUS
  <1>2. 0 \in X
    BY <1>1
  <1>3. ASSUME NEW i \in 1..n, i - 1 \in X PROVE i \in X
    <2>1. CASE i <= p
      BY <2>1
    <2>2. CASE i > p
      <3>1. g[i - 1] = g[p]
        <4>1. i - 1 <= p => i - 1 = p
          BY <1>1, <2>2
        <4> QED
          BY <1>3, <4>1
      <3>2. g[i] = OneLetter(g[i - 1], letters[i])
        BY DEF Spells
      <3>3. g[i] = g[p]
        BY <3>1, <3>2 DEF OneLetter
      <3> QED
        BY <3>3, <1>1
    <2> QED
      BY <1>1, <2>1, <2>2
  <1>4. \A i \in 0..n : i \in X
    <2> HIDE DEF X, n
    <2> QED
      BY <1>1, <1>2, <1>3, TurnByTurn
  <1>5. n \in X
    BY <1>1, <1>4
  <1> QED
    BY <1>1, <1>5

\* The parts of what has been read, while only values are set; with an option
\* that wants its argument; with an argument among the letters; after a "--".
Parts(acc, values, left, want) ==
    /\ DOMAIN acc = {"settings", "left", "want", "stop", "taken", "end"}
    /\ acc.settings = values /\ acc.left = left /\ acc.want = want /\ acc.end = NULL
IsGoing(acc, values, left) == Parts(acc, values, left, 0) /\ ~acc.stop /\ ~acc.taken
IsStopped(acc, values, left) == Parts(acc, values, left, 0) /\ acc.stop /\ ~acc.taken
IsWanting(acc, values, left, i) == Parts(acc, values, left, i) /\ ~acc.stop /\ ~acc.taken

LEMMA BeginsGoing == IsGoing(Going(Defaults, 0), Defaults, 0)
  BY DEF IsGoing, Parts, Going

\* Words that are no options, before a "--" and after it.
LEMMA PlainWords ==
    ASSUME line \in Lines, ~posix, NEW f, Reads(f), NEW values, NEW left \in Nat,
           NEW p \in 0..Len(line), NEW m \in p..Len(line), IsGoing(f[p], values, left),
           \A i \in p + 1..m : line[i].dash = 0
    PROVE  IsGoing(f[m], values, left + (m - p))
  <1>1. PICK n \in Nat : n = Len(line)
    BY LineIs
  <1> DEFINE X == {i \in 0..m : i < p \/ IsGoing(f[i], values, left + (i - p))}
  <1>2. m \in Nat /\ p \in Nat /\ m <= n
    BY <1>1
  <1>3. p \in X
    <2>1. left + (p - p) = left
      BY <1>2
    <2> QED
      BY <1>2, <2>1
  <1>4. ASSUME NEW i \in 1..m, i - 1 \in X PROVE i \in X
    <2>1. CASE i <= p
      <3>1. i < p \/ i = p
        BY <2>1, <1>2
      <3> QED
        BY <3>1, <1>2, <1>3
    <2>2. CASE i > p
      <3>1. i - 1 >= p /\ i - 1 \in 0..m /\ i \in 1..n
        BY <1>2, <2>2
      <3>2. PICK c \in Nat : c = left + (i - 1 - p)
        BY <1>2, <3>1
      <3>3. IsGoing(f[i - 1], values, c)
        BY <1>2, <1>4, <3>1, <3>2
      <3>4. f[i] = OneWord(f[i - 1], line[i]) /\ line[i].dash = 0
        BY <1>1, <1>2, <2>2, <3>1 DEF Reads
      <3>5. f[i] = [f[i - 1] EXCEPT !.left = @ + 1, !.stop = @ \/ posix]
        BY <3>3, <3>4 DEF OneWord, IsGoing, Parts
      <3>6. IsGoing(f[i], values, c + 1)
        BY <3>3, <3>5 DEF IsGoing, Parts
      <3>7. c + 1 = left + (i - p)
        BY <1>2, <3>2
      <3> QED
        BY <1>2, <3>6, <3>7
    <2> QED
      BY <1>2, <2>1, <2>2
  <1>5. 0 \in X
    <2>1. 0 < p \/ p = 0
      BY <1>2
    <2> QED
      BY <2>1, <1>2, <1>3
  <1>6. \A i \in 0..m : i \in X
    <2> HIDE DEF X
    <2> QED
      BY <1>2, <1>5, <1>4, TurnByTurn
  <1>7. m \in X
    BY <1>2, <1>6
  <1> QED
    BY <1>2, <1>7

LEMMA WordsAfterStop ==
    ASSUME line \in Lines, NEW f, Reads(f), NEW values, NEW left \in Nat, NEW p \in 0..Len(line),
           IsStopped(f[p], values, left)
    PROVE  IsStopped(f[Len(line)], values, left + (Len(line) - p))
  <1>1. PICK n \in Nat : n = Len(line)
    BY LineIs
  <1> DEFINE X == {i \in 0..n : i < p \/ IsStopped(f[i], values, left + (i - p))}
  <1>2. p \in Nat /\ p <= n
    BY <1>1
  <1>3. p \in X
    <2>1. left + (p - p) = left
      BY <1>2
    <2> QED
      BY <1>2, <2>1
  <1>4. ASSUME NEW i \in 1..n, i - 1 \in X PROVE i \in X
    <2>1. CASE i <= p
      <3>1. i < p \/ i = p
        BY <2>1, <1>2
      <3> QED
        BY <3>1, <1>2, <1>3
    <2>2. CASE i > p
      <3>1. i - 1 >= p /\ i - 1 \in 0..n
        BY <1>2, <2>2
      <3>2. PICK c \in Nat : c = left + (i - 1 - p)
        BY <1>2, <3>1
      <3>3. IsStopped(f[i - 1], values, c)
        BY <1>2, <1>4, <3>1, <3>2
      <3>4. f[i] = OneWord(f[i - 1], line[i])
        BY <1>1 DEF Reads
      <3>5. f[i] = [f[i - 1] EXCEPT !.left = @ + 1, !.stop = @ \/ posix]
        BY <3>3, <3>4 DEF OneWord, IsStopped, Parts
      <3>6. IsStopped(f[i], values, c + 1)
        BY <3>3, <3>5 DEF IsStopped, Parts
      <3>7. c + 1 = left + (i - p)
        BY <1>2, <3>2
      <3> QED
        BY <1>2, <3>6, <3>7
    <2> QED
      BY <1>2, <2>1, <2>2
  <1>5. 0 \in X
    <2>1. 0 < p \/ p = 0
      BY <1>2
    <2> QED
      BY <2>1, <1>2, <1>3
  <1>6. \A i \in 0..n : i \in X
    <2> HIDE DEF X
    <2> QED
      BY <1>1, <1>5, <1>4, TurnByTurn
  <1>7. n \in X
    BY <1>1, <1>6
  <1> QED
    BY <1>1, <1>2, <1>7

\* What has been read is that an option i has got text as its argument.
HasSet(acc, values, left, i, text) ==
    LET opt == Table[i] IN
    /\ opt.kind = "usage" => acc.end = "usage"
    /\ opt.kind # "usage" /\ Accepts(opt.kind, text) =>
          IsGoing(acc, [values EXCEPT ![opt.target] = Value(opt.kind, text)], left)
    /\ opt.kind # "usage" /\ ~Accepts(opt.kind, text) => acc.end = "error"

LEMMA SetIs ==
    ASSUME NEW a, NEW values, NEW left, NEW i, NEW text, IsGoing(a, values, left)
    PROVE  HasSet(Set(a, i, text), values, left, i, text)
  BY DEF HasSet, Set, IsGoing, Parts

LEMMA SetWanted ==
    ASSUME NEW a, NEW values, NEW left, NEW i, NEW text, IsWanting(a, values, left, i)
    PROVE  HasSet([Set(a, i, text) EXCEPT !.want = 0], values, left, i, text)
  BY DEF HasSet, Set, IsWanting, IsGoing, Parts

LEMMA SetFromLetters ==
    ASSUME NEW a, NEW values, NEW left, NEW i, NEW text, IsWanting(a, values, left, i),
           NEW b, b = [Set(a, i, text) EXCEPT !.want = 0, !.taken = TRUE]
    PROVE  b.taken /\ HasSet([b EXCEPT !.taken = FALSE], values, left, i, text)
  BY DEF HasSet, Set, IsWanting, IsGoing, Parts

\* The next letter.
LEMMA NextLetter ==
    ASSUME NEW a, NEW values, NEW left, NEW letter, NEW i, i = ShortOpt(letter),
           IsGoing(a, values, left)
    PROVE  /\ i = 0 => OneLetter(a, letter).end = "error"
           /\ i # 0 /\ NoArg(Table[i]) => OneLetter(a, letter) = Set(a, i, NULL)
           /\ i # 0 /\ ~NoArg(Table[i]) => IsWanting(OneLetter(a, letter), values, left, i)
  <1>1. a.end = NULL /\ ~a.taken /\ a.want = 0
    BY DEF IsGoing, Parts
  <1>2. OneLetter(a, letter) = IF i = 0 THEN [a EXCEPT !.end = "error"]
                               ELSE IF NoArg(Table[i]) THEN Set(a, i, NULL) ELSE [a EXCEPT !.want = i]
    BY <1>1 DEF OneLetter
  <1> QED
    BY <1>2 DEF IsGoing, IsWanting, Parts

AfterWord(acc) == [acc EXCEPT !.taken = FALSE]

\* One letter of a word -abc, for option i: what it means for the word, and for
\* the letters so far.
LetterMeans(word, after, m, n, values, left, i) ==
    /\ i = 0 => word.end = "error"
    /\ i # 0 /\ NoArg(Table[i]) =>
          /\ m = n => HasSet(word, values, left, i, NULL)
          /\ HasSet(after, values, left, i, NULL)
          /\ after.end # NULL => word.end = after.end
    /\ i # 0 /\ ~NoArg(Table[i]) =>
          /\ m # n => HasSet(word, values, left, i, Dashed)
          /\ m = n => IsWanting(word, values, left, i)

LEMMA LetterOfWord ==
    ASSUME line \in Lines, NEW letters, NEW n \in Nat, n = Len(letters), NEW g, NEW acc,
           Spells(g, acc, letters), NEW word, word = AfterWord(g[n]),
           NEW o \in Nat, NEW m \in 1..n, m = o + 1, NEW values, NEW left, IsGoing(g[o], values, left),
           NEW i, i = ShortOpt(letters[m])
    PROVE  LetterMeans(word, g[m], m, n, values, left, i)
  <1>1. n = Len(letters) /\ m = o + 1
    OBVIOUS
  <1>2. m \in 1..n /\ m - 1 = o /\ m \in 0..n
    BY <1>1
  <1>3. g[m] = OneLetter(g[o], letters[m])
    BY <1>1, <1>2 DEF Spells
  <1>4. /\ i = 0 => g[m].end = "error"
        /\ i # 0 /\ NoArg(Table[i]) => g[m] = Set(g[o], i, NULL)
        /\ i # 0 /\ ~NoArg(Table[i]) => IsWanting(g[m], values, left, i)
    BY <1>1, <1>3, NextLetter
  <1>5. ASSUME g[m].end # NULL \/ g[m].taken PROVE g[n] = g[m]
    BY <1>1, <1>2, <1>5, LettersEnded
  <1>6. word.end = g[n].end
    BY <1>1 DEF AfterWord
  <1>7. NULL # "error"
    BY LinesAssumption
  <1>8. CASE i = 0
    BY <1>4, <1>5, <1>6, <1>7, <1>8 DEF LetterMeans
  <1>9. CASE i # 0 /\ NoArg(Table[i])
    <2>1. HasSet(g[m], values, left, i, NULL)
      BY <1>4, <1>9, SetIs
    <2>2. g[m].end # NULL => word.end = g[m].end
      BY <1>5, <1>6
    <2>3. ASSUME m = n PROVE HasSet(word, values, left, i, NULL)
      <3>1. word = [g[m] EXCEPT !.taken = FALSE] /\ word.end = g[m].end
        BY <1>1, <1>6, <2>3 DEF AfterWord
      <3>2. ASSUME NEW v, IsGoing(g[m], v, left) PROVE IsGoing(word, v, left)
        BY <3>1, <3>2 DEF IsGoing, Parts
      <3> QED
        BY <2>1, <3>1, <3>2 DEF HasSet
    <2> QED
      BY <1>1, <1>9, <2>1, <2>2, <2>3 DEF LetterMeans
  <1>10. CASE i # 0 /\ ~NoArg(Table[i])
    <2>1. IsWanting(g[m], values, left, i)
      BY <1>4, <1>10
    <2>2. ASSUME m = n PROVE IsWanting(word, values, left, i)
      <3>1. word = [g[m] EXCEPT !.taken = FALSE]
        BY <1>1, <2>2 DEF AfterWord
      <3> QED
        BY <2>1, <3>1 DEF IsWanting, Parts
    <2>3. ASSUME m < n PROVE HasSet(word, values, left, i, Dashed)
      <3>1. PICK k \in Nat : k = m + 1
        OBVIOUS
      <3>2. k \in 1..n /\ k - 1 = m /\ k \in 0..n
        BY <2>3, <3>1
      <3>3. g[k] = OneLetter(g[m], letters[k])
        BY <1>1, <3>2 DEF Spells
      <3>4. g[k] = [Set(g[m], i, Dashed) EXCEPT !.want = 0, !.taken = TRUE]
        <4>1. PICK x, letter : x = g[m] /\ letter = letters[k]
          OBVIOUS
        <4>2. IsWanting(x, values, left, i) /\ i # 0
          BY <1>10, <2>1, <4>1
        <4>3. OneLetter(x, letter) = [Set(x, i, Dashed) EXCEPT !.want = 0, !.taken = TRUE]
          BY <4>2 DEF OneLetter, IsWanting, Parts
        <4> QED
          BY <3>3, <4>1, <4>3
      <3>5. g[k].taken /\ HasSet([g[k] EXCEPT !.taken = FALSE], values, left, i, Dashed)
        BY <2>1, <3>4, SetFromLetters
      <3>6. g[n] = g[k]
        BY <1>1, <3>2, <3>5, LettersEnded
      <3>7. word = [g[k] EXCEPT !.taken = FALSE]
        BY <1>1, <3>6 DEF AfterWord
      <3> QED
        BY <3>5, <3>7
    <2> QED
      BY <1>1, <1>2, <1>10, <2>2, <2>3 DEF LetterMeans
  <1> QED
    BY <1>8, <1>9, <1>10

\* argv: l words that are no options, then all after the p-th of the line.
Rest(words, l, p) ==
    /\ l \in Nat /\ p \in 0..Len(line) /\ words \in Seq(Nat)
    /\ Len(words) = l + (Len(line) - p)
    /\ posix => l = 0
    /\ \A j \in 1..l : line[words[j]].dash = 0
    /\ \A j \in l + 1..Len(words) : words[j] = p + (j - l)

LEMMA FirstIs ==
    ASSUME NEW found \in SUBSET (Nat \ {0})
    PROVE  \/ FirstOf(found) = 0 /\ found = {}
           \/ /\ FirstOf(found) \in found /\ FirstOf(found) # 0
              /\ \A j \in found : FirstOf(found) <= j
  <1>1. CASE found = {}
    BY <1>1 DEF FirstOf
  <1>2. CASE found # {}
    <2>1. \E i \in found : \A j \in found : i <= j
      <3>1. found \in SUBSET Nat
        OBVIOUS
      <3> QED
        BY <1>2, <3>1, LeastNatural
    <2>2. FirstOf(found) = CHOOSE i \in found : \A j \in found : i <= j
      BY <1>2 DEF FirstOf
    <2> QED
      BY <2>1, <2>2
  <1> QED
    BY <1>1, <1>2

LEMMA NextOptionIs ==
    ASSUME line \in Lines, posix \in BOOLEAN, NEW words, NEW l, NEW p, Rest(words, l, p),
           NEW k, k = NextOption(line, words, posix)
    PROVE  \/ /\ k = 0
              /\ \A j \in 1..Len(words) : (posix => j = 1) => line[words[j]].dash = 0
           \/ /\ k \in l + 1..Len(words) /\ (posix => k = 1)
              /\ line[words[k]].dash \in {1, 2}
              /\ \A j \in 1..k - 1 : line[words[j]].dash = 0
  <1>1. PICK n \in Nat : n = Len(line) /\ \A i \in 1..n : line[i].dash \in {0, 1, 2}
    BY LineIs
  <1>2. PICK m \in Nat : m = Len(words) /\ DOMAIN words = 1..m
    BY DEF Rest
  <1>3. ASSUME NEW j \in 1..m PROVE line[words[j]].dash \in {0, 1, 2}
    <2>1. CASE j <= l
      BY <2>1, <1>3 DEF Rest
    <2>2. CASE j > l
      <3>1. words[j] = p + (j - l) /\ j <= l + (n - p) /\ p \in 0..n /\ l \in Nat
        BY <1>1, <1>2, <2>2, <1>3 DEF Rest
      <3> QED
        BY <1>1, <2>2, <3>1
    <2> QED
      BY <1>2, <2>1, <2>2 DEF Rest
  <1> DEFINE dashes == {j \in DOMAIN words : line[words[j]].dash > 0}
             found == IF posix THEN dashes \cap {1} ELSE dashes
  <1>4. k = FirstOf(found)
    BY DEF NextOption
  <1>5. \A j \in 1..m : j \in dashes <=> line[words[j]].dash # 0
    BY <1>2, <1>3
  <1>6. dashes \subseteq 1..m
    BY <1>2
  <1>7. found \in SUBSET (Nat \ {0})
    BY <1>6, <1>2
  <1>8. \A j \in 1..m : j \in found <=> line[words[j]].dash # 0 /\ (posix => j = 1)
    BY <1>5
  <1>9. found \subseteq 1..m
    BY <1>6
  <1> HIDE DEF dashes, found
  <1>10. CASE k = 0 /\ found = {}
    BY <1>2, <1>8, <1>10
  <1>11. CASE k \in found /\ \A j \in found : k <= j
    <2>1. k \in 1..m /\ line[words[k]].dash \in {1, 2} /\ (posix => k = 1)
      BY <1>3, <1>8, <1>9, <1>11
    <2>2. ASSUME NEW j \in 1..k - 1 PROVE line[words[j]].dash = 0
      <3>2. j \in 1..m /\ ~(k <= j)
        BY <1>2, <2>1
      <3>3. j \notin found
        BY <1>11, <3>2
      <3>4. ~posix
        <4>1. k # 1
          BY <1>2, <2>1
        <4> QED
          BY <2>1, <4>1
      <3> QED
        BY <1>8, <3>2, <3>3, <3>4
    <2>3. ~(k <= l)
      <3>1. ASSUME k <= l PROVE FALSE
        <4>1. k \in 1..l
          BY <2>1, <3>1, <1>2 DEF Rest
        <4> QED
          BY <2>1, <4>1 DEF Rest
      <3> QED
        BY <3>1
    <2>4. k \in l + 1..Len(words)
      BY <1>2, <2>1, <2>3 DEF Rest
    <2> QED
      BY <2>1, <2>2, <2>4
  <1> QED
    BY <1>4, <1>7, <1>10, <1>11, FirstIs

LEMMA SecondPart ==
    ASSUME NEW a \in Seq(Nat), NEW b \in Seq(Nat), NEW i \in 1..Len(b)
    PROVE  (a \o b)[Len(a) + i] = b[i]
  OBVIOUS

LEMMA RemovedAt ==
    ASSUME NEW words \in Seq(Nat), NEW k \in 1..Len(words)
    PROVE  /\ Consume(words, k) \in Seq(Nat) /\ Len(Consume(words, k)) = Len(words) - 1
           /\ \A j \in 1..k - 1 : Consume(words, k)[j] = words[j]
           /\ \A j \in k..Len(words) - 1 : Consume(words, k)[j] = words[j + 1]
  <1>1. PICK m \in Nat : m = Len(words) /\ k \in 1..m
    OBVIOUS
  <1>2. PICK a, b : a = SubSeq(words, 1, k - 1) /\ b = SubSeq(words, k + 1, m)
    OBVIOUS
  <1>3. Consume(words, k) = a \o b
    BY <1>1, <1>2 DEF Consume, RemoveAt
  <1>4. a \in Seq(Nat) /\ Len(a) = k - 1 /\ \A j \in 1..k - 1 : a[j] = words[j]
    <2>1. 1 \in Int /\ k - 1 \in Int /\ 1..k - 1 \subseteq 1..m
      BY <1>1
    <2> QED
      BY <1>1, <1>2, <2>1
  <1>5. b \in Seq(Nat) /\ Len(b) = m - k /\ \A j \in 1..m - k : b[j] = words[k + j]
    <2>1. k + 1 \in Int /\ m \in Int /\ k + 1..m \subseteq 1..m
      BY <1>1
    <2>2. b \in Seq(Nat) /\ Len(b) = m - k
      BY <1>1, <1>2, <2>1
    <2>3. ASSUME NEW j \in 1..m - k PROVE b[j] = words[k + j]
      BY <1>1, <1>2, <2>1
    <2> QED
      BY <2>2, <2>3
  <1>6. PICK rest : rest = a \o b
    OBVIOUS
  <1>7. rest \in Seq(Nat) /\ Len(rest) = m - 1
    BY <1>1, <1>4, <1>5, <1>6
  <1>8. \A j \in 1..k - 1 : rest[j] = words[j]
    BY <1>1, <1>4, <1>5, <1>6
  <1>9. ASSUME NEW j \in k..m - 1 PROVE rest[j] = words[j + 1]
    <2>1. PICK i \in 1..m - k : i = j - (k - 1)
      BY <1>1
    <2>2. j = Len(a) + i /\ i \in 1..Len(b)
      BY <1>1, <1>4, <1>5, <2>1
    <2>3. rest[j] = b[i]
      <3>1. (a \o b)[Len(a) + i] = b[i]
        <4>1. a \in Seq(Nat) /\ b \in Seq(Nat) /\ i \in 1..Len(b)
          BY <1>4, <1>5, <2>2
        <4> QED
          BY <4>1, SecondPart
      <3> QED
        BY <1>6, <2>2, <3>1
    <2>4. k + i = j + 1
      BY <1>1, <2>1
    <2> QED
      BY <1>5, <2>1, <2>3, <2>4
  <1> QED
    BY <1>1, <1>3, <1>6, <1>7, <1>8, <1>9

LEMMA ConsumeIs ==
    ASSUME line \in Lines, NEW words, NEW l, NEW p, Rest(words, l, p),
           NEW k \in l + 1..Len(words), posix => k = 1,
           \A j \in 1..k - 1 : line[words[j]].dash = 0
    PROVE  Rest(Consume(words, k), k - 1, p + (k - l))
  <1>1. PICK n \in Nat, m \in Nat : n = Len(line) /\ m = Len(words)
    <2>1. Len(line) \in Nat
      BY LineIs
    <2>2. Len(words) \in Nat
      BY DEF Rest
    <2> QED
      BY <2>1, <2>2
  <1>2. /\ l \in Nat /\ p \in 0..n /\ m = l + (n - p) /\ words \in Seq(Nat)
        /\ \A j \in l + 1..m : words[j] = p + (j - l)
    BY <1>1 DEF Rest
  <1>3. k \in 1..m /\ k > l
    BY <1>1, <1>2
  <1>4. PICK rest : rest = Consume(words, k)
    OBVIOUS
  <1>5. /\ rest \in Seq(Nat) /\ Len(rest) = m - 1
        /\ \A j \in 1..k - 1 : rest[j] = words[j]
        /\ \A j \in k..m - 1 : rest[j] = words[j + 1]
    <2>1. words \in Seq(Nat) /\ k \in 1..Len(words)
      BY <1>1, <1>2, <1>3
    <2>2. /\ Consume(words, k) \in Seq(Nat) /\ Len(Consume(words, k)) = Len(words) - 1
          /\ \A j \in 1..k - 1 : Consume(words, k)[j] = words[j]
          /\ \A j \in k..Len(words) - 1 : Consume(words, k)[j] = words[j + 1]
      BY <2>1, RemovedAt
    <2> QED
      BY <1>1, <1>4, <2>2
  <1>11. ASSUME NEW j \in k..m - 1 PROVE rest[j] = p + (k - l) + (j - (k - 1))
    <2>1. j + 1 \in l + 1..m
      BY <1>2, <1>3
    <2>2. words[j + 1] = p + (j + 1 - l)
      BY <1>2, <2>1
    <2>3. p + (j + 1 - l) = p + (k - l) + (j - (k - 1))
      BY <1>2, <1>3
    <2> QED
      BY <1>5, <2>2, <2>3
  <1>12. p + (k - l) \in 0..n /\ k - 1 \in Nat /\ m - 1 = (k - 1) + (n - (p + (k - l)))
    BY <1>2, <1>3
  <1>13. \A j \in (k - 1) + 1..Len(rest) : rest[j] = (p + (k - l)) + (j - (k - 1))
    <2>1. (k - 1) + 1 = k
      BY <1>3
    <2> QED
      BY <1>5, <1>11, <2>1
  <1>14. \A j \in 1..k - 1 : line[rest[j]].dash = 0
    BY <1>5
  <1>15. posix => k - 1 = 0
    OBVIOUS
  <1> QED
    BY <1>1, <1>4, <1>5, <1>12, <1>13, <1>14, <1>15 DEF Rest

\* Where the option that is found is, and what has been read before it.
OptionIs(f, k, q, l, p, values) ==
    /\ q = p + (k - l) /\ q \in 1..Len(line) /\ k \in Nat \ {0}
    /\ k = Len(argv) => q = Len(line)
    /\ k < Len(argv) => q < Len(line) /\ argv[k + 1] = q + 1
    /\ IsGoing(f[q - 1], values, k - 1)
    /\ f[q] = OneWord(f[q - 1], line[q])

LEMMA OptionAt ==
    ASSUME line \in Lines, posix \in BOOLEAN, NEW f, Reads(f), NEW l, NEW p, Rest(argv, l, p),
           NEW values, IsGoing(f[p], values, l),
           NEW k \in l + 1..Len(argv), posix => k = 1,
           \A j \in 1..k - 1 : line[argv[j]].dash = 0,
           NEW q, q = argv[k]
    PROVE  OptionIs(f, k, q, l, p, values)
  <1>1. PICK n \in Nat, m \in Nat : n = Len(line) /\ m = Len(argv)
    <2>1. Len(line) \in Nat
      BY LineIs
    <2>2. Len(argv) \in Nat
      BY DEF Rest
    <2> QED
      BY <2>1, <2>2
  <1>2. /\ l \in Nat /\ p \in 0..n /\ m = l + (n - p)
        /\ \A j \in l + 1..m : argv[j] = p + (j - l)
        /\ posix => l = 0
    BY <1>1 DEF Rest
  <1>3. k \in 1..m /\ k > l
    BY <1>1, <1>2
  <1>4. q = p + (k - l) /\ q \in 1..n
    BY <1>2, <1>3
  <1>5. k < m => q < n /\ argv[k + 1] = q + 1
    <2>1. ASSUME k < m PROVE argv[k + 1] = p + ((k + 1) - l)
      <3>1. k + 1 \in l + 1..m
        BY <1>2, <1>3, <2>1
      <3> QED
        BY <1>2, <3>1
    <2> QED
      BY <1>2, <1>3, <1>4, <2>1
  <1>6. IsGoing(f[q - 1], values, k - 1)
    <2>1. CASE posix
      <3>1. q - 1 = p /\ k - 1 = l
        BY <1>2, <1>4, <2>1
      <3> QED
        BY <3>1
    <2>2. CASE ~posix
      <3>1. q - 1 \in p..n /\ l + (q - 1 - p) = k - 1
        BY <1>2, <1>3, <1>4
      <3>2. ASSUME NEW i \in p + 1..q - 1 PROVE line[i].dash = 0
        <4>1. PICK j \in Int : j = i - p + l
          BY <1>2
        <4>2. j \in 1..k - 1 /\ j \in l + 1..m
          BY <1>2, <1>3, <1>4, <4>1
        <4>3. argv[j] = i
          BY <1>2, <4>1, <4>2
        <4> QED
          BY <4>2, <4>3
      <3>3. PICK e \in p..n : e = q - 1
        BY <3>1
      <3>4. IsGoing(f[e], values, l + (e - p))
        BY <1>1, <1>2, <2>2, <3>2, <3>3, PlainWords
      <3> QED
        BY <3>1, <3>3, <3>4
    <2> QED
      BY <2>1, <2>2
  <1>7. f[q] = OneWord(f[q - 1], line[q])
    BY <1>1, <1>4 DEF Reads
  <1> QED
    BY <1>1, <1>2, <1>3, <1>4, <1>5, <1>6, <1>7 DEF OptionIs

\* A word with letters.
LEMMA WordOfLetters ==
    ASSUME line \in Lines, NEW before, NEW values, NEW left, IsGoing(before, values, left),
           NEW q \in 1..Len(line), line[q].dash = 1, NEW letters, letters = line[q].letters
    PROVE  /\ Len(letters) \in Nat
           /\ Len(letters) = 0 => OneWord(before, line[q]).end = "error"
           /\ Len(letters) > 0 =>
                 \E g : /\ Spells(g, before, letters)
                        /\ OneWord(before, line[q]) = AfterWord(g[Len(letters)])
  <1>1. Len(letters) \in Nat /\ IsSequence(letters)
    BY LineIs
  <1>2. letters = <<>> <=> Len(letters) = 0
    BY <1>1 DEF IsSequence
  <1>3. before.end = NULL /\ before.want = 0 /\ ~before.stop
    BY DEF IsGoing, Parts
  <1>4. OneWord(before, line[q]) =
           IF letters = <<>> THEN [before EXCEPT !.end = "error"]
           ELSE AfterWord(AllLetters(before, letters))
    BY <1>3 DEF OneWord, AfterWord
  <1>5. CASE Len(letters) = 0
    <2>1. [before EXCEPT !.end = "error"].end = "error"
      BY DEF IsGoing, Parts
    <2> QED
      BY <1>1, <1>2, <1>4, <1>5, <2>1
  <1>6. CASE Len(letters) # 0
    <2>1. PICK g : Spells(g, before, letters) /\ AllLetters(before, letters) = g[Len(letters)]
      BY <1>1, LettersAre
    <2>2. OneWord(before, line[q]) = AfterWord(g[Len(letters)])
      BY <1>2, <1>4, <1>6, <2>1
    <2> QED
      BY <1>1, <1>6, <2>1, <2>2
  <1> QED
    BY <1>5, <1>6

\* A word with a name, and the word after an option that wants one.
LEMMA LongWord ==
    ASSUME NEW before, NEW values, NEW left, IsGoing(before, values, left),
           NEW word, word.dash = 2, NEW i, i = LongOpt(word.name)
    PROVE  /\ word.name = "" => IsStopped(OneWord(before, word), values, left)
           /\ word.name # "" /\ i = 0 => OneWord(before, word).end = "error"
           /\ word.name # "" /\ NoArg(Table[i]) /\ word.eq => OneWord(before, word).end = "error"
           /\ word.name # "" /\ i # 0 /\ NoArg(Table[i]) /\ ~word.eq =>
                 HasSet(OneWord(before, word), values, left, i, NULL)
           /\ word.name # "" /\ i # 0 /\ ~NoArg(Table[i]) /\ word.eq =>
                 HasSet(OneWord(before, word), values, left, i, word.text)
           /\ word.name # "" /\ i # 0 /\ ~NoArg(Table[i]) /\ ~word.eq =>
                 IsWanting(OneWord(before, word), values, left, i)
  <1>1. before.end = NULL /\ before.want = 0 /\ ~before.stop
    BY DEF IsGoing, Parts
  <1>2. OneWord(before, word) =
           IF word.name = "" THEN [before EXCEPT !.stop = TRUE]
           ELSE IF i = 0 \/ (NoArg(Table[i]) /\ word.eq) THEN [before EXCEPT !.end = "error"]
           ELSE IF NoArg(Table[i]) THEN Set(before, i, NULL)
           ELSE IF word.eq THEN Set(before, i, word.text) ELSE [before EXCEPT !.want = i]
    BY <1>1 DEF OneWord
  <1>3. IsStopped([before EXCEPT !.stop = TRUE], values, left)
    BY DEF IsGoing, IsStopped, Parts
  <1>4. [before EXCEPT !.end = "error"].end = "error"
    BY DEF IsGoing, Parts
  <1>5. IsWanting([before EXCEPT !.want = i], values, left, i)
    BY DEF IsGoing, IsWanting, Parts
  <1>6. /\ HasSet(Set(before, i, NULL), values, left, i, NULL)
        /\ HasSet(Set(before, i, word.text), values, left, i, word.text)
    BY SetIs
  <1> QED
    BY <1>2, <1>3, <1>4, <1>5, <1>6

LEMMA WantedWord ==
    ASSUME NEW before, NEW values, NEW left, NEW i, i # 0, IsWanting(before, values, left, i), NEW word
    PROVE  HasSet(OneWord(before, word), values, left, i, TextOf(word))
  <1>1. OneWord(before, word) = [Set(before, i, TextOf(word)) EXCEPT !.want = 0]
    BY DEF OneWord, IsWanting, Parts
  <1> QED
    BY <1>1, SetWanted

\* What parse_one does, and what the words mean: it is done, it fails, or it calls
\* the callback of the option that has got its argument.
Finished(f, words) == words \in Seq(Nat) /\ Parts(f[Len(line)], settings, Len(words), 0)
Failed(f) == f[Len(line)].end = "error" \/ f[Len(line)].want # 0
Called(f, r) ==
    /\ r.offset = 0
    /\ \E q \in 0..Len(line) : \E left :
          Rest(r.argv, left, q) /\ HasSet(f[q], settings, left, r.opt, r.text)

LEMMA FailedAt ==
    ASSUME line \in Lines, NEW f, Reads(f), NEW q \in 0..Len(line), f[q].end = "error"
    PROVE  Failed(f)
  <1>1. f[q].end # NULL
    BY LinesAssumption
  <1> QED
    BY <1>1, Ended DEF Failed

LEMMA NoOptionLeft ==
    ASSUME line \in Lines, posix \in BOOLEAN, NEW f, Reads(f), NEW l, NEW p, Rest(argv, l, p),
           IsGoing(f[p], settings, l),
           \A j \in 1..Len(argv) : (posix => j = 1) => line[argv[j]].dash = 0
    PROVE  Finished(f, argv)
  <1>1. PICK n \in Nat, m \in Nat : n = Len(line) /\ m = Len(argv)
    <2>1. Len(line) \in Nat
      BY LineIs
    <2>2. Len(argv) \in Nat
      BY DEF Rest
    <2> QED
      BY <2>1, <2>2
  <1>2. /\ l \in Nat /\ p \in 0..n /\ m = l + (n - p) /\ argv \in Seq(Nat)
        /\ \A j \in l + 1..m : argv[j] = p + (j - l)
        /\ posix => l = 0
    BY <1>1 DEF Rest
  <1>3. CASE ~posix
    <2>1. ASSUME NEW i \in p + 1..n PROVE line[i].dash = 0
      <3>1. PICK j \in Int : j = i - p + l
        BY <1>2
      <3>2. j \in 1..m /\ j \in l + 1..m
        BY <1>2, <3>1
      <3>3. argv[j] = i
        BY <1>2, <3>1, <3>2
      <3> QED
        BY <1>1, <1>3, <3>2, <3>3
    <2>2. n \in p..n
      BY <1>2
    <2>3. IsGoing(f[n], settings, l + (n - p))
      BY <1>1, <1>2, <1>3, <2>1, <2>2, PlainWords
    <2> QED
      BY <1>1, <1>2, <2>3 DEF Finished, IsGoing
  <1>4. CASE posix /\ p = n
    <2>1. l = m /\ f[p] = f[n]
      BY <1>2, <1>4
    <2> QED
      BY <1>1, <1>2, <2>1 DEF Finished, IsGoing
  <1>5. CASE posix /\ p < n
    <2>1. l = 0 /\ m = n - p /\ 1 \in l + 1..m /\ 1 \in 1..m
      BY <1>2, <1>5
    <2>2. argv[1] = p + 1
      BY <1>2, <2>1
    <2>3. PICK q \in 1..n : q = p + 1 /\ q - 1 = p
      BY <1>2, <1>5
    <2>4. line[q].dash = 0
      BY <1>1, <2>1, <2>2, <2>3
    <2>5. f[q] = OneWord(f[p], line[q])
      BY <1>1, <2>3 DEF Reads
    <2>6. f[q] = [f[p] EXCEPT !.left = @ + 1, !.stop = @ \/ posix]
      BY <2>4, <2>5 DEF OneWord, IsGoing, Parts
    <2>7. IsStopped(f[q], settings, 1)
      <3>1. PICK a : a = f[p]
        OBVIOUS
      <3>2. Parts(a, settings, 0, 0) /\ ~a.stop /\ ~a.taken
        BY <2>1, <3>1 DEF IsGoing
      <3>8. PICK b : b = f[q]
        OBVIOUS
      <3>3. PICK c \in Nat : c = 0
        OBVIOUS
      <3>4. b = [a EXCEPT !.left = @ + 1, !.stop = @ \/ posix] /\ Parts(a, settings, c, 0)
        BY <2>6, <3>8, <3>1, <3>2, <3>3
      <3>5. Parts(b, settings, c + 1, 0) /\ ~b.taken
        BY <3>2, <3>4 DEF Parts
      <3>6. b.stop
        BY <1>5, <3>2, <3>4 DEF Parts
      <3>7. c + 1 = 1
        BY <3>3
      <3> QED
        BY <3>8, <3>5, <3>6, <3>7 DEF IsStopped
    <2>8. q \in 0..n /\ 1 \in Nat /\ 1 + (n - q) = m
      BY <1>2, <2>1, <2>3
    <2>9. IsStopped(f[n], settings, 1 + (n - q))
      BY <1>1, <2>7, <2>8, WordsAfterStop
    <2> QED
      BY <1>1, <1>2, <2>8, <2>9 DEF Finished, IsStopped
  <1> QED
    BY <1>2, <1>3, <1>4, <1>5

\* The next option is the k-th word of argv and the q-th of the line.
IsAt(k, q) ==
    /\ k \in 1..Len(argv) /\ q = argv[k] /\ Rest(Consume(argv, k), k - 1, q)
    /\ k = Len(argv) => q = Len(line)
    /\ k < Len(argv) => q < Len(line) /\ argv[k + 1] = q + 1
    /\ posix => k = 1

\* An option that takes the next word.
LEMMA NextWordWanted ==
    ASSUME line \in Lines, NEW f, Reads(f), NEW k \in Nat \ {0}, NEW q \in 1..Len(line), IsAt(k, q),
           NEW i, i # 0, IsWanting(f[q], settings, k - 1, i),
           NEW r, r = WithNext(line, argv, k, i)
    PROVE  \/ r.what = "error" /\ Failed(f)
           \/ r.what = "call" /\ Called(f, r)
  <1>1. PICK n \in Nat : n = Len(line) /\ q \in 1..n
    BY LineIs
  <1>2. CASE k = Len(argv)
    <2>1. r.what = "error"
      BY <1>2 DEF WithNext, Outcome
    <2>2. f[n].want = i
      BY <1>1, <1>2 DEF IsWanting, Parts, IsAt
    <2> QED
      BY <1>1, <2>1, <2>2 DEF Failed
  <1>3. CASE k # Len(argv)
    <2>1. k < Len(argv)
      BY <1>3 DEF IsAt
    <2>2. PICK e \in 1..n : e = q + 1 /\ e - 1 = q /\ argv[k + 1] = e
      BY <1>1, <2>1 DEF IsAt
    <2>3. PICK words : words = Consume(argv, k)
      OBVIOUS
    <2>4. r = Call(i, TextOf(line[e]), Consume(words, k), 0)
      BY <1>3, <2>2, <2>3 DEF WithNext
    <2>5. r.what = "call" /\ r.offset = 0 /\ r.opt = i /\ r.text = TextOf(line[e]) /\ r.argv = Consume(words, k)
      BY <2>4 DEF Call
    <2>6. f[e] = OneWord(f[q], line[e])
      BY <1>1, <2>2 DEF Reads
    <2>7. HasSet(f[e], settings, k - 1, i, TextOf(line[e]))
      BY <2>6, WantedWord
    <2>8. PICK c \in Nat : c = k - 1
      OBVIOUS
    <2>9. Rest(words, c, q) /\ Len(words) = c + (n - q)
      BY <1>1, <2>3, <2>8 DEF Rest, IsAt
    <2>10. k \in c + 1..Len(words)
      BY <1>1, <2>2, <2>8, <2>9
    <2>11. \A j \in 1..k - 1 : line[words[j]].dash = 0
      BY <2>8, <2>9 DEF Rest
    <2>12. Rest(Consume(words, k), k - 1, q + (k - c))
      BY <2>9, <2>10, <2>11, ConsumeIs DEF IsAt
    <2>13. q + (k - c) = e
      BY <1>1, <2>2, <2>8
    <2> QED
      BY <1>1, <2>2, <2>5, <2>7, <2>12, <2>13 DEF Called
  <1> QED
    BY <1>2, <1>3

\* The words "--" and "--name", when the option is at k.
LongResult(k) ==
    IF line[argv[k]].name = "" THEN Outcome("done", Consume(argv, k)) ELSE ParseLong(line, argv, k)

LEMMA LongOption ==
    ASSUME line \in Lines, NEW f, Reads(f), NEW k \in Nat \ {0}, NEW q \in 1..Len(line), IsAt(k, q),
           IsGoing(f[q - 1], settings, k - 1), line[q].dash = 2,
           NEW r, r = LongResult(k)
    PROVE  \/ r.what = "done" /\ Finished(f, r.argv)
           \/ r.what = "error" /\ Failed(f)
           \/ r.what = "call" /\ Called(f, r)
  <1>1. PICK n \in Nat : n = Len(line) /\ q \in 1..n /\ q \in 0..n
    <2>1. Len(line) \in Nat
      BY LineIs
    <2> QED
      BY <2>1
  <1>2. PICK i : i = LongOpt(line[q].name)
    OBVIOUS
  <1>3. PICK word, before : word = line[q] /\ before = f[q - 1]
    OBVIOUS
  <1>4. f[q] = OneWord(before, word)
    BY <1>1, <1>3 DEF Reads
  <1>5. /\ word.name = "" => IsStopped(f[q], settings, k - 1)
        /\ word.name # "" /\ i = 0 => f[q].end = "error"
        /\ word.name # "" /\ NoArg(Table[i]) /\ word.eq => f[q].end = "error"
        /\ word.name # "" /\ i # 0 /\ NoArg(Table[i]) /\ ~word.eq =>
              HasSet(f[q], settings, k - 1, i, NULL)
        /\ word.name # "" /\ i # 0 /\ ~NoArg(Table[i]) /\ word.eq =>
              HasSet(f[q], settings, k - 1, i, word.text)
        /\ word.name # "" /\ i # 0 /\ ~NoArg(Table[i]) /\ ~word.eq =>
              IsWanting(f[q], settings, k - 1, i)
    <2>1. IsGoing(before, settings, k - 1) /\ word.dash = 2 /\ i = LongOpt(word.name)
      BY <1>2, <1>3
    <2>2. PICK b : b = OneWord(before, word)
      OBVIOUS
    <2>3. PICK c : c = k - 1
      OBVIOUS
    <2> QED
      BY <1>4, <2>1, <2>2, <2>3, LongWord
  <1>6. CASE word.name = ""
    <2>1. r.what = "done" /\ r.argv = Consume(argv, k)
      BY <1>3, <1>6 DEF Outcome, LongResult, IsAt
    <2>2. PICK c \in Nat : c = k - 1
      OBVIOUS
    <2>5. PICK words : words = Consume(argv, k)
      OBVIOUS
    <2>3. Rest(words, c, q) /\ Len(words) = c + (n - q) /\ words \in Seq(Nat)
      BY <1>1, <2>2, <2>5 DEF Rest, IsAt
    <2>4. IsStopped(f[n], settings, c + (n - q))
      BY <1>1, <1>5, <1>6, <2>2, WordsAfterStop
    <2> QED
      BY <1>1, <2>1, <2>3, <2>4, <2>5 DEF Finished, IsStopped
  <1>7. CASE word.name # ""
    <2>1. r = IF i = 0 THEN Outcome("error", argv)
              ELSE IF NoArg(Table[i])
              THEN IF word.eq THEN Outcome("error", argv) ELSE Call(i, NULL, Consume(argv, k), 0)
              ELSE IF word.eq THEN Call(i, word.text, Consume(argv, k), 0)
              ELSE WithNext(line, argv, k, i)
      BY <1>2, <1>3, <1>7 DEF ParseLong, LongResult, IsAt
    <2>2. CASE i = 0 \/ (NoArg(Table[i]) /\ word.eq)
      <3>1. r.what = "error"
        BY <2>1, <2>2 DEF Outcome
      <3>2. f[q].end = "error"
        BY <1>5, <1>7, <2>2
      <3> QED
        BY <1>1, <3>1, <3>2, FailedAt
    <2>3. CASE i # 0 /\ NoArg(Table[i]) /\ ~word.eq
      <3>1. r = Call(i, NULL, Consume(argv, k), 0)
        BY <2>1, <2>3
      <3>2. r.what = "call" /\ r.offset = 0 /\ r.opt = i /\ r.text = NULL /\ r.argv = Consume(argv, k)
        BY <3>1 DEF Call
      <3>3. HasSet(f[q], settings, k - 1, i, NULL)
        BY <1>5, <1>7, <2>3
      <3> QED
        BY <1>1, <3>2, <3>3 DEF Called, IsAt
    <2>4. CASE i # 0 /\ ~NoArg(Table[i]) /\ word.eq
      <3>1. r = Call(i, word.text, Consume(argv, k), 0)
        BY <2>1, <2>4
      <3>2. r.what = "call" /\ r.offset = 0 /\ r.opt = i /\ r.text = word.text /\ r.argv = Consume(argv, k)
        BY <3>1 DEF Call
      <3>3. HasSet(f[q], settings, k - 1, i, word.text)
        BY <1>5, <1>7, <2>4
      <3> QED
        BY <1>1, <3>2, <3>3 DEF Called, IsAt
    <2>5. CASE i # 0 /\ ~NoArg(Table[i]) /\ ~word.eq
      <3>1. r = WithNext(line, argv, k, i)
        BY <2>1, <2>5
      <3>2. IsWanting(f[q], settings, k - 1, i)
        BY <1>5, <1>7, <2>5
      <3> QED
        BY <2>5, <3>1, <3>2, NextWordWanted
    <2> QED
      BY <2>2, <2>3, <2>4, <2>5
  <1> QED
    BY <1>6, <1>7

\* The g of a word with letters.
IsWord(f, g, q) ==
    /\ line[q].dash = 1
    /\ Spells(g, f[q - 1], line[q].letters)
    /\ f[q] = AfterWord(g[Len(line[q].letters)])

\* A callback was called for a letter, and there are more.
CalledWithin(f, g, k, r) ==
    /\ r.offset = offset + 1 /\ r.argv = argv
    /\ r.offset < Len(line[argv[k]].letters)
    /\ HasSet(g[r.offset], settings, k - 1, r.opt, r.text)
    /\ g[r.offset].end # NULL => f[argv[k]].end = g[r.offset].end

LEMMA ShortOption ==
    ASSUME line \in Lines, NEW f, Reads(f), NEW k \in Nat \ {0}, NEW q \in 1..Len(line), IsAt(k, q),
           NEW g, IsWord(f, g, q),
           offset \in Nat, offset < Len(line[q].letters), IsGoing(g[offset], settings, k - 1),
           NEW r, r = ParseShort(line, argv, k, offset)
    PROVE  \/ r.what = "error" /\ Failed(f)
           \/ r.what = "call" /\ Called(f, r)
           \/ r.what = "call" /\ CalledWithin(f, g, k, r)
  <1>1. PICK n \in Nat : n = Len(line) /\ q \in 1..n /\ q \in 0..n
    <2>1. Len(line) \in Nat
      BY LineIs
    <2> QED
      BY <2>1
  <1>14. PICK o \in Nat : o = offset
    OBVIOUS
  <1>15. PICK letters, word : letters = line[q].letters /\ word = f[q]
    OBVIOUS
  <1>2. letters = line[q].letters /\ o = offset /\ o \in Nat /\ word = f[q]
    BY <1>14, <1>15
  <1>3. PICK i : i = ShortOpt(letters[o + 1])
    OBVIOUS
  <1>4. PICK len \in Nat : len = Len(letters)
    BY <1>1, <1>2, LineIs DEF IsWord
  <1>5. Spells(g, f[q - 1], letters) /\ word = AfterWord(g[len])
    BY <1>2, <1>4 DEF IsWord
  <1>6. o < len /\ IsGoing(g[o], settings, k - 1)
    BY <1>2, <1>4
  <1>16. PICK m \in 1..len : m = o + 1
    BY <1>2, <1>4, <1>6
  <1>17. LetterMeans(word, g[m], m, len, settings, k - 1, i)
    <2>1. PICK acc, c : acc = f[q - 1] /\ c = k - 1
      OBVIOUS
    <2>2. Spells(g, acc, letters) /\ word = AfterWord(g[len])
      BY <1>5, <2>1
    <2>3. len = Len(letters) /\ o \in Nat /\ IsGoing(g[o], settings, c) /\ i = ShortOpt(letters[m])
      BY <1>2, <1>3, <1>4, <1>6, <1>16, <2>1
    <2>4. LetterMeans(word, g[m], m, len, settings, c, i)
      BY <1>4, <1>16, <2>2, <2>3, LetterOfWord
    <2> QED
      BY <2>1, <2>4
  <1>7. /\ i = 0 => word.end = "error"
        /\ i # 0 /\ NoArg(Table[i]) /\ o + 1 = len => HasSet(word, settings, k - 1, i, NULL)
        /\ i # 0 /\ NoArg(Table[i]) =>
              /\ HasSet(g[o + 1], settings, k - 1, i, NULL)
              /\ g[o + 1].end # NULL => word.end = g[o + 1].end
        /\ i # 0 /\ ~NoArg(Table[i]) /\ o + 1 # len => HasSet(word, settings, k - 1, i, Dashed)
        /\ i # 0 /\ ~NoArg(Table[i]) /\ o + 1 = len => IsWanting(word, settings, k - 1, i)
    BY <1>16, <1>17 DEF LetterMeans
  <1>8. r = IF i = 0 THEN Outcome("error", argv)
            ELSE IF NoArg(Table[i])
            THEN IF o + 1 = len THEN Call(i, NULL, Consume(argv, k), 0) ELSE Call(i, NULL, argv, o + 1)
            ELSE IF o + 1 # len THEN Call(i, Dashed, Consume(argv, k), 0)
            ELSE WithNext(line, argv, k, i)
    BY <1>2, <1>3, <1>4, <1>6 DEF ParseShort, IsAt
  <1>9. CASE i = 0
    <2>1. r.what = "error"
      BY <1>8, <1>9 DEF Outcome
    <2> QED
      BY <1>1, <1>2, <1>7, <1>9, <2>1, FailedAt
  <1>10. CASE i # 0 /\ NoArg(Table[i]) /\ o + 1 = len
    <2>1. r = Call(i, NULL, Consume(argv, k), 0)
      BY <1>8, <1>10
    <2>2. r.what = "call" /\ r.offset = 0 /\ r.opt = i /\ r.text = NULL /\ r.argv = Consume(argv, k)
      BY <2>1 DEF Call
    <2> QED
      BY <1>1, <1>2, <1>7, <1>10, <2>2 DEF Called, IsAt
  <1>11. CASE i # 0 /\ NoArg(Table[i]) /\ o + 1 # len
    <2>1. r = Call(i, NULL, argv, o + 1)
      BY <1>8, <1>11
    <2>2. r.what = "call" /\ r.offset = o + 1 /\ r.opt = i /\ r.text = NULL /\ r.argv = argv
      BY <2>1 DEF Call
    <2>3. o + 1 < len
      BY <1>6, <1>11
    <2> QED
      BY <1>2, <1>4, <1>7, <1>11, <2>2, <2>3 DEF CalledWithin, IsAt
  <1>12. CASE i # 0 /\ ~NoArg(Table[i]) /\ o + 1 # len
    <2>1. r = Call(i, Dashed, Consume(argv, k), 0)
      BY <1>8, <1>12
    <2>2. r.what = "call" /\ r.offset = 0 /\ r.opt = i /\ r.text = Dashed /\ r.argv = Consume(argv, k)
      BY <2>1 DEF Call
    <2>3. o + 1 < len
      BY <1>6, <1>12
    <2> QED
      BY <1>1, <1>2, <1>7, <1>12, <2>2, <2>3 DEF Called, IsAt
  <1>13. CASE i # 0 /\ ~NoArg(Table[i]) /\ o + 1 = len
    <2>1. r = WithNext(line, argv, k, i)
      BY <1>8, <1>13
    <2> QED
      BY <1>2, <1>7, <1>13, <2>1, NextWordWanted
  <1> QED
    BY <1>9, <1>10, <1>11, <1>12, <1>13

\* The next option is the k-th word, a word of letters.
WithinWord(f, g, k, l, p, values) ==
    /\ IsGoing(f[p], values, l)
    /\ k = NextOption(line, argv, posix) /\ k # 0
    /\ IsWord(f, g, argv[k])

\* How far parse_one has come: l words are left, p have been read, and some
\* letters of the next option.
Progress(f, l, p) ==
    /\ Rest(argv, l, p) /\ offset \in Nat
    /\ offset = 0 => IsGoing(f[p], settings, l)
    /\ offset > 0 =>
          \E values, g, k : /\ WithinWord(f, g, k, l, p, values)
                            /\ offset < Len(line[argv[k]].letters)
                            /\ IsGoing(g[offset], settings, k - 1)

LEMMA ParseOneIs ==
    ASSUME line \in Lines, posix \in BOOLEAN, NEW f, Reads(f), NEW l, NEW p, Progress(f, l, p),
           NEW r, r = ParseOne(line, argv, offset, posix)
    PROVE  \/ r.what = "done" /\ Finished(f, r.argv)
           \/ r.what = "error" /\ Failed(f)
           \/ r.what = "call" /\ Called(f, r)
           \/ /\ r.what = "call"
              /\ \E values, g, k : WithinWord(f, g, k, l, p, values) /\ CalledWithin(f, g, k, r)
  <1>1. Rest(argv, l, p) /\ offset \in Nat
    BY DEF Progress
  <1>2. PICK values : IsGoing(f[p], values, l) /\ (offset = 0 => values = settings)
    <2>1. CASE offset = 0
      BY <2>1 DEF Progress
    <2>2. CASE offset > 0
      BY <2>2 DEF Progress, WithinWord
    <2> QED
      BY <1>1, <2>1, <2>2
  <1>3. PICK k : k = NextOption(line, argv, posix)
    OBVIOUS
  <1>4. \/ /\ k = 0
           /\ \A j \in 1..Len(argv) : (posix => j = 1) => line[argv[j]].dash = 0
        \/ /\ k \in l + 1..Len(argv) /\ (posix => k = 1)
           /\ line[argv[k]].dash \in {1, 2}
           /\ \A j \in 1..k - 1 : line[argv[j]].dash = 0
    BY <1>1, <1>3, NextOptionIs
  <1>5. PICK q : q = argv[k]
    OBVIOUS
  <1>6. r = IF k = 0 THEN Outcome("done", argv)
            ELSE IF line[q].dash = 2 THEN LongResult(k) ELSE ParseShort(line, argv, k, offset)
    BY <1>3, <1>5 DEF ParseOne, LongResult
  <1>7. CASE k = 0 /\ \A j \in 1..Len(argv) : (posix => j = 1) => line[argv[j]].dash = 0
    <2>1. offset = 0
      BY <1>1, <1>3, <1>7 DEF Progress, WithinWord
    <2>2. Finished(f, argv)
      BY <1>1, <1>2, <1>7, <2>1, NoOptionLeft
    <2>3. r.what = "done" /\ r.argv = argv
      BY <1>6, <1>7 DEF Outcome
    <2> QED
      BY <2>2, <2>3
  <1>8. CASE /\ k \in l + 1..Len(argv) /\ (posix => k = 1)
             /\ line[argv[k]].dash \in {1, 2}
             /\ \A j \in 1..k - 1 : line[argv[j]].dash = 0
    <2>1. /\ q = p + (k - l) /\ q \in 1..Len(line) /\ k \in Nat \ {0}
          /\ k = Len(argv) => q = Len(line)
          /\ k < Len(argv) => q < Len(line) /\ argv[k + 1] = q + 1
          /\ IsGoing(f[q - 1], values, k - 1)
          /\ f[q] = OneWord(f[q - 1], line[q])
      <3>1. OptionIs(f, k, q, l, p, values)
        BY <1>1, <1>2, <1>5, <1>8, OptionAt
      <3> QED
        BY <3>1 DEF OptionIs
    <2>2. Rest(Consume(argv, k), k - 1, p + (k - l))
      BY <1>1, <1>8, ConsumeIs
    <2>3. IsAt(k, q)
      <3>1. k \in 1..Len(argv)
        BY <1>8, <2>1
      <3> QED
        BY <1>5, <1>8, <2>1, <2>2, <3>1 DEF IsAt
    <2>4. CASE line[q].dash = 2
      <3>1. offset = 0
        BY <1>1, <1>3, <1>5, <2>4 DEF Progress, WithinWord, IsWord
      <3>2. r = LongResult(k)
        BY <1>6, <2>1, <2>4
      <3>3. IsGoing(f[q - 1], settings, k - 1)
        BY <1>2, <2>1, <3>1
      <3> QED
        BY <2>1, <2>3, <2>4, <3>2, <3>3, LongOption
    <2>5. CASE line[q].dash = 1 /\ offset = 0
      <3>1. r = ParseShort(line, argv, k, offset)
        BY <1>6, <2>1, <2>5
      <3>2. PICK letters, before : letters = line[q].letters /\ before = f[q - 1]
        OBVIOUS
      <3>3. /\ Len(letters) \in Nat
            /\ Len(letters) = 0 => f[q].end = "error"
            /\ Len(letters) > 0 =>
                  \E g : Spells(g, before, letters) /\ f[q] = AfterWord(g[Len(letters)])
        <4>1. IsGoing(before, values, k - 1)
          BY <2>1, <3>2
        <4>2. /\ Len(letters) \in Nat
              /\ Len(letters) = 0 => OneWord(before, line[q]).end = "error"
              /\ Len(letters) > 0 =>
                    \E g : /\ Spells(g, before, letters)
                           /\ OneWord(before, line[q]) = AfterWord(g[Len(letters)])
          BY <2>1, <2>5, <3>2, <4>1, WordOfLetters
        <4> QED
          BY <2>1, <3>2, <4>2
      <3>4. CASE Len(letters) = 0
        <4>1. r = Outcome("error", argv)
          BY <1>5, <2>5, <3>1, <3>2, <3>4 DEF ParseShort
        <4>2. r.what = "error"
          BY <4>1 DEF Outcome
        <4>3. q \in 0..Len(line)
          BY <2>1
        <4> QED
          BY <3>3, <3>4, <4>2, <4>3, FailedAt
      <3>5. CASE Len(letters) > 0
        <4>1. PICK g : Spells(g, before, letters) /\ f[q] = AfterWord(g[Len(letters)])
          BY <3>3, <3>5
        <4>2. IsWord(f, g, q)
          BY <2>5, <3>2, <4>1 DEF IsWord
        <4>3. IsGoing(g[offset], settings, k - 1)
          BY <1>2, <2>1, <2>5, <3>2, <4>1 DEF Spells
        <4>4. offset < Len(line[q].letters)
          BY <2>5, <3>2, <3>5
        <4>5. WithinWord(f, g, k, l, p, values)
          BY <1>2, <1>3, <1>5, <2>1, <4>2 DEF WithinWord
        <4> QED
          BY <1>1, <2>1, <2>3, <3>1, <4>2, <4>3, <4>4, <4>5, ShortOption
      <3> QED
        BY <3>3, <3>4, <3>5
    <2>6. CASE line[q].dash = 1 /\ offset # 0
      <3>1. r = ParseShort(line, argv, k, offset)
        BY <1>6, <2>1, <2>6
      <3>2. PICK v, g : /\ WithinWord(f, g, k, l, p, v)
                        /\ offset < Len(line[q].letters)
                        /\ IsGoing(g[offset], settings, k - 1)
        BY <1>1, <1>3, <1>5, <2>6 DEF Progress, WithinWord
      <3>3. IsWord(f, g, q)
        BY <1>5, <3>2 DEF WithinWord
      <3> QED
        BY <1>1, <2>1, <2>3, <3>1, <3>2, <3>3, ShortOption
    <2> QED
      BY <1>5, <1>8, <2>4, <2>5, <2>6
  <1> QED
    BY <1>4, <1>7, <1>8

-----------------------------------------------------------------------------
\* What Meaning says of the words read so far: all of them, once parse_one is done.
MeantInv ==
    /\ line \in Lines /\ posix \in BOOLEAN /\ pc \in Labels
    /\ pc = "parse" => \E f, l, p : Reads(f) /\ Meaning = f[Len(line)] /\ Progress(f, l, p)
    /\ pc = "parsed" => argv \in Seq(Nat) /\ Parts(Meaning, settings, Len(argv), 0)
    /\ ParsedAsMeant

LEMMA InitMeantInv == Init => MeantInv
  <1> SUFFICES ASSUME Init PROVE MeantInv
    OBVIOUS
  <1>1. line \in Lines /\ posix \in BOOLEAN /\ pc = "parse" /\ offset = 0 /\ settings = Defaults
    BY DEF Init
  <1>2. PICK n \in Nat : n = Len(line) /\ DOMAIN line = 1..n
    BY <1>1, LineIs
  <1>3. PICK f : Reads(f) /\ Meaning = f[n]
    BY <1>1, <1>2, MeaningIs
  <1>4. argv = [k \in 1..n |-> k]
    BY <1>2 DEF Init
  <1>5. argv \in Seq(Nat) /\ Len(argv) = n /\ \A j \in 1..n : argv[j] = j
    BY <1>2, <1>4
  <1>6. Rest(argv, 0, 0)
    BY <1>2, <1>5 DEF Rest
  <1>7. IsGoing(f[0], settings, 0)
    BY <1>1, <1>3, BeginsGoing DEF Reads
  <1>8. Progress(f, 0, 0)
    BY <1>1, <1>6, <1>7 DEF Progress
  <1> QED
    BY <1>1, <1>2, <1>3, <1>8 DEF MeantInv, ParsedAsMeant, Labels

\* The line stays as it is, and so does its meaning.
LEMMA MeaningKept ==
    ASSUME UNCHANGED <<line, posix>>
    PROVE  Meaning' = Meaning
  BY DEF Meaning, OneWord

LEMMA ReadsKept ==
    ASSUME UNCHANGED <<line, posix>>, NEW f, Reads(f)
    PROVE  Reads(f)'
  BY DEF Reads, OneWord

LEMMA ParseStep == ASSUME MeantInv, Parse PROVE MeantInv'
  <1>1. /\ line \in Lines /\ posix \in BOOLEAN /\ pc = "parse"
        /\ UNCHANGED <<line, posix>>
    BY DEF MeantInv, Parse
  <1>2. PICK f, l, p : Reads(f) /\ Meaning = f[Len(line)] /\ Progress(f, l, p)
    BY <1>1 DEF MeantInv
  <1>3. PICK r : r = ParseOne(line, argv, offset, posix)
    OBVIOUS
  <1>4. /\ argv' = r.argv /\ offset' = r.offset
        /\ \/ r.what = "done" /\ pc' = "parsed" /\ UNCHANGED settings
           \/ r.what = "error" /\ pc' = "error" /\ UNCHANGED settings
           \/ /\ r.what = "call"
              /\ \/ Table[r.opt].kind = "usage" /\ pc' = "usage" /\ UNCHANGED settings
                 \/ /\ Table[r.opt].kind # "usage" /\ Accepts(Table[r.opt].kind, r.text)
                    /\ settings' = [settings EXCEPT ![Table[r.opt].target] =
                                       Value(Table[r.opt].kind, r.text)]
                    /\ UNCHANGED pc
                 \/ /\ Table[r.opt].kind # "usage" /\ ~Accepts(Table[r.opt].kind, r.text)
                    /\ pc' = "error" /\ UNCHANGED settings
    BY <1>3 DEF Parse
  <1>5. Meaning' = f[Len(line)] /\ Reads(f)'
    BY <1>1, <1>2, MeaningKept, ReadsKept
  <1>6. \/ r.what = "done" /\ Finished(f, r.argv)
        \/ r.what = "error" /\ Failed(f)
        \/ r.what = "call" /\ Called(f, r)
        \/ /\ r.what = "call"
           /\ \E values, g, k : WithinWord(f, g, k, l, p, values) /\ CalledWithin(f, g, k, r)
    BY <1>1, <1>2, <1>3, ParseOneIs
  <1>7. CASE r.what = "done" /\ Finished(f, r.argv)
    <2>1. pc' = "parsed" /\ settings' = settings
      BY <1>4, <1>7
    <2>2. argv' \in Seq(Nat) /\ Parts(f[Len(line)], settings, Len(argv'), 0)
      BY <1>4, <1>7 DEF Finished
    <2>3. Parts(Meaning, settings, Len(argv), 0)'
      BY <1>5, <2>1, <2>2 DEF Parts
    <2> QED
      BY <1>1, <2>1, <2>2, <2>3 DEF MeantInv, ParsedAsMeant, Labels
  <1>8. CASE r.what = "error" /\ Failed(f)
    <2>1. pc' = "error"
      BY <1>4, <1>8
    <2>2. Meaning'.end = "error" \/ Meaning'.want # 0
      BY <1>5, <1>8 DEF Failed
    <2> QED
      BY <1>1, <2>1, <2>2 DEF MeantInv, ParsedAsMeant, Labels
  <1> DEFINE i == r.opt
             Outcomes(acc, left) ==
                 \/ pc' = "usage" /\ acc.end = "usage"
                 \/ pc' = "error" /\ acc.end = "error"
                 \/ pc' = pc /\ IsGoing(acc, settings', left)
  <1>9. ASSUME NEW acc, NEW left, r.what = "call", HasSet(acc, settings, left, i, r.text)
        PROVE  Outcomes(acc, left)
    <2>1. \/ Table[i].kind = "usage" /\ pc' = "usage" /\ UNCHANGED settings
          \/ /\ Table[i].kind # "usage" /\ Accepts(Table[i].kind, r.text)
             /\ settings' = [settings EXCEPT ![Table[i].target] = Value(Table[i].kind, r.text)]
             /\ UNCHANGED pc
          \/ Table[i].kind # "usage" /\ ~Accepts(Table[i].kind, r.text) /\ pc' = "error" /\ UNCHANGED settings
      BY <1>4, <1>9
    <2> QED
      BY <1>9, <2>1 DEF HasSet
  \* The end of the line is that of the q-th word.
  <1>10. ASSUME NEW q \in 0..Len(line),
                \/ pc' = "usage" /\ f[q].end = "usage"
                \/ pc' = "error" /\ f[q].end = "error"
         PROVE  MeantInv'
    <2>1. f[q].end # NULL
      BY <1>10, LinesAssumption
    <2>2. Meaning' = f[q]
      BY <1>1, <1>2, <1>5, <2>1, Ended
    <2> QED
      BY <1>1, <1>10, <2>2 DEF MeantInv, ParsedAsMeant, Labels
  <1>11. CASE r.what = "call" /\ Called(f, r)
    <2>1. PICK q \in 0..Len(line) : \E left : Rest(r.argv, left, q) /\ HasSet(f[q], settings, left, i, r.text)
      BY <1>11 DEF Called
    <2>2. PICK left : Rest(r.argv, left, q) /\ HasSet(f[q], settings, left, i, r.text)
      BY <2>1
    <2>3. offset' = 0
      BY <1>4, <1>11 DEF Called
    <2>4. Outcomes(f[q], left)
      BY <1>9, <1>11, <2>2
    <2>5. CASE pc' = pc /\ IsGoing(f[q], settings', left)
      <3>1. Rest(argv', left, q)
        BY <1>4, <2>2
      <3>2. Rest(argv, left, q)'
        BY <1>1, <3>1 DEF Rest
      <3>3. IsGoing(f[q], settings, left)'
        BY <2>5 DEF IsGoing, Parts
      <3>4. Progress(f, left, q)'
        BY <2>3, <3>2, <3>3 DEF Progress
      <3>5. (\E e, a, b : Reads(e) /\ Meaning = e[Len(line)] /\ Progress(e, a, b))'
        <4>1. (Meaning = f[Len(line)])'
          BY <1>1, <1>5
        <4> QED
          BY <1>5, <3>4, <4>1
      <3> QED
        BY <1>1, <2>5, <3>5 DEF MeantInv, ParsedAsMeant, Labels
    <2> QED
      BY <1>10, <2>4, <2>5
  <1>12. CASE /\ r.what = "call"
              /\ \E values, g, k : WithinWord(f, g, k, l, p, values) /\ CalledWithin(f, g, k, r)
    <2>1. PICK values, g, k : WithinWord(f, g, k, l, p, values) /\ CalledWithin(f, g, k, r)
      BY <1>12
    <2>2. PICK o, c : o = r.offset /\ c = k - 1
      OBVIOUS
    <2>3. /\ argv' = argv /\ offset' = o /\ o = offset + 1
          /\ o < Len(line[argv[k]].letters)
          /\ HasSet(g[o], settings, c, i, r.text)
          /\ g[o].end # NULL => f[argv[k]].end = g[o].end
      BY <1>4, <2>1, <2>2 DEF CalledWithin
    <2>4. Outcomes(g[o], c)
      BY <1>9, <1>12, <2>3
    <2>5. Rest(argv, l, p) /\ offset \in Nat
      BY <1>2 DEF Progress
    <2>6. argv[k] \in 1..Len(line)
      <3>1. k \in l + 1..Len(argv)
        BY <1>1, <2>1, <2>5, NextOptionIs DEF WithinWord
      <3>2. Len(line) \in Nat
        BY <1>1, LineIs
      <3> QED
        BY <2>5, <3>1, <3>2 DEF Rest
    <2>7. CASE pc' = pc /\ IsGoing(g[o], settings', c)
      <3>1. Rest(argv, l, p)'
        BY <1>1, <2>3, <2>5 DEF Rest
      <3>2. WithinWord(f, g, k, l, p, values)'
        <4>1. IsWord(f, g, argv[k])'
          BY <1>1, <2>1, <2>3 DEF WithinWord, IsWord, Spells
        <4>2. (k = NextOption(line, argv, posix) /\ k # 0)'
          BY <1>1, <2>1, <2>3 DEF WithinWord
        <4> QED
          BY <2>1, <4>1, <4>2 DEF WithinWord, IsGoing, Parts
      <3>3. offset' \in Nat /\ offset' > 0 /\ (offset < Len(line[argv[k]].letters))'
        BY <1>1, <2>3, <2>5
      <3>4. IsGoing(g[offset], settings, k - 1)'
        BY <2>2, <2>3, <2>7 DEF IsGoing, Parts
      <3>5. Progress(f, l, p)'
        BY <3>1, <3>2, <3>3, <3>4 DEF Progress
      <3>6. (\E e, a, b : Reads(e) /\ Meaning = e[Len(line)] /\ Progress(e, a, b))'
        <4>1. (Meaning = f[Len(line)])'
          BY <1>1, <1>5
        <4> QED
          BY <1>5, <3>5, <4>1
      <3> QED
        BY <1>1, <2>7, <3>6 DEF MeantInv, ParsedAsMeant, Labels
    <2>8. CASE \/ pc' = "usage" /\ g[o].end = "usage"
               \/ pc' = "error" /\ g[o].end = "error"
      <3>1. PICK q \in 0..Len(line) : q = argv[k]
        BY <2>6
      <3>2. f[q].end = g[o].end
        BY <2>3, <2>8, <3>1, LinesAssumption
      <3> QED
        BY <1>10, <2>8, <3>2
    <2> QED
      BY <2>4, <2>7, <2>8
  <1> QED
    BY <1>6, <1>7, <1>8, <1>11, <1>12

LEMMA AfterParseStep ==
    ASSUME MeantInv, IInv, [Next]_vars, ~Parse
    PROVE  MeantInv'
  <1>1. CASE Iterate
    <2>1. /\ pc = "parsed" /\ UNCHANGED <<line, posix, settings>>
          /\ argv \in Seq(Nat) /\ Parts(Meaning, settings, Len(argv), 0)
          /\ pc' = IF argv # <<>> THEN "usage" ELSE "iterate"
      BY <1>1 DEF Iterate, MeantInv
    <2>2. Meaning' = Meaning
      BY <2>1, MeaningKept
    <2>3. Meaning.settings = settings /\ Meaning.left = Len(argv) /\ Meaning.want = 0 /\ Meaning.end = NULL
      BY <2>1 DEF Parts
    <2>4. argv # <<>> => Len(argv) > 0
      BY <2>1
    <2>5. argv = <<>> => Len(argv) = 0
      OBVIOUS
    <2> QED
      BY <2>1, <2>2, <2>3, <2>4, <2>5, LinesAssumption DEF MeantInv, ParsedAsMeant, Labels
  <1>2. CASE UNCHANGED vars
    <2>1. Meaning' = Meaning /\ UNCHANGED <<pc, line, posix, argv, offset, settings>>
      BY <1>2, MeaningKept DEF vars, parseVars
    <2>2. ASSUME NEW f, NEW l, NEW p, Reads(f), Meaning = f[Len(line)], Progress(f, l, p)
          PROVE  (Reads(f) /\ Meaning = f[Len(line)] /\ Progress(f, l, p))'
      <3>1. Reads(f)' /\ (Meaning = f[Len(line)])'
        BY <2>1, <2>2, ReadsKept
      <3>2. Rest(argv, l, p)'
        BY <2>1, <2>2 DEF Progress, Rest
      <3>3. ASSUME NEW values, NEW g, NEW k, WithinWord(f, g, k, l, p, values)
            PROVE  WithinWord(f, g, k, l, p, values)'
        <4>1. IsWord(f, g, argv[k])'
          BY <2>1, <3>3 DEF WithinWord, IsWord, Spells
        <4> QED
          BY <2>1, <3>3, <4>1 DEF WithinWord, IsGoing, Parts
      <3>4. Progress(f, l, p)'
        BY <2>1, <2>2, <3>2, <3>3 DEF Progress, IsGoing, Parts
      <3> QED
        BY <3>1, <3>4
    <2>3. (pc = "parse" => \E f, l, p : Reads(f) /\ Meaning = f[Len(line)] /\ Progress(f, l, p))'
      BY <2>1, <2>2 DEF MeantInv
    <2>4. (pc = "parsed" => argv \in Seq(Nat) /\ Parts(Meaning, settings, Len(argv), 0))'
      BY <2>1 DEF MeantInv, Parts
    <2> QED
      BY <2>1, <2>3, <2>4 DEF MeantInv, ParsedAsMeant
  <1>3. CASE Next /\ ~Iterate
    <2>1. UNCHANGED <<line, posix>> /\ pc' \in Walked
      <3>1. CASE CallBack
        BY <3>1 DEF CallBack, parseVars, Walked
      <3>2. CASE \/ PrintLiteral \/ SkipEscape \/ BadFormat \/ SequenceOfOutput \/ PrintFees
                 \/ StartDays \/ PrintDays \/ PrintCreated \/ PrintGuess \/ PrintField \/ EndOfFormat
        BY <3>2, SteppedIs DEF PrintLiteral, SkipEscape, BadFormat, SequenceOfOutput, PrintFees,
           StartDays, PrintDays, PrintCreated, PrintGuess, PrintField, EndOfFormat, Printing,
           parseVars, printVars, Walked
      <3>3. CASE AddInput
        BY <3>3 DEF AddInput, IInv, CallInv, parseVars
      <3> QED
        BY <1>3, <3>1, <3>2, <3>3 DEF Next
    <2> QED
      BY <2>1 DEF MeantInv, ParsedAsMeant, Labels, Walked
  <1> QED
    BY <1>1, <1>2, <1>3

\* What main makes of the command line is what its words mean from left to right:
\* parse_one looks for options anywhere and takes them out of argv one by one, a
\* letter at a time, and still fails, asks for help, or sets each variable as if
\* it had read the words in order.
THEOREM ReadsAsMeant == Spec => []ParsedAsMeant
  <1>1. ASSUME MeantInv, IInv, [Next]_vars PROVE MeantInv'
    BY <1>1, ParseStep, AfterParseStep
  <1>2. MeantInv => ParsedAsMeant
    BY DEF MeantInv
  <1> QED
    BY InitMeantInv, Invariance, <1>1, <1>2, PTL DEF Spec
=============================================================================
