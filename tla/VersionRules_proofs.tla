------------------------ MODULE VersionRules_proofs ------------------------
(***************************************************************************)
(* Theorems about VersionRules, for every version and every requirement:   *)
(* Rust, which compares and counts in strings of digits, and Go, which     *)
(* compares texts, decide as TypeScript, which counts in integers, but     *)
(* where the bound of ^ or ~ is too long for TypeScript; and their         *)
(* comparison is the order of semver.org.  Where a proof needs induction over numbers it takes the    *)
(* least number the claim would fail for (LeastOf).                        *)
(***************************************************************************)
EXTENDS VersionRules, WellFoundedInduction, SequenceTheorems, TLAPS

-----------------------------------------------------------------------------
(* Digits.                                                                 *)

LEMMA LeastOf ==
    ASSUME NEW T \in SUBSET Nat, T # {}
    PROVE  \E n \in T : \A m \in T : n <= m
  <1>1. IsWellFoundedOn(OpToRel(<, Nat), Nat)
    BY NatLessThanWellFounded
  <1>2. PICK n \in T : \A m \in T : ~ (<<m, n>> \in OpToRel(<, Nat))
    BY <1>1, WFMin
  <1>3. ASSUME NEW m \in T PROVE n <= m
    <2>1. ~(m < n)
      BY <1>2 DEF OpToRel
    <2> QED BY <2>1
  <1> QED BY <1>3

\* The equation of Digits, on the numbers up to N.
DigitsUpTo(g, N) ==
    \A n \in 0 .. N : g[n] = IF n < 10 THEN <<n>> ELSE g[n \div 10] \o <<n % 10>>

LEMMA DivFacts ==
    ASSUME NEW n \in Nat, n >= 10
    PROVE  /\ n \div 10 \in Nat /\ n \div 10 < n /\ n \div 10 >= 1
           /\ n % 10 \in 0 .. 9 /\ n = 10 * (n \div 10) + (n % 10)
  OBVIOUS

LEMMA DigitsOnce ==
    ASSUME NEW g, NEW h, NEW M \in Nat, NEW N \in Nat, DigitsUpTo(g, M), DigitsUpTo(h, N),
           NEW n \in Nat, n <= M, n <= N
    PROVE  g[n] = h[n]
  <1> DEFINE T == {k \in Nat : k <= M /\ k <= N /\ g[k] # h[k]}
  <1>1. SUFFICES ASSUME T # {} PROVE FALSE
    OBVIOUS
  <1>2. PICK k \in T : \A m \in T : k <= m
    <2>1. T \in SUBSET Nat
      OBVIOUS
    <2> HIDE DEF T
    <2> QED BY <1>1, <2>1, LeastOf
  <1>3. k \in 0 .. M /\ k \in 0 .. N
    OBVIOUS
  <1>4. /\ g[k] = IF k < 10 THEN <<k>> ELSE g[k \div 10] \o <<k % 10>>
        /\ h[k] = IF k < 10 THEN <<k>> ELSE h[k \div 10] \o <<k % 10>>
    BY <1>3 DEF DigitsUpTo
  <1>5. k >= 10
    BY <1>4
  <1>6. k \div 10 \notin T
    BY <1>2, <1>5, DivFacts
  <1>7. g[k \div 10] = h[k \div 10]
    BY <1>5, <1>6, DivFacts
  <1> QED BY <1>4, <1>5, <1>7

LEMMA DigitsExist ==
    ASSUME NEW N \in Nat
    PROVE  \E g : DigitsUpTo(g, N)
  <1> DEFINE T == {k \in Nat : ~ \E g : DigitsUpTo(g, k)}
  <1>1. SUFFICES ASSUME T # {} PROVE FALSE
    OBVIOUS
  <1>2. PICK k \in T : \A m \in T : k <= m
    <2>1. T \in SUBSET Nat
      OBVIOUS
    <2> HIDE DEF T
    <2> QED BY <1>1, <2>1, LeastOf
  <1>3. CASE k = 0
    <2> DEFINE g == [n \in 0 .. 0 |-> <<n>>]
    <2>1. DigitsUpTo(g, 0)
      BY DEF DigitsUpTo
    <2> QED BY <1>3, <2>1
  <1>4. CASE k # 0
    <2>1. k - 1 \in Nat /\ k - 1 \notin T
      BY <1>2, <1>4
    <2>2. PICK g : DigitsUpTo(g, k - 1)
      BY <2>1
    <2> DEFINE h == [n \in 0 .. k |->
                        IF n < k THEN g[n] ELSE IF n < 10 THEN <<n>> ELSE g[n \div 10] \o <<n % 10>>]
    <2>3. ASSUME NEW n \in 0 .. k
          PROVE  h[n] = IF n < 10 THEN <<n>> ELSE h[n \div 10] \o <<n % 10>>
      <3>1. n >= 10 => n \div 10 \in 0 .. k /\ n \div 10 < k /\ h[n \div 10] = g[n \div 10]
        BY DivFacts
      <3>2. CASE n < k
        <4>1. n \in 0 .. k - 1
          BY <3>2
        <4>2. g[n] = IF n < 10 THEN <<n>> ELSE g[n \div 10] \o <<n % 10>>
          BY <2>2, <4>1 DEF DigitsUpTo
        <4>3. h[n] = g[n]
          BY <3>2
        <4> QED BY <3>1, <4>2, <4>3
      <3>3. CASE ~(n < k)
        BY <3>1, <3>3
      <3> QED BY <3>2, <3>3
    <2>4. DigitsUpTo(h, k)
      <3> HIDE DEF h
      <3> QED BY <2>3 DEF DigitsUpTo
    <2> QED BY <2>4
  <1> QED BY <1>3, <1>4

\* The digits of a number: one, or those of its tenth and the one that is left.
LEMMA DigitsIs ==
    ASSUME NEW n \in Nat
    PROVE  Digits[n] = IF n < 10 THEN <<n>> ELSE Digits[n \div 10] \o <<n % 10>>
  <1> DEFINE Up(k) == CHOOSE g : DigitsUpTo(g, k)
             f == [k \in Nat |-> Up(k)[k]]
             Meets(g) == g = [k \in Nat |-> IF k < 10 THEN <<k>> ELSE g[k \div 10] \o <<k % 10>>]
  <1>1. \A k \in Nat : DigitsUpTo(Up(k), k)
    BY DigitsExist
  <1> HIDE DEF Up
  <1>2. ASSUME NEW k \in Nat
        PROVE  Up(k)[k] = IF k < 10 THEN <<k>> ELSE f[k \div 10] \o <<k % 10>>
    <2>1. Up(k)[k] = IF k < 10 THEN <<k>> ELSE Up(k)[k \div 10] \o <<k % 10>>
      BY <1>1 DEF DigitsUpTo
    <2>2. k >= 10 => Up(k)[k \div 10] = f[k \div 10]
      <3>1. SUFFICES ASSUME k >= 10 PROVE Up(k)[k \div 10] = Up(k \div 10)[k \div 10]
        BY DivFacts
      <3>2. k \div 10 \in Nat /\ k \div 10 <= k /\ k \div 10 <= k \div 10
        BY <3>1, DivFacts
      <3> HIDE DEF f
      <3> QED BY <1>1, <3>2, DigitsOnce
    <2> QED BY <2>1, <2>2
  <1>3. Meets(f)
    BY <1>2
  <1>4. Digits = CHOOSE g : Meets(g)
    BY DEF Digits
  <1> HIDE DEF f, Meets
  <1>5. Meets(Digits)
    BY <1>3, <1>4
  <1>6. Digits = [k \in Nat |-> IF k < 10 THEN <<k>> ELSE Digits[k \div 10] \o <<k % 10>>]
    BY <1>5 DEF Meets
  <1> QED BY <1>6, Zenon

LEMMA DigitsOne ==
    ASSUME NEW n \in Nat, n < 10
    PROVE  Digits[n] = <<n>>
  BY DigitsIs

LEMMA DigitsMore ==
    ASSUME NEW n \in Nat, n >= 10
    PROVE  Digits[n] = Digits[n \div 10] \o <<n % 10>>
  <1>1. ~(n < 10)
    OBVIOUS
  <1> QED BY <1>1, DigitsIs, Zenon

LEMMA DigitsType ==
    ASSUME NEW n \in Nat
    PROVE  Digits[n] \in Seq(0 .. 9) /\ Len(Digits[n]) >= 1
  <1> DEFINE Fine(k) == Digits[k] \in Seq(0 .. 9) /\ Len(Digits[k]) >= 1
             T == {k \in Nat : ~Fine(k)}
  <1>1. SUFFICES ASSUME T # {} PROVE FALSE
    OBVIOUS
  <1>2. PICK k \in T : \A m \in T : k <= m
    <2>1. T \in SUBSET Nat
      OBVIOUS
    <2> HIDE DEF T
    <2> QED BY <1>1, <2>1, LeastOf
  <1>0. k \in Nat
    OBVIOUS
  <1>3. CASE k < 10
    <2>1. Digits[k] = <<k>> /\ k \in 0 .. 9
      <3> HIDE DEF T
      <3> QED BY <1>0, <1>3, DigitsOne
    <2>2. Fine(k)
      BY <2>1
    <2> QED BY <2>2
  <1>4. CASE k >= 10
    <2>1. k \div 10 \in Nat /\ k \div 10 < k /\ k % 10 \in 0 .. 9
      BY <1>4, DivFacts
    <2>2. Fine(k \div 10)
      BY <1>2, <2>1
    <2>3. Digits[k] = Digits[k \div 10] \o <<k % 10>>
      <3> HIDE DEF T
      <3> QED BY <1>0, <1>4, DigitsMore
    <2>4. <<k % 10>> \in Seq(0 .. 9) /\ Len(<<k % 10>>) = 1
      BY <2>1
    <2>5. Fine(k)
      <3> HIDE DEF T
      <3> QED BY <2>2, <2>3, <2>4
    <2> QED BY <2>5
  <1> QED BY <1>3, <1>4

\* A list of digits with one more at its end.
LEMMA OneMore ==
    ASSUME NEW a \in Seq(0 .. 9), NEW r \in 0 .. 9
    PROVE  /\ a \o <<r>> \in Seq(0 .. 9) /\ Len(a \o <<r>>) = Len(a) + 1
           /\ \A i \in 1 .. Len(a) : (a \o <<r>>)[i] = a[i]
           /\ (a \o <<r>>)[Len(a) + 1] = r
  OBVIOUS

\* Shorter, or as long and less at the first difference.
Less(a, b) ==
    \/ Len(a) < Len(b)
    \/ /\ Len(a) = Len(b)
       /\ \E i \in 1 .. Len(a) : a[i] < b[i] /\ \A j \in 1 .. i - 1 : a[j] = b[j]

LEMMA DigitsOrdered ==
    ASSUME NEW a \in Nat, NEW b \in Nat, a < b
    PROVE  Less(Digits[a], Digits[b])
  <1> DEFINE T == {k \in Nat : \E l \in Nat : k < l /\ ~Less(Digits[k], Digits[l])}
  <1>1. SUFFICES ASSUME T # {} PROVE FALSE
    OBVIOUS
  <1>2. PICK k \in T : \A m \in T : k <= m
    <2>1. T \in SUBSET Nat
      OBVIOUS
    <2> HIDE DEF T
    <2> QED BY <1>1, <2>1, LeastOf
  <1>3. PICK l \in Nat : k < l /\ ~Less(Digits[k], Digits[l])
    OBVIOUS
  <1>4. k \in Nat /\ \A m \in Nat : m < k => \A n \in Nat : m < n => Less(Digits[m], Digits[n])
    BY <1>2
  <1> HIDE DEF T
  <1>5. CASE l < 10
    <2>1. Digits[k] = <<k>> /\ Digits[l] = <<l>>
      <3>1. k < 10
        BY <1>3, <1>4, <1>5
      <3> QED BY <1>3, <1>4, <1>5, <3>1, DigitsOne
    <2>2. 1 \in 1 .. Len(<<k>>) /\ <<k>>[1] < <<l>>[1] /\ \A j \in 1 .. 1 - 1 : <<k>>[j] = <<l>>[j]
      BY <1>3, <1>4
    <2>3. Less(<<k>>, <<l>>)
      BY <2>2 DEF Less
    <2> QED BY <1>3, <2>1, <2>3
  <1>6. CASE l >= 10
    <2> DEFINE b0 == Digits[l \div 10]
               s == l % 10
    <2>1. l \div 10 \in Nat /\ s \in 0 .. 9 /\ l = 10 * (l \div 10) + s
      BY <1>6, DivFacts
    <2>2. b0 \in Seq(0 .. 9) /\ Len(b0) >= 1 /\ Digits[l] = b0 \o <<s>>
      BY <1>6, <2>1, DigitsType, DigitsMore
    <2>3. CASE k < 10
      <3>1. Len(Digits[k]) = 1
        BY <1>4, <2>3, DigitsOne
      <3>2. Len(Digits[l]) = Len(b0) + 1 /\ Len(b0) \in Nat
        BY <2>1, <2>2, OneMore
      <3>3. Less(Digits[k], Digits[l])
        BY <2>2, <3>1, <3>2 DEF Less
      <3> QED BY <1>3, <3>3
    <2>4. CASE k >= 10
      <3> DEFINE a0 == Digits[k \div 10]
                 r == k % 10
                 x == a0 \o <<r>>
                 y == b0 \o <<s>>
      <3>1. k \div 10 \in Nat /\ r \in 0 .. 9 /\ k = 10 * (k \div 10) + r /\ k \div 10 < k
        BY <1>4, <2>4, DivFacts
      <3>2. a0 \in Seq(0 .. 9) /\ Len(a0) >= 1 /\ Digits[k] = x
        BY <1>4, <2>4, <3>1, DigitsType, DigitsMore
      <3>3. /\ Len(x) = Len(a0) + 1 /\ x[Len(a0) + 1] = r /\ Len(a0) \in Nat
            /\ \A i \in 1 .. Len(a0) : x[i] = a0[i]
        <4>1. a0 \in Seq(0 .. 9) /\ r \in 0 .. 9
          BY <3>1, <3>2
        <4> HIDE DEF a0, r, x
        <4>2. /\ a0 \o <<r>> \in Seq(0 .. 9) /\ Len(a0 \o <<r>>) = Len(a0) + 1
              /\ \A i \in 1 .. Len(a0) : (a0 \o <<r>>)[i] = a0[i]
              /\ (a0 \o <<r>>)[Len(a0) + 1] = r
          BY <4>1, OneMore
        <4>3. Len(a0) \in Nat
          BY <4>1
        <4> QED BY <4>2, <4>3 DEF x
      <3>4. /\ Len(y) = Len(b0) + 1 /\ y[Len(b0) + 1] = s /\ Len(b0) \in Nat
            /\ \A i \in 1 .. Len(b0) : y[i] = b0[i]
        <4> HIDE DEF b0, s
        <4> QED BY <2>1, <2>2, OneMore
      <3>5. k \div 10 < l \div 10 \/ (k \div 10 = l \div 10 /\ r < s)
        BY <1>3, <2>1, <3>1
      <3> HIDE DEF x, y
      <3>6. CASE k \div 10 < l \div 10
        <4>1. Less(a0, b0)
          BY <1>4, <2>1, <3>1, <3>6
        <4> HIDE DEF a0, b0
        <4>2. ASSUME Len(a0) < Len(b0) PROVE Less(x, y)
          BY <3>3, <3>4, <4>2 DEF Less
        <4>3. ASSUME Len(a0) = Len(b0) PROVE Less(x, y)
          <5>1. PICK i \in 1 .. Len(a0) : a0[i] < b0[i] /\ \A j \in 1 .. i - 1 : a0[j] = b0[j]
            BY <3>3, <4>1, <4>3 DEF Less
          <5>2. i \in 1 .. Len(x) /\ x[i] < y[i] /\ \A j \in 1 .. i - 1 : x[j] = y[j]
            BY <3>3, <3>4, <4>3, <5>1
          <5> QED BY <3>3, <3>4, <4>3, <5>2 DEF Less
        <4>4. Less(x, y)
          BY <4>1, <4>2, <4>3 DEF Less
        <4> QED BY <1>3, <2>2, <3>2, <4>4 DEF x, y
      <3>7. CASE k \div 10 = l \div 10 /\ r < s
        <4>1. a0 = b0
          BY <3>7
        <4> HIDE DEF a0, b0
        <4>2. /\ Len(a0) + 1 \in 1 .. Len(x) /\ x[Len(a0) + 1] < y[Len(a0) + 1]
              /\ \A j \in 1 .. (Len(a0) + 1) - 1 : x[j] = y[j]
          BY <3>3, <3>4, <3>7, <4>1
        <4>3. Less(x, y)
          BY <3>3, <3>4, <4>1, <4>2 DEF Less
        <4> QED BY <1>3, <2>2, <3>2, <4>3 DEF x, y
      <3> QED BY <3>5, <3>6, <3>7
    <2> QED BY <1>4, <2>3, <2>4
  <1> QED BY <1>3, <1>5, <1>6

-----------------------------------------------------------------------------
(* Comparing.                                                              *)

Signs == -1 .. 1

LEMMA SignIn == \A a, b \in Int : Sign(a, b) \in Signs /\ Sign(a, b) = - Sign(b, a)
  BY DEF Sign, Signs

LEMMA FirstIs ==
    ASSUME NEW n \in Nat, NEW s, DOMAIN s = 1 .. n, NEW i \in 1 .. n, s[i] # 0,
           \A j \in 1 .. i - 1 : s[j] = 0
    PROVE  FirstDifference(s) = s[i]
  <1> DEFINE differing == {k \in DOMAIN s : s[k] # 0}
             first == CHOOSE k \in differing : \A j \in differing : k <= j
  <1>1. i \in differing /\ \A j \in differing : i <= j
    OBVIOUS
  <1>2. first \in differing /\ \A j \in differing : first <= j
    BY <1>1
  <1>3. differing \subseteq Int
    OBVIOUS
  <1>4. first = i
    <2> HIDE DEF differing, first
    <2> QED BY <1>1, <1>2, <1>3
  <1> QED BY <1>1, <1>4 DEF FirstDifference

LEMMA NoneIs ==
    ASSUME NEW n \in Nat, NEW s, DOMAIN s = 1 .. n, \A j \in 1 .. n : s[j] = 0
    PROVE  FirstDifference(s) = 0
  BY DEF FirstDifference

\* CompareDigits looks at the lengths, then at digit after digit.
DigitSigns(a, b, n, s) ==
    /\ CompareDigits(a, b) = FirstDifference(s) /\ DOMAIN s = 1 .. n + 1
    /\ n = (IF Len(a) < Len(b) THEN Len(a) ELSE Len(b))
    /\ s[1] = Sign(Len(a), Len(b)) /\ \A i \in 1 .. n : s[i + 1] = Sign(a[i], b[i])

LEMMA CompareDigitsSeq ==
    ASSUME NEW a \in Seq(0 .. 9), NEW b \in Seq(0 .. 9)
    PROVE  \E n \in Nat : \E s : DigitSigns(a, b, n, s)
  <1> DEFINE n == IF Len(a) < Len(b) THEN Len(a) ELSE Len(b)
             t == [i \in 1 .. n |-> Sign(a[i], b[i])]
             h == <<Sign(Len(a), Len(b))>>
             s == h \o t
  <1>1. n \in Nat
    OBVIOUS
  <1>2. CompareDigits(a, b) = FirstDifference(s)
    BY DEF CompareDigits, Shared
  <1> HIDE DEF n
  <1>3. t \in Seq(Signs) /\ Len(t) = n
    <2>1. \A i \in 1 .. n : Sign(a[i], b[i]) \in Signs
      BY <1>1, SignIn DEF n
    <2> QED BY <1>1, <2>1
  <1>4. h \in Seq(Signs) /\ Len(h) = 1 /\ h[1] = Sign(Len(a), Len(b))
    BY SignIn
  <1>5. \A i \in 1 .. n : t[i] = Sign(a[i], b[i])
    OBVIOUS
  <1> HIDE DEF t, h
  <1>6. DOMAIN s = 1 .. n + 1 /\ s[1] = h[1] /\ \A i \in 1 .. n : s[i + 1] = t[i]
    <2>1. /\ s \in Seq(Signs) /\ Len(s) = 1 + n
          /\ \A i \in 1 .. 1 + n : s[i] = IF i <= 1 THEN h[i] ELSE t[i - 1]
      <3>1. /\ h \o t \in Seq(Signs) /\ Len(h \o t) = Len(h) + Len(t)
            /\ \A i \in 1 .. Len(h) + Len(t) :
                   (h \o t)[i] = IF i <= Len(h) THEN h[i] ELSE t[i - Len(h)]
        <4>1. h \in Seq(Signs) /\ t \in Seq(Signs)
          BY <1>3, <1>4
        <4> HIDE DEF s
        <4> QED BY <4>1, ConcatProperties
      <3> QED BY <1>3, <1>4, <3>1
    <2> HIDE DEF s
    <2>2. ASSUME NEW i \in 1 .. n PROVE s[i + 1] = t[i]
      <3>1. i + 1 \in 1 .. 1 + n /\ ~(i + 1 <= 1) /\ (i + 1) - 1 = i
        BY <1>1
      <3> QED BY <2>1, <3>1
    <2> QED BY <1>1, <2>1, <2>2
  <1>7. /\ CompareDigits(a, b) = FirstDifference(s) /\ DOMAIN s = 1 .. n + 1
        /\ s[1] = Sign(Len(a), Len(b)) /\ \A i \in 1 .. n : s[i + 1] = Sign(a[i], b[i])
    <2> HIDE DEF s
    <2> QED BY <1>2, <1>4, <1>5, <1>6
  <1>8. n = (IF Len(a) < Len(b) THEN Len(a) ELSE Len(b))
    BY DEF n
  <1> HIDE DEF s
  <1> QED BY <1>1, <1>7, <1>8 DEF DigitSigns

LEMMA LessCompares ==
    ASSUME NEW a \in Seq(0 .. 9), NEW b \in Seq(0 .. 9), Less(a, b)
    PROVE  CompareDigits(a, b) = -1 /\ CompareDigits(b, a) = 1
  <1>21. PICK n \in Nat : \E s : DigitSigns(a, b, n, s)
    BY CompareDigitsSeq
  <1>1. PICK s :
            /\ CompareDigits(a, b) = FirstDifference(s) /\ DOMAIN s = 1 .. n + 1
            /\ n = (IF Len(a) < Len(b) THEN Len(a) ELSE Len(b))
            /\ s[1] = Sign(Len(a), Len(b)) /\ \A i \in 1 .. n : s[i + 1] = Sign(a[i], b[i])
    BY <1>21 DEF DigitSigns
  <1>22. PICK m \in Nat : \E t : DigitSigns(b, a, m, t)
    BY CompareDigitsSeq
  <1>2. PICK t :
            /\ CompareDigits(b, a) = FirstDifference(t) /\ DOMAIN t = 1 .. m + 1
            /\ m = (IF Len(b) < Len(a) THEN Len(b) ELSE Len(a))
            /\ t[1] = Sign(Len(b), Len(a)) /\ \A i \in 1 .. m : t[i + 1] = Sign(b[i], a[i])
    BY <1>22 DEF DigitSigns
  <1>3. n + 1 \in Nat /\ m + 1 \in Nat /\ 1 \in 1 .. n + 1 /\ 1 \in 1 .. m + 1 /\ m = n
    BY <1>1, <1>2
  <1>4. CASE Len(a) < Len(b)
    <2>1. s[1] = -1 /\ t[1] = 1
      BY <1>1, <1>2, <1>4 DEF Sign
    <2> DEFINE p == n + 1
    <2>2. /\ p \in Nat /\ DOMAIN s = 1 .. p /\ DOMAIN t = 1 .. p /\ 1 \in 1 .. p
          /\ s[1] # 0 /\ t[1] # 0 /\ \A j \in 1 .. 1 - 1 : s[j] = 0 /\ t[j] = 0
      BY <1>1, <1>2, <1>3, <2>1
    <2> HIDE DEF p
    <2>3. FirstDifference(s) = s[1] /\ FirstDifference(t) = t[1]
      BY <2>2, FirstIs
    <2> QED BY <1>1, <1>2, <2>1, <2>3
  <1>5. CASE ~(Len(a) < Len(b))
    <2>1. PICK i \in 1 .. Len(a) : a[i] < b[i] /\ \A j \in 1 .. i - 1 : a[j] = b[j]
      BY <1>5 DEF Less
    <2>2. n = Len(a) /\ Len(a) = Len(b) /\ i \in 1 .. n /\ i + 1 \in 1 .. n + 1
      BY <1>1, <1>5, <2>1 DEF Less
    <2>3. a[i] \in 0 .. 9 /\ b[i] \in 0 .. 9
      BY <2>2
    <2>4. s[i + 1] = -1 /\ t[i + 1] = 1
      <3>1. Sign(a[i], b[i]) = -1 /\ Sign(b[i], a[i]) = 1
        BY <2>1, <2>3 DEF Sign
      <3>2. s[i + 1] = Sign(a[i], b[i]) /\ t[i + 1] = Sign(b[i], a[i])
        BY <1>1, <1>2, <1>3, <2>2
      <3> QED BY <3>1, <3>2
    <2>5. s[1] = 0 /\ t[1] = 0
      BY <1>1, <1>2, <2>2 DEF Sign
    <2>6. ASSUME NEW j \in 1 .. (i + 1) - 1 PROVE s[j] = 0 /\ t[j] = 0
      <3>1. CASE j = 1
        BY <2>5, <3>1
      <3>2. CASE j # 1
        <4>1. j - 1 \in 1 .. n /\ j - 1 \in 1 .. i - 1 /\ (j - 1) + 1 = j
          BY <2>2, <3>2
        <4>2. s[j] = Sign(a[j - 1], b[j - 1]) /\ t[j] = Sign(b[j - 1], a[j - 1])
          BY <1>1, <1>2, <1>3, <4>1
        <4> QED BY <2>1, <4>1, <4>2 DEF Sign
      <3> QED BY <3>1, <3>2
    <2>7. FirstDifference(s) = s[i + 1] /\ FirstDifference(t) = t[i + 1]
      <3> DEFINE p == n + 1
                 k == i + 1
      <3>1. p \in Nat /\ DOMAIN s = 1 .. p /\ DOMAIN t = 1 .. p /\ k \in 1 .. p
            /\ s[k] # 0 /\ t[k] # 0 /\ \A j \in 1 .. k - 1 : s[j] = 0 /\ t[j] = 0
        BY <1>1, <1>2, <1>3, <2>2, <2>4, <2>6
      <3> HIDE DEF p, k
      <3>2. FirstDifference(s) = s[k] /\ FirstDifference(t) = t[k]
        BY <3>1, FirstIs
      <3> QED BY <3>2 DEF k
    <2> QED BY <1>1, <1>2, <2>4, <2>7
  <1> QED BY <1>4, <1>5

LEMMA SameCompares ==
    ASSUME NEW a \in Seq(0 .. 9)
    PROVE  CompareDigits(a, a) = 0
  <1>21. PICK n \in Nat : \E s : DigitSigns(a, a, n, s)
    BY CompareDigitsSeq
  <1>1. PICK s :
            /\ CompareDigits(a, a) = FirstDifference(s) /\ DOMAIN s = 1 .. n + 1
            /\ s[1] = Sign(Len(a), Len(a)) /\ \A i \in 1 .. n : s[i + 1] = Sign(a[i], a[i])
    BY <1>21 DEF DigitSigns
  <1>2. ASSUME NEW j \in 1 .. n + 1 PROVE s[j] = 0
    <2>1. CASE j = 1
      BY <1>1, <2>1 DEF Sign
    <2>2. CASE j # 1
      <3>1. j - 1 \in 1 .. n /\ (j - 1) + 1 = j
        BY <2>2
      <3> QED BY <1>1, <3>1 DEF Sign
    <2> QED BY <2>1, <2>2
  <1> QED BY <1>1, <1>2, NoneIs

\* Rust's comparison of the digits of two numbers is that of the numbers.
LEMMA DigitsCompareAsNumbers ==
    ASSUME NEW a \in Nat, NEW b \in Nat
    PROVE  CompareDigits(Digits[a], Digits[b]) = Sign(a, b)
  <1>1. Digits[a] \in Seq(0 .. 9) /\ Digits[b] \in Seq(0 .. 9)
    BY DigitsType
  <1>2. CASE a = b
    BY <1>1, <1>2, SameCompares DEF Sign
  <1>3. CASE a < b
    BY <1>1, <1>3, DigitsOrdered, LessCompares DEF Sign
  <1>4. CASE b < a
    BY <1>1, <1>4, DigitsOrdered, LessCompares DEF Sign
  <1> QED BY <1>2, <1>3, <1>4

LEMMA DigitsDiffer ==
    ASSUME NEW a \in Nat, NEW b \in Nat, Digits[a] = Digits[b]
    PROVE  a = b
  BY DigitsCompareAsNumbers DEF Sign

-----------------------------------------------------------------------------
(* Counting up.                                                            *)

LEMMA IncrementNines ==
    ASSUME NEW a \in Seq(0 .. 9), \A i \in 1 .. Len(a) : a[i] = 9
    PROVE  IncrementDecimal(a) = <<1>> \o [i \in 1 .. Len(a) |-> 0]
  <1>1. DOMAIN a = 1 .. Len(a)
    OBVIOUS
  <1>2. {i \in DOMAIN a : a[i] < 9} = {}
    BY <1>1
  <1> QED BY <1>1, <1>2 DEF IncrementDecimal

LEMMA IncrementBelow ==
    ASSUME NEW a \in Seq(0 .. 9), NEW l \in 1 .. Len(a), a[l] < 9,
           \A j \in l + 1 .. Len(a) : a[j] = 9
    PROVE  IncrementDecimal(a) =
               [i \in 1 .. Len(a) |-> IF i < l THEN a[i] ELSE IF i = l THEN a[i] + 1 ELSE 0]
  <1> DEFINE below == {i \in DOMAIN a : a[i] < 9}
             c == CHOOSE i \in below : \A j \in below : j <= i
             last == IF below = {} THEN 0 ELSE c
  <1>1. DOMAIN a = 1 .. Len(a) /\ Len(a) \in Nat
    OBVIOUS
  <1>2. l \in below /\ \A j \in below : j <= l
    <2>1. ASSUME NEW j \in below PROVE j <= l
      <3>1. j \notin l + 1 .. Len(a) /\ j \in 1 .. Len(a)
        BY <1>1
      <3> QED BY <1>1, <3>1
    <2> QED BY <1>1, <2>1
  <1>3. c \in below /\ \A j \in below : j <= c
    BY <1>2
  <1>4. below \subseteq Int
    BY <1>1
  <1>5. c = l
    <2> HIDE DEF below, c
    <2> QED BY <1>2, <1>3, <1>4
  <1>6. below # {} /\ last = l
    BY <1>2, <1>5
  <1>7. IncrementDecimal(a) =
            IF below = {} THEN <<1>> \o [i \in DOMAIN a |-> 0]
            ELSE [i \in DOMAIN a |-> IF i < last THEN a[i] ELSE IF i = last THEN a[i] + 1 ELSE 0]
    BY DEF IncrementDecimal
  <1> HIDE DEF below, c, last
  <1> QED BY <1>1, <1>6, <1>7

LEMMA IncrementLast ==
    ASSUME NEW a \in Seq(0 .. 9), NEW r \in 0 .. 8
    PROVE  IncrementDecimal(a \o <<r>>) = a \o <<r + 1>>
  <1> DEFINE b == a \o <<r>>
             l == Len(a) + 1
             c == a \o <<r + 1>>
  <1>1. /\ b \in Seq(0 .. 9) /\ Len(b) = l /\ \A i \in 1 .. Len(a) : b[i] = a[i]
        /\ b[l] = r /\ l \in 1 .. Len(b) /\ Len(a) \in Nat
    BY OneMore
  <1>2. /\ c \in Seq(0 .. 9) /\ Len(c) = l /\ \A i \in 1 .. Len(a) : c[i] = a[i]
        /\ c[l] = r + 1
    <2>1. r + 1 \in 0 .. 9
      OBVIOUS
    <2> QED BY <2>1, OneMore
  <1> HIDE DEF b, c
  <1>3. IncrementDecimal(b) =
            [i \in 1 .. Len(b) |-> IF i < l THEN b[i] ELSE IF i = l THEN b[i] + 1 ELSE 0]
    <2>1. b[l] < 9 /\ \A j \in l + 1 .. Len(b) : b[j] = 9
      BY <1>1
    <2> HIDE DEF l
    <2> QED BY <1>1, <2>1, IncrementBelow
  <1>4. c = [i \in 1 .. Len(b) |-> IF i < l THEN b[i] ELSE IF i = l THEN b[i] + 1 ELSE 0]
    <2>1. c = [i \in 1 .. Len(c) |-> c[i]]
      BY <1>2
    <2>2. ASSUME NEW i \in 1 .. Len(c)
          PROVE  c[i] = IF i < l THEN b[i] ELSE IF i = l THEN b[i] + 1 ELSE 0
      BY <1>1, <1>2
    <2> QED BY <1>1, <1>2, <2>1, <2>2
  <1> QED BY <1>3, <1>4 DEF b, c

LEMMA IncrementCarry ==
    ASSUME NEW a \in Seq(0 .. 9)
    PROVE  IncrementDecimal(a \o <<9>>) = IncrementDecimal(a) \o <<0>>
  <1> DEFINE b == a \o <<9>>
             n == Len(a)
  <1>1. /\ b \in Seq(0 .. 9) /\ Len(b) = n + 1 /\ \A i \in 1 .. n : b[i] = a[i]
        /\ b[n + 1] = 9 /\ n \in Nat
    BY OneMore
  <1> HIDE DEF b
  <1>2. CASE \A i \in 1 .. n : a[i] = 9
    <2>1. IncrementDecimal(a) = <<1>> \o [i \in 1 .. n |-> 0]
      BY <1>2, IncrementNines
    <2>2. IncrementDecimal(b) = <<1>> \o [i \in 1 .. n + 1 |-> 0]
      <3>1. \A i \in 1 .. Len(b) : b[i] = 9
        BY <1>1, <1>2
      <3> QED BY <1>1, <3>1, IncrementNines
    <2> HIDE DEF n
    <2> DEFINE z == [i \in 1 .. n |-> 0]
               y == [i \in 1 .. n + 1 |-> 0]
    <2>3. y = z \o <<0>>
      BY <1>1
    <2>4. z \in Seq(0 .. 9)
      BY <1>1
    <2> HIDE DEF z, y
    <2>5. <<1>> \o (z \o <<0>>) = (<<1>> \o z) \o <<0>>
      BY <2>4
    <2> QED BY <2>1, <2>2, <2>3, <2>5 DEF b, z, y
  <1>3. CASE ~ \A i \in 1 .. n : a[i] = 9
    <2>1. PICK l \in 1 .. n : a[l] < 9 /\ \A j \in l + 1 .. n : a[j] = 9
      <3> DEFINE T == {k \in 0 .. n : \E i \in 1 .. n : i = n - k /\ a[i] # 9}
      <3>1. T \in SUBSET Nat /\ T # {}
        <4>1. PICK i \in 1 .. n : a[i] # 9
          BY <1>3
        <4>2. n - i \in T
          BY <4>1, <1>1
        <4>3. T \subseteq Nat
          BY <1>1
        <4> HIDE DEF T
        <4> QED BY <4>2, <4>3
      <3>2. PICK k \in T : \A m \in T : k <= m
        <4> HIDE DEF T
        <4> QED BY <3>1, LeastOf
      <3>3. n - k \in 1 .. n /\ a[n - k] # 9 /\ k \in 0 .. n
        OBVIOUS
      <3>4. ASSUME NEW j \in (n - k) + 1 .. n PROVE a[j] = 9
        <4>1. n - j \notin T
          <5>1. n - j < k
            BY <1>1, <3>3
          <5>2. n - j \in Int /\ k \in Int
            BY <1>1, <3>3
          <5> HIDE DEF T, n
          <5> QED BY <3>2, <5>1, <5>2
        <4>2. j \in 1 .. n /\ n - j \in 0 .. n /\ j = n - (n - j)
          BY <1>1, <3>3
        <4> QED BY <4>1, <4>2
      <3>5. a[n - k] \in 0 .. 9
        BY <3>3
      <3>6. a[n - k] < 9
        BY <3>3, <3>5
      <3> DEFINE l == n - k
      <3>7. l \in 1 .. n /\ a[l] < 9 /\ \A j \in l + 1 .. n : a[j] = 9
        BY <3>3, <3>4, <3>6
      <3> HIDE DEF l, T, n
      <3> QED BY <3>7
    <2> DEFINE f == [i \in 1 .. n |-> IF i < l THEN a[i] ELSE IF i = l THEN a[i] + 1 ELSE 0]
               g == [i \in 1 .. n + 1 |-> IF i < l THEN b[i] ELSE IF i = l THEN b[i] + 1 ELSE 0]
    <2>2. IncrementDecimal(a) = f
      BY <2>1, IncrementBelow
    <2>3. IncrementDecimal(b) = g
      <3>1. l \in 1 .. Len(b) /\ b[l] < 9 /\ \A j \in l + 1 .. Len(b) : b[j] = 9
        BY <1>1, <2>1
      <3>2. IncrementDecimal(b) =
                [i \in 1 .. Len(b) |-> IF i < l THEN b[i] ELSE IF i = l THEN b[i] + 1 ELSE 0]
        BY <1>1, <3>1, IncrementBelow
      <3> QED BY <1>1, <3>2
    <2>4. f \in Seq(0 .. 9) /\ Len(f) = n
      <3>1. \A i \in 1 .. n : f[i] \in 0 .. 9
        <4>1. \A i \in 1 .. n : a[i] \in 0 .. 9
          OBVIOUS
        <4> HIDE DEF n
        <4> QED BY <2>1, <4>1
      <3> QED BY <1>1, <3>1
    <2>5. ASSUME NEW i \in 1 .. n + 1 PROVE (f \o <<0>>)[i] = g[i]
      <3>1. CASE i \in 1 .. n
        <4>1. (f \o <<0>>)[i] = f[i]
          <5> HIDE DEF f
          <5> QED BY <2>4, <3>1, OneMore
        <4> QED BY <1>1, <2>1, <3>1, <4>1
      <3>2. CASE i = n + 1
        <4>1. (f \o <<0>>)[n + 1] = 0
          <5> HIDE DEF f
          <5> QED BY <2>4, OneMore
        <4>2. ~(i < l) /\ i # l
          BY <1>1, <2>1, <3>2
        <4> QED BY <3>2, <4>1, <4>2
      <3> QED BY <1>1, <3>1, <3>2
    <2>6. f \o <<0>> = [i \in 1 .. n + 1 |-> (f \o <<0>>)[i]]
      <3> HIDE DEF f
      <3>1. f \o <<0>> \in Seq(0 .. 9) /\ Len(f \o <<0>>) = n + 1
        BY <2>4, OneMore
      <3> QED BY <3>1
    <2>7. f \o <<0>> = g
      <3> DEFINE e == f \o <<0>>
      <3>1. \A i \in 1 .. n + 1 : e[i] = g[i]
        BY <2>5
      <3>2. g = [i \in 1 .. n + 1 |-> g[i]]
        OBVIOUS
      <3>3. e = [i \in 1 .. n + 1 |-> e[i]]
        BY <2>6
      <3> HIDE DEF e, g, f
      <3>4. e = g
        BY <3>1, <3>2, <3>3
      <3> QED BY <3>4 DEF e
    <2> QED BY <2>2, <2>3, <2>7 DEF b
  <1> QED BY <1>2, <1>3

\* Adding one to the digits of a number gives those of the next.
LEMMA IncrementIsNext ==
    ASSUME NEW number \in Nat
    PROVE  IncrementDecimal(Digits[number]) = Digits[number + 1]
  <1> DEFINE T == {k \in Nat : IncrementDecimal(Digits[k]) # Digits[k + 1]}
  <1>1. SUFFICES ASSUME T # {} PROVE FALSE
    OBVIOUS
  <1>2. PICK k \in T : \A m \in T : k <= m
    <2>1. T \in SUBSET Nat
      OBVIOUS
    <2> HIDE DEF T
    <2> QED BY <1>1, <2>1, LeastOf
  <1>3. /\ k \in Nat /\ IncrementDecimal(Digits[k]) # Digits[k + 1]
        /\ \A m \in Nat : m < k => IncrementDecimal(Digits[m]) = Digits[m + 1]
    BY <1>2
  <1> HIDE DEF T
  <1>4. CASE k < 9
    <2>1. Digits[k] = <<>> \o <<k>> /\ Digits[k + 1] = <<>> \o <<k + 1>>
      <3>1. Digits[k] = <<k>> /\ Digits[k + 1] = <<k + 1>>
        BY <1>3, <1>4, DigitsOne
      <3> QED BY <3>1
    <2>2. <<>> \in Seq(0 .. 9) /\ k \in 0 .. 8
      BY <1>3, <1>4
    <2>3. IncrementDecimal(<<>> \o <<k>>) = <<>> \o <<k + 1>>
      BY <2>2, IncrementLast
    <2> QED BY <1>3, <2>1, <2>3
  <1>5. CASE k = 9
    <2>1. Digits[9] = <<9>> /\ Digits[1] = <<1>>
      BY DigitsOne
    <2>2. Digits[10] = <<1>> \o <<0>>
      <3>1. 10 \div 10 = 1 /\ 10 % 10 = 0
        OBVIOUS
      <3>2. Digits[10] = Digits[10 \div 10] \o <<10 % 10>>
        BY DigitsMore
      <3> QED BY <2>1, <3>1, <3>2
    <2>3. <<9>> = <<>> \o <<9>> /\ <<>> \in Seq(0 .. 9)
      OBVIOUS
    <2>4. IncrementDecimal(<<>>) = <<1>>
      <3>1. IncrementDecimal(<<>>) = <<1>> \o [i \in 1 .. Len(<<>>) |-> 0]
        <4>1. \A i \in 1 .. Len(<<>>) : <<>>[i] = 9
          OBVIOUS
        <4> DEFINE e == <<>>
        <4>2. e \in Seq(0 .. 9) /\ \A i \in 1 .. Len(e) : e[i] = 9
          BY <2>3, <4>1
        <4> HIDE DEF e
        <4>3. IncrementDecimal(e) = <<1>> \o [i \in 1 .. Len(e) |-> 0]
          BY <4>2, IncrementNines
        <4> QED BY <4>3 DEF e
      <3>2. <<1>> \o [i \in 1 .. Len(<<>>) |-> 0] = <<1>>
        OBVIOUS
      <3> QED BY <3>1, <3>2
    <2>5. IncrementDecimal(<<>> \o <<9>>) = IncrementDecimal(<<>>) \o <<0>>
      BY <2>3, IncrementCarry
    <2>6. 9 + 1 = 10
      OBVIOUS
    <2> QED BY <1>3, <1>5, <2>1, <2>2, <2>3, <2>4, <2>5, <2>6
  <1>6. CASE k >= 10
    <2> DEFINE d == k \div 10
               r == k % 10
    <2>1. d \in Nat /\ d < k /\ r \in 0 .. 9 /\ k = 10 * d + r
      BY <1>3, <1>6, DivFacts
    <2>2. Digits[k] = Digits[d] \o <<r>>
      BY <1>3, <1>6, DigitsMore
    <2>3. Digits[k + 1] = Digits[(k + 1) \div 10] \o <<(k + 1) % 10>>
      <3>1. k + 1 \in Nat /\ k + 1 >= 10
        BY <1>3, <1>6
      <3> QED BY <3>1, DigitsMore
    <2> HIDE DEF d, r
    <2>4. Digits[d] \in Seq(0 .. 9)
      BY <2>1, DigitsType
    <2>5. CASE r < 9
      <3>1. (k + 1) \div 10 = d /\ (k + 1) % 10 = r + 1
        BY <1>3, <2>1, <2>5
      <3>2. r \in 0 .. 8
        BY <2>1, <2>5
      <3>3. IncrementDecimal(Digits[d] \o <<r>>) = Digits[d] \o <<r + 1>>
        BY <2>4, <3>2, IncrementLast
      <3> QED BY <1>3, <2>2, <2>3, <3>1, <3>3
    <2>6. CASE r = 9
      <3>1. (k + 1) \div 10 = d + 1 /\ (k + 1) % 10 = 0
        BY <1>3, <2>1, <2>6
      <3>2. IncrementDecimal(Digits[d] \o <<9>>) = IncrementDecimal(Digits[d]) \o <<0>>
        BY <2>4, IncrementCarry
      <3>3. IncrementDecimal(Digits[d]) = Digits[d + 1]
        BY <1>3, <2>1
      <3> QED BY <1>3, <2>2, <2>3, <2>6, <3>1, <3>2, <3>3
    <2>7. r < 9 \/ r = 9
      BY <2>1
    <2> QED BY <2>5, <2>6, <2>7
  <1>7. k < 9 \/ k = 9 \/ k >= 10
    BY <1>3
  <1> QED BY <1>4, <1>5, <1>6, <1>7

-----------------------------------------------------------------------------
(* Versions.                                                               *)

\* Comparisons and the one that decides where they tie.
LEMMA LastSign ==
    ASSUME NEW n \in Nat, NEW f, DOMAIN f = 1 .. n, f = [i \in 1 .. n |-> f[i]], NEW p
    PROVE  /\ DOMAIN (f \o <<p>>) = 1 .. n + 1
           /\ \A i \in 1 .. n : (f \o <<p>>)[i] = f[i]
           /\ (f \o <<p>>)[n + 1] = p
  <1> DEFINE S == {f[i] : i \in 1 .. n} \cup {p}
  <1>1. f \in Seq(S) /\ Len(f) = n
    <2>1. f \in [1 .. n -> S]
      OBVIOUS
    <2> HIDE DEF S
    <2> QED BY <2>1
  <1>2. <<p>> \in Seq(S) /\ Len(<<p>>) = 1 /\ <<p>>[1] = p
    <2>1. p \in S
      OBVIOUS
    <2> HIDE DEF S
    <2> QED BY <2>1
  <1> HIDE DEF S
  <1> DEFINE q == <<p>>
             s == f \o q
  <1>3. /\ s \in Seq(S) /\ Len(s) = Len(f) + Len(q)
        /\ \A i \in 1 .. Len(f) + Len(q) : s[i] = IF i <= Len(f) THEN f[i] ELSE q[i - Len(f)]
    <2>1. f \in Seq(S) /\ q \in Seq(S)
      BY <1>1, <1>2
    <2> HIDE DEF q
    <2> QED BY <2>1, ConcatProperties
  <1>4. Len(f) = n /\ Len(q) = 1 /\ q[1] = p
    BY <1>1, <1>2
  <1> HIDE DEF q, s
  <1>5. DOMAIN s = 1 .. n + 1 /\ (\A i \in 1 .. n : s[i] = f[i]) /\ s[n + 1] = p
    <2>1. Len(f) + Len(q) = n + 1
      BY <1>4
    <2>2. DOMAIN s = 1 .. n + 1
      <3>1. DOMAIN s = 1 .. Len(s)
        BY <1>3
      <3> QED BY <1>3, <2>1, <3>1
    <2>3. \A i \in 1 .. n + 1 : s[i] = IF i <= n THEN f[i] ELSE q[i - n]
      BY <1>3, <1>4, <2>1
    <2>4. s[n + 1] = q[(n + 1) - n] /\ (n + 1) - n = 1
      BY <2>3
    <2> QED BY <1>4, <2>2, <2>3, <2>4
  <1> QED BY <1>5 DEF q, s

\* The comparison of two versions looks at three numbers, then at the prereleases.
LEMMA SemverCompareIs ==
    ASSUME NEW v, NEW w
    PROVE  \E s : /\ SemverCompare(v, w) = FirstDifference(s) /\ DOMAIN s = 1 .. 4
                  /\ \A i \in 1 .. 3 : s[i] = Sign(v.core[i], w.core[i])
                  /\ s[4] = ComparePrerelease(v.pre, w.pre)
  <1> DEFINE f == [i \in 1 .. 3 |-> Sign(v.core[i], w.core[i])]
             p == ComparePrerelease(v.pre, w.pre)
             s == f \o <<p>>
  <1>1. SemverCompare(v, w) = FirstDifference(s)
    BY DEF SemverCompare
  <1>2. DOMAIN f = 1 .. 3 /\ f = [i \in 1 .. 3 |-> f[i]]
        /\ \A i \in 1 .. 3 : f[i] = Sign(v.core[i], w.core[i])
    OBVIOUS
  <1>3. DOMAIN s = 1 .. 4 /\ (\A i \in 1 .. 3 : s[i] = f[i]) /\ s[4] = p
    <2> HIDE DEF f, p
    <2>1. 3 \in Nat /\ 3 + 1 = 4
      OBVIOUS
    <2>2. /\ DOMAIN (f \o <<p>>) = 1 .. 3 + 1
          /\ \A i \in 1 .. 3 : (f \o <<p>>)[i] = f[i]
          /\ (f \o <<p>>)[3 + 1] = p
      BY <1>2, <2>1, LastSign
    <2> QED BY <2>1, <2>2
  <1>4. s[4] = ComparePrerelease(v.pre, w.pre)
        /\ \A i \in 1 .. 3 : s[i] = Sign(v.core[i], w.core[i])
    <2> HIDE DEF s, f
    <2> QED BY <1>2, <1>3 DEF p
  <1>5. DOMAIN s = 1 .. 4
    BY <1>3
  <1> HIDE DEF s
  <1> QED BY <1>1, <1>4, <1>5

\* That of two prereleases looks at one identifier after the other, then at the
\* lengths.
IdentifierSigns(a, b, n, s) ==
    /\ ComparePrerelease(a, b) = FirstDifference(s) /\ DOMAIN s = 1 .. n + 1
    /\ n = (IF Len(a) < Len(b) THEN Len(a) ELSE Len(b))
    /\ s[n + 1] = Sign(Len(a), Len(b))
    /\ \A i \in 1 .. n : s[i] = CompareIdentifier(a[i], b[i])

LEMMA ComparePrereleaseIs ==
    ASSUME NEW a \in Seq(Identifiers), NEW b \in Seq(Identifiers), a # <<>>, b # <<>>
    PROVE  \E n \in Nat : \E s : IdentifierSigns(a, b, n, s)
  <1> DEFINE n == IF Len(a) < Len(b) THEN Len(a) ELSE Len(b)
             f == [i \in 1 .. n |-> CompareIdentifier(a[i], b[i])]
             p == Sign(Len(a), Len(b))
             s == f \o <<p>>
  <1>1. n \in Nat /\ n = (IF Len(a) < Len(b) THEN Len(a) ELSE Len(b))
    OBVIOUS
  <1>2. ComparePrerelease(a, b) = FirstDifference(s)
    BY DEF ComparePrerelease, PrereleaseOrder, Shared
  <1> HIDE DEF n
  <1>3. /\ DOMAIN f = 1 .. n /\ f = [i \in 1 .. n |-> f[i]]
        /\ \A i \in 1 .. n : f[i] = CompareIdentifier(a[i], b[i])
    OBVIOUS
  <1>4. DOMAIN s = 1 .. n + 1 /\ (\A i \in 1 .. n : s[i] = f[i]) /\ s[n + 1] = p
    <2> HIDE DEF f, p
    <2> QED BY <1>1, <1>3, LastSign
  <1>5. s[n + 1] = Sign(Len(a), Len(b)) /\ \A i \in 1 .. n : s[i] = CompareIdentifier(a[i], b[i])
    <2> HIDE DEF s, f
    <2> QED BY <1>3, <1>4 DEF p
  <1>6. DOMAIN s = 1 .. n + 1
    BY <1>4
  <1> HIDE DEF s
  <1> QED BY <1>1, <1>2, <1>5, <1>6 DEF IdentifierSigns

LEMMA SameIdentifier ==
    ASSUME NEW x \in Identifiers
    PROVE  CompareIdentifier(x, x) = 0
  BY DEF CompareIdentifier, Sign

LEMMA BeforeCompares ==
    ASSUME NEW x \in Identifiers, NEW y \in Identifiers, Before(x, y)
    PROVE  CompareIdentifier(x, y) = -1 /\ CompareIdentifier(y, x) = 1
  <1>1. x.numeric \in BOOLEAN /\ y.numeric \in BOOLEAN /\ x.rank \in Nat /\ y.rank \in Nat
    BY DEF Identifiers
  <1>2. CASE x.numeric = y.numeric
    <2>1. x.rank < y.rank
      BY <1>1, <1>2 DEF Before
    <2>2. Sign(x.rank, y.rank) = -1 /\ Sign(y.rank, x.rank) = 1
      BY <1>1, <2>1 DEF Sign
    <2> QED BY <1>2, <2>2 DEF CompareIdentifier
  <1>3. CASE x.numeric # y.numeric
    <2>1. x.numeric /\ ~y.numeric
      BY <1>1, <1>3 DEF Before
    <2> QED BY <1>3, <2>1 DEF CompareIdentifier
  <1> QED BY <1>2, <1>3

LEMMA SamePrerelease ==
    ASSUME NEW a \in Seq(Identifiers)
    PROVE  ComparePrerelease(a, a) = 0
  <1>1. CASE a = <<>>
    BY <1>1 DEF ComparePrerelease, PrereleaseOrder
  <1>2. CASE a # <<>>
    <2>21. PICK n \in Nat : \E s : IdentifierSigns(a, a, n, s)
      BY <1>2, ComparePrereleaseIs
    <2>1. PICK s :
              /\ ComparePrerelease(a, a) = FirstDifference(s) /\ DOMAIN s = 1 .. n + 1
              /\ n = (IF Len(a) < Len(a) THEN Len(a) ELSE Len(a))
              /\ s[n + 1] = Sign(Len(a), Len(a))
              /\ \A i \in 1 .. n : s[i] = CompareIdentifier(a[i], a[i])
      BY <2>21 DEF IdentifierSigns
    <2>2. ASSUME NEW j \in 1 .. n + 1 PROVE s[j] = 0
      <3>1. CASE j = n + 1
        BY <2>1, <3>1 DEF Sign
      <3>2. CASE j # n + 1
        <4>1. j \in 1 .. n /\ n = Len(a)
          BY <2>1, <3>2
        <4>2. a[j] \in Identifiers
          BY <4>1
        <4> QED BY <2>1, <4>1, <4>2, SameIdentifier
      <3> QED BY <3>1, <3>2
    <2> QED BY <2>1, <2>2, NoneIs
  <1> QED BY <1>1, <1>2

LEMMA PrereleaseCompares ==
    ASSUME NEW a \in Seq(Identifiers), NEW b \in Seq(Identifiers), PrereleasePrecedes(a, b)
    PROVE  ComparePrerelease(a, b) = -1 /\ ComparePrerelease(b, a) = 1
  <1>1. a # <<>>
    BY DEF PrereleasePrecedes
  <1>2. CASE b = <<>>
    BY <1>1, <1>2 DEF ComparePrerelease, PrereleaseOrder
  <1>3. CASE b # <<>>
    <2>21. PICK n \in Nat : \E s : IdentifierSigns(a, b, n, s)
      BY <1>1, <1>3, ComparePrereleaseIs
    <2>1. PICK s :
              /\ ComparePrerelease(a, b) = FirstDifference(s) /\ DOMAIN s = 1 .. n + 1
              /\ n = (IF Len(a) < Len(b) THEN Len(a) ELSE Len(b))
              /\ s[n + 1] = Sign(Len(a), Len(b))
              /\ \A i \in 1 .. n : s[i] = CompareIdentifier(a[i], b[i])
      BY <2>21 DEF IdentifierSigns
    <2>22. PICK m \in Nat : \E t : IdentifierSigns(b, a, m, t)
      BY <1>1, <1>3, ComparePrereleaseIs
    <2>2. PICK t :
              /\ ComparePrerelease(b, a) = FirstDifference(t) /\ DOMAIN t = 1 .. m + 1
              /\ m = (IF Len(b) < Len(a) THEN Len(b) ELSE Len(a))
              /\ t[m + 1] = Sign(Len(b), Len(a))
              /\ \A i \in 1 .. m : t[i] = CompareIdentifier(b[i], a[i])
      BY <2>22 DEF IdentifierSigns
    <2>3. PICK k \in 0 .. Len(a) :
              /\ k < Len(b) /\ \A i \in 1 .. k : a[i] = b[i]
              /\ k = Len(a) \/ Before(a[k + 1], b[k + 1])
      BY <1>3 DEF PrereleasePrecedes
    <2>4. Len(a) \in Nat /\ Len(b) \in Nat
      OBVIOUS
    <2>5. m = n /\ k <= n
      BY <2>1, <2>2, <2>3, <2>4
    <2>6. ASSUME NEW j \in 1 .. k PROVE s[j] = 0 /\ t[j] = 0
      <3>1. a[j] = b[j] /\ j \in 1 .. n /\ j \in 1 .. Len(a)
        BY <2>3, <2>4, <2>5
      <3>2. a[j] \in Identifiers
        BY <3>1
      <3>3. CompareIdentifier(a[j], b[j]) = 0 /\ CompareIdentifier(b[j], a[j]) = 0
        BY <3>1, <3>2, SameIdentifier
      <3> QED BY <2>1, <2>2, <2>5, <3>1, <3>3
    <2>7. s[k + 1] = -1 /\ t[k + 1] = 1
      <3>1. CASE k = n
        <4>1. Len(a) < Len(b) /\ n = Len(a)
          <5>1. CASE k = Len(a)
            BY <2>1, <2>3, <2>4, <3>1, <5>1
          <5>2. CASE k < Len(a)
            BY <2>1, <2>3, <2>4, <3>1, <5>2
          <5> QED BY <2>3, <2>4, <5>1, <5>2
        <4> QED BY <2>1, <2>2, <2>4, <2>5, <3>1, <4>1 DEF Sign
      <3>2. CASE k < n
        <4>1. k # Len(a) /\ k + 1 \in 1 .. n /\ k + 1 \in 1 .. Len(a) /\ k + 1 \in 1 .. Len(b)
          BY <2>1, <2>3, <2>4, <3>2
        <4>2. a[k + 1] \in Identifiers /\ b[k + 1] \in Identifiers /\ Before(a[k + 1], b[k + 1])
          BY <2>3, <4>1
        <4>3. CompareIdentifier(a[k + 1], b[k + 1]) = -1 /\ CompareIdentifier(b[k + 1], a[k + 1]) = 1
          BY <4>2, BeforeCompares
        <4> QED BY <2>1, <2>2, <2>5, <4>1, <4>3
      <3> QED BY <2>3, <2>5, <3>1, <3>2
    <2>8. FirstDifference(s) = s[k + 1] /\ FirstDifference(t) = t[k + 1]
      <3> DEFINE p == n + 1
                 l == k + 1
      <3>1. /\ p \in Nat /\ DOMAIN s = 1 .. p /\ DOMAIN t = 1 .. p /\ l \in 1 .. p
            /\ s[l] # 0 /\ t[l] # 0 /\ \A j \in 1 .. l - 1 : s[j] = 0 /\ t[j] = 0
        BY <2>1, <2>2, <2>3, <2>5, <2>6, <2>7
      <3> HIDE DEF p, l
      <3>2. FirstDifference(s) = s[l] /\ FirstDifference(t) = t[l]
        BY <3>1, FirstIs
      <3> QED BY <3>2 DEF l
    <2> QED BY <2>1, <2>2, <2>7, <2>8
  <1> QED BY <1>2, <1>3

\* A version that precedes another compares as less, and the other as greater.
LEMMA PrecedesCompares ==
    ASSUME NEW v \in Versions, NEW w \in Versions, Precedes(v, w)
    PROVE  SemverCompare(v, w) = -1 /\ SemverCompare(w, v) = 1
  <1>1. PICK s : /\ SemverCompare(v, w) = FirstDifference(s) /\ DOMAIN s = 1 .. 4
                 /\ \A i \in 1 .. 3 : s[i] = Sign(v.core[i], w.core[i])
                 /\ s[4] = ComparePrerelease(v.pre, w.pre)
    BY SemverCompareIs
  <1>2. PICK t : /\ SemverCompare(w, v) = FirstDifference(t) /\ DOMAIN t = 1 .. 4
                 /\ \A i \in 1 .. 3 : t[i] = Sign(w.core[i], v.core[i])
                 /\ t[4] = ComparePrerelease(w.pre, v.pre)
    BY SemverCompareIs
  <1>3. \A i \in 1 .. 3 : v.core[i] \in Nat /\ w.core[i] \in Nat
    BY DEF Versions, Cores
  <1>4. v.pre \in Seq(Identifiers) /\ w.pre \in Seq(Identifiers)
    BY DEF Versions
  <1>5. \E l \in 1 .. 4 : s[l] = -1 /\ t[l] = 1 /\ \A j \in 1 .. l - 1 : s[j] = 0 /\ t[j] = 0
    <2>1. CASE \E i \in 1 .. 3 : v.core[i] < w.core[i] /\ \A j \in 1 .. i - 1 : v.core[j] = w.core[j]
      <3>1. PICK i \in 1 .. 3 : v.core[i] < w.core[i] /\ \A j \in 1 .. i - 1 : v.core[j] = w.core[j]
        BY <2>1
      <3>2. Sign(v.core[i], w.core[i]) = -1 /\ Sign(w.core[i], v.core[i]) = 1
        BY <1>3, <3>1 DEF Sign
      <3>3. ASSUME NEW j \in 1 .. i - 1 PROVE s[j] = 0 /\ t[j] = 0
        <4>1. j \in 1 .. 3 /\ v.core[j] = w.core[j]
          BY <3>1
        <4> QED BY <1>1, <1>2, <4>1 DEF Sign
      <3> QED BY <1>1, <1>2, <3>2, <3>3
    <2>2. CASE v.core = w.core /\ PrereleasePrecedes(v.pre, w.pre)
      <3>1. s[4] = -1 /\ t[4] = 1
        BY <1>1, <1>2, <1>4, <2>2, PrereleaseCompares
      <3>2. \A j \in 1 .. 4 - 1 : s[j] = 0 /\ t[j] = 0
        BY <1>1, <1>2, <2>2 DEF Sign
      <3> QED BY <3>1, <3>2
    <2> QED BY <2>1, <2>2 DEF Precedes
  <1>6. PICK l \in 1 .. 4 : s[l] = -1 /\ t[l] = 1 /\ \A j \in 1 .. l - 1 : s[j] = 0 /\ t[j] = 0
    BY <1>5
  <1>7. 4 \in Nat /\ s[l] # 0 /\ t[l] # 0
    BY <1>6
  <1>8. FirstDifference(s) = s[l] /\ FirstDifference(t) = t[l]
    BY <1>1, <1>2, <1>6, <1>7, FirstIs
  <1> QED BY <1>1, <1>2, <1>6, <1>8

LEMMA SameVersion ==
    ASSUME NEW v \in Versions
    PROVE  SemverCompare(v, v) = 0
  <1>1. PICK s : /\ SemverCompare(v, v) = FirstDifference(s) /\ DOMAIN s = 1 .. 4
                 /\ \A i \in 1 .. 3 : s[i] = Sign(v.core[i], v.core[i])
                 /\ s[4] = ComparePrerelease(v.pre, v.pre)
    BY SemverCompareIs
  <1>2. s[4] = 0
    BY <1>1, SamePrerelease DEF Versions
  <1>3. \A j \in 1 .. 4 : s[j] = 0
    BY <1>1, <1>2 DEF Sign
  <1>4. 4 \in Nat
    OBVIOUS
  <1> QED BY <1>1, <1>3, <1>4, NoneIs

LEMMA IdentifiersApart ==
    ASSUME NEW x \in Identifiers, NEW y \in Identifiers, x # y
    PROVE  Before(x, y) \/ Before(y, x)
  <1>1. /\ x.numeric \in BOOLEAN /\ y.numeric \in BOOLEAN /\ x.rank \in Nat /\ y.rank \in Nat
        /\ x = [numeric |-> x.numeric, rank |-> x.rank]
        /\ y = [numeric |-> y.numeric, rank |-> y.rank]
    BY DEF Identifiers
  <1>2. CASE x.numeric = y.numeric
    <2>1. x.rank # y.rank
      BY <1>1, <1>2
    <2> QED BY <1>1, <1>2, <2>1 DEF Before
  <1>3. CASE x.numeric # y.numeric
    <2>1. (x.numeric /\ ~y.numeric) \/ (y.numeric /\ ~x.numeric)
      BY <1>1, <1>3
    <2> QED BY <2>1 DEF Before
  <1> QED BY <1>2, <1>3

LEMMA PrereleasesApart ==
    ASSUME NEW a \in Seq(Identifiers), NEW b \in Seq(Identifiers), a # b
    PROVE  PrereleasePrecedes(a, b) \/ PrereleasePrecedes(b, a)
  <1>1. CASE a = <<>> \/ b = <<>>
    BY <1>1 DEF PrereleasePrecedes
  <1>2. CASE a # <<>> /\ b # <<>>
    <2> DEFINE T == {k \in Nat : \/ k >= Len(a) \/ k >= Len(b) \/ a[k + 1] # b[k + 1]}
    <2>1. Len(a) \in Nat /\ Len(b) \in Nat
      OBVIOUS
    <2>2. T \in SUBSET Nat /\ T # {}
      <3>1. Len(a) \in T
        BY <2>1
      <3> QED BY <3>1
    <2>3. PICK k \in T : \A m \in T : k <= m
      <3> HIDE DEF T
      <3> QED BY <2>2, LeastOf
    <2>4. k \in Nat /\ (k >= Len(a) \/ k >= Len(b) \/ a[k + 1] # b[k + 1])
      OBVIOUS
    <2>5. ASSUME NEW m \in Nat, m < k PROVE m < Len(a) /\ m < Len(b) /\ a[m + 1] = b[m + 1]
      <3>1. m \notin T
        <4> HIDE DEF T
        <4> QED BY <2>3, <2>4, <2>5
      <3> QED BY <2>1, <2>5, <3>1
    <2>6. k <= Len(a) /\ k <= Len(b)
      <3>1. CASE k = 0
        BY <2>1, <3>1
      <3>2. CASE k # 0
        <4>1. k - 1 \in Nat /\ k - 1 < k
          BY <2>4, <3>2
        <4> QED BY <2>1, <2>4, <2>5, <4>1
      <3> QED BY <3>1, <3>2
    <2>7. \A i \in 1 .. k : a[i] = b[i]
      <3>1. ASSUME NEW i \in 1 .. k PROVE a[i] = b[i]
        <4>1. i - 1 \in Nat /\ i - 1 < k /\ (i - 1) + 1 = i
          BY <2>4
        <4> QED BY <2>5, <4>1
      <3> QED BY <3>1
    <2> HIDE DEF T
    <2>8. CASE k = Len(a) /\ k < Len(b)
      BY <1>2, <2>1, <2>4, <2>7, <2>8 DEF PrereleasePrecedes
    <2>9. CASE k = Len(b) /\ k < Len(a)
      BY <1>2, <2>1, <2>4, <2>7, <2>9 DEF PrereleasePrecedes
    <2>10. CASE k = Len(a) /\ k = Len(b)
      <3>1. a = b
        BY <2>7, <2>10, SeqEqual
      <3> QED BY <3>1
    <2>11. CASE k < Len(a) /\ k < Len(b)
      <3>1. a[k + 1] # b[k + 1] /\ k + 1 \in 1 .. Len(a) /\ k + 1 \in 1 .. Len(b)
        BY <2>1, <2>4, <2>11
      <3>2. Before(a[k + 1], b[k + 1]) \/ Before(b[k + 1], a[k + 1])
        BY <3>1, IdentifiersApart
      <3>3. k \in 0 .. Len(a) /\ k \in 0 .. Len(b)
        BY <2>1, <2>4, <2>11
      <3> QED BY <1>2, <2>7, <2>11, <3>2, <3>3 DEF PrereleasePrecedes
    <2> QED BY <2>1, <2>4, <2>6, <2>8, <2>9, <2>10, <2>11
  <1> QED BY <1>1, <1>2

LEMMA VersionsApart ==
    ASSUME NEW v \in Versions, NEW w \in Versions, v # w
    PROVE  Precedes(v, w) \/ Precedes(w, v)
  <1>1. /\ v.core \in Cores /\ w.core \in Cores /\ v.pre \in Seq(Identifiers) /\ w.pre \in Seq(Identifiers)
        /\ v = [core |-> v.core, pre |-> v.pre] /\ w = [core |-> w.core, pre |-> w.pre]
    BY DEF Versions
  <1>2. CASE v.core = w.core
    <2>1. v.pre # w.pre
      BY <1>1, <1>2
    <2> QED BY <1>1, <1>2, <2>1, PrereleasesApart DEF Precedes
  <1>3. CASE v.core # w.core
    <2> DEFINE c == v.core
               d == w.core
    <2>1. \A i \in 1 .. 3 : c[i] \in Nat /\ d[i] \in Nat
      BY <1>1 DEF Cores
    <2>2. \E i \in 1 .. 3 : c[i] # d[i]
      BY <1>1, <1>3 DEF Cores
    <2> HIDE DEF c, d
    <2>3. \E i \in 1 .. 3 : c[i] # d[i] /\ \A j \in 1 .. i - 1 : c[j] = d[j]
      <3>1. CASE c[1] # d[1]
        BY <3>1
      <3>2. CASE c[1] = d[1] /\ c[2] # d[2]
        <4>1. \A j \in 1 .. 2 - 1 : c[j] = d[j]
          BY <3>2
        <4> QED BY <3>2, <4>1
      <3>3. CASE c[1] = d[1] /\ c[2] = d[2]
        <4>1. c[3] # d[3] /\ \A j \in 1 .. 3 - 1 : c[j] = d[j]
          BY <2>2, <3>3
        <4> QED BY <4>1
      <3> QED BY <3>1, <3>2, <3>3
    <2>4. PICK i \in 1 .. 3 : c[i] # d[i] /\ \A j \in 1 .. i - 1 : c[j] = d[j]
      BY <2>3
    <2>5. c[i] < d[i] \/ d[i] < c[i]
      BY <2>1, <2>4
    <2> QED BY <2>4, <2>5 DEF Precedes, c, d
  <1> QED BY <1>2, <1>3

\* semverCompare is the order of semver.org on all versions: less exactly when one
\* precedes the other, a tie only of a version with itself.
THEOREM ComparedAsOrdered ==
    ASSUME NEW v \in Versions, NEW w \in Versions
    PROVE  /\ SemverCompare(v, w) = -1 <=> Precedes(v, w)
           /\ SemverCompare(v, w) = 1 <=> Precedes(w, v)
           /\ SemverCompare(v, w) = 0 <=> v = w
  <1>1. CASE v = w
    <2>1. SemverCompare(v, w) = 0
      BY <1>1, SameVersion
    <2>2. ~Precedes(v, w) /\ ~Precedes(w, v)
      BY <1>1, <2>1, PrecedesCompares
    <2> QED BY <1>1, <2>1, <2>2
  <1>2. CASE Precedes(v, w)
    <2>1. SemverCompare(v, w) = -1
      BY <1>2, PrecedesCompares
    <2>2. ~Precedes(w, v)
      BY <2>1, PrecedesCompares
    <2>3. v # w
      BY <2>1, SameVersion
    <2> QED BY <1>2, <2>1, <2>2, <2>3
  <1>3. CASE Precedes(w, v)
    <2>1. SemverCompare(v, w) = 1
      BY <1>3, PrecedesCompares
    <2>2. ~Precedes(v, w)
      BY <2>1, PrecedesCompares
    <2>3. v # w
      BY <2>1, SameVersion
    <2> QED BY <1>3, <2>1, <2>2, <2>3
  <1> QED BY <1>1, <1>2, <1>3, VersionsApart

-----------------------------------------------------------------------------
(* Versions as texts.                                                      *)

\* The prerelease of a version as the texts of its identifiers.
IdentifierTexts == {IdentifierInDigits(x) : x \in Identifiers}

LEMMA PrereleaseInDigits ==
    ASSUME NEW v \in Versions
    PROVE  /\ InDigits(v).pre \in Seq(IdentifierTexts) /\ Len(InDigits(v).pre) = Len(v.pre)
           /\ \A i \in 1 .. Len(v.pre) : InDigits(v).pre[i] = IdentifierInDigits(v.pre[i])
           /\ InDigits(v).pre = <<>> <=> v.pre = <<>>
  <1> DEFINE n == Len(v.pre)
             d == [i \in 1 .. n |-> IdentifierInDigits(v.pre[i])]
  <1>1. v.pre \in Seq(Identifiers) /\ DOMAIN v.pre = 1 .. n /\ n \in Nat
    BY DEF Versions
  <1>2. InDigits(v).pre = d
    BY <1>1 DEF InDigits, Version
  <1>3. \A i \in 1 .. n : IdentifierInDigits(v.pre[i]) \in IdentifierTexts
    BY <1>1 DEF IdentifierTexts
  <1>4. v.pre = <<>> <=> n = 0
    BY <1>1
  <1> HIDE DEF n
  <1>5. d \in Seq(IdentifierTexts) /\ Len(d) = n
    BY <1>1, <1>3
  <1>6. \A i \in 1 .. n : d[i] = IdentifierInDigits(v.pre[i])
    OBVIOUS
  <1> HIDE DEF d
  <1>7. d = <<>> <=> n = 0
    BY <1>5
  <1> QED BY <1>2, <1>4, <1>5, <1>6, <1>7 DEF n

LEMMA CoreInDigits ==
    ASSUME NEW v \in Versions
    PROVE  /\ InDigits(v).core \in Seq(Seq(0 .. 9)) /\ Len(InDigits(v).core) = 3
           /\ InDigits(v).core = [i \in 1 .. 3 |-> Digits[v.core[i]]]
           /\ \A i \in 1 .. 3 : v.core[i] \in Nat
  <1> DEFINE d == [i \in 1 .. 3 |-> Digits[v.core[i]]]
  <1>1. \A i \in 1 .. 3 : v.core[i] \in Nat
    BY DEF Versions, Cores
  <1>2. \A i \in 1 .. 3 : Digits[v.core[i]] \in Seq(0 .. 9)
    BY <1>1, DigitsType
  <1>3. d \in Seq(Seq(0 .. 9)) /\ Len(d) = 3
    BY <1>2
  <1> QED BY <1>1, <1>3 DEF InDigits, Version

\* In digits the comparison of Rust is the same.
LEMMA IdentifierCompares ==
    ASSUME NEW x \in Identifiers, NEW y \in Identifiers
    PROVE  CompareIdentifierInDigits(IdentifierInDigits(x), IdentifierInDigits(y))
               = CompareIdentifier(x, y)
  <1>1. /\ x.numeric \in BOOLEAN /\ y.numeric \in BOOLEAN /\ x.rank \in Nat /\ y.rank \in Nat
        /\ x = [numeric |-> x.numeric, rank |-> x.rank]
        /\ y = [numeric |-> y.numeric, rank |-> y.rank]
    BY DEF Identifiers
  <1>2. CompareDigits(Digits[x.rank], Digits[y.rank]) = Sign(x.rank, y.rank)
    BY <1>1, DigitsCompareAsNumbers
  <1> QED BY <1>1, <1>2 DEF CompareIdentifierInDigits, CompareIdentifier, IdentifierInDigits, Numeric

LEMMA PrereleaseOrdersAlike ==
    ASSUME NEW v \in Versions, NEW w \in Versions
    PROVE  LET a == InDigits(v).pre
               b == InDigits(w).pre
           IN PrereleaseOrder(a, b, [i \in Shared(a, b) |-> CompareIdentifierInDigits(a[i], b[i])])
                  = ComparePrerelease(v.pre, w.pre)
  <1> DEFINE a == InDigits(v).pre
             b == InDigits(w).pre
             x == v.pre
             y == w.pre
             f == [i \in Shared(a, b) |-> CompareIdentifierInDigits(a[i], b[i])]
             g == [i \in Shared(x, y) |-> CompareIdentifier(x[i], y[i])]
  <1>1. /\ x \in Seq(Identifiers) /\ y \in Seq(Identifiers) /\ Len(a) = Len(x) /\ Len(b) = Len(y)
        /\ a = <<>> <=> x = <<>>
        /\ b = <<>> <=> y = <<>>
        /\ \A i \in 1 .. Len(x) : a[i] = IdentifierInDigits(x[i])
        /\ \A i \in 1 .. Len(y) : b[i] = IdentifierInDigits(y[i])
    BY PrereleaseInDigits DEF Versions
  <1>2. ComparePrerelease(x, y) = PrereleaseOrder(x, y, g)
    BY DEF ComparePrerelease
  <1> HIDE DEF a, b, x, y
  <1>3. Shared(a, b) = Shared(x, y)
    BY <1>1 DEF Shared
  <1>4. ASSUME NEW i \in Shared(x, y)
        PROVE  CompareIdentifierInDigits(a[i], b[i]) = CompareIdentifier(x[i], y[i])
    <2>1. i \in 1 .. Len(x) /\ i \in 1 .. Len(y)
      BY <1>1 DEF Shared
    <2>2. x[i] \in Identifiers /\ y[i] \in Identifiers
      BY <1>1, <2>1
    <2> QED BY <1>1, <2>1, <2>2, IdentifierCompares
  <1>5. f = g
    BY <1>3, <1>4
  <1> HIDE DEF f, g
  <1>6. PrereleaseOrder(a, b, f) = PrereleaseOrder(x, y, g)
    BY <1>1, <1>5 DEF PrereleaseOrder
  <1> QED BY <1>2, <1>6 DEF a, b, x, y, f

LEMMA ComparedInDigits ==
    ASSUME NEW v \in Versions, NEW w \in Versions
    PROVE  CompareInDigits(InDigits(v), InDigits(w)) = SemverCompare(v, w)
  <1> DEFINE a == InDigits(v)
             b == InDigits(w)
             f == [i \in 1 .. 3 |-> CompareDigits(a.core[i], b.core[i])]
             g == [i \in 1 .. 3 |-> Sign(v.core[i], w.core[i])]
             p == PrereleaseOrder(a.pre, b.pre,
                    [i \in Shared(a.pre, b.pre) |-> CompareIdentifierInDigits(a.pre[i], b.pre[i])])
  <1>1. p = ComparePrerelease(v.pre, w.pre)
    BY PrereleaseOrdersAlike
  <1>2. ASSUME NEW i \in 1 .. 3
        PROVE  CompareDigits(a.core[i], b.core[i]) = Sign(v.core[i], w.core[i])
    <2>1. v.core[i] \in Nat /\ w.core[i] \in Nat
      BY CoreInDigits
    <2>2. a.core[i] = Digits[v.core[i]] /\ b.core[i] = Digits[w.core[i]]
      BY CoreInDigits
    <2> HIDE DEF a, b
    <2> QED BY <2>1, <2>2, DigitsCompareAsNumbers
  <1>3. CompareInDigits(a, b) = FirstDifference(f \o <<p>>)
    BY DEF CompareInDigits
  <1>4. SemverCompare(v, w) = FirstDifference(g \o <<ComparePrerelease(v.pre, w.pre)>>)
    BY DEF SemverCompare
  <1> HIDE DEF a, b, p
  <1>5. f = g
    BY <1>2
  <1> HIDE DEF f, g
  <1> QED BY <1>1, <1>3, <1>4, <1>5 DEF a, b

\* So is that of Go, which asks whether two texts are the same before it looks where
\* they part.
LEMMA PartingIs ==
    ASSUME NEW A, NEW a \in Seq(A), NEW b \in Seq(A), NEW i \in 1 .. Len(a), i <= Len(b),
           a[i] # b[i], \A j \in 1 .. i - 1 : a[j] = b[j]
    PROVE  Parting(a, b) = i /\ Parting(b, a) = i
  <1> DEFINE Parts(x, y, k) == k \in Shared(x, y) /\ x[k] # y[k] /\ \A j \in 1 .. k - 1 : x[j] = y[j]
  <1>1. Shared(a, b) = Shared(b, a) /\ Shared(a, b) \subseteq Nat /\ i \in Shared(a, b)
        /\ \A k \in Shared(a, b) : k >= 1
    BY DEF Shared
  <1>2. Parts(a, b, i) /\ Parts(b, a, i)
    BY <1>1
  <1>3. ASSUME NEW k, Parts(a, b, k) \/ Parts(b, a, k) PROVE k = i
    <2>1. k \in Nat /\ k >= 1 /\ i \in Nat /\ a[k] # b[k] /\ \A j \in 1 .. k - 1 : a[j] = b[j]
      BY <1>1, <1>3
    <2>2. ~(k < i) /\ ~(i < k)
      BY <2>1
    <2> QED BY <2>1, <2>2
  <1>4. /\ Parting(a, b) = CHOOSE k \in Shared(a, b) : a[k] # b[k] /\ \A j \in 1 .. k - 1 : a[j] = b[j]
        /\ Parting(b, a) = CHOOSE k \in Shared(b, a) : b[k] # a[k] /\ \A j \in 1 .. k - 1 : b[j] = a[j]
    BY DEF Parting
  <1>5. Parts(a, b, Parting(a, b)) /\ Parts(b, a, Parting(b, a))
    BY <1>2, <1>4, Zenon
  <1> HIDE DEF Parts
  <1> QED BY <1>3, <1>5

LEMMA LessAsText ==
    ASSUME NEW a \in Seq(0 .. 9), NEW b \in Seq(0 .. 9), Less(a, b)
    PROVE  CompareInt(a, b) = -1 /\ CompareInt(b, a) = 1
  <1>1. Len(a) \in Nat /\ Len(b) \in Nat
    OBVIOUS
  <1>2. CASE Len(a) < Len(b)
    <2>1. a # b /\ ~(Len(b) < Len(a)) /\ Len(b) > Len(a)
      BY <1>1, <1>2
    <2> QED BY <1>2, <2>1 DEF CompareInt
  <1>3. CASE ~(Len(a) < Len(b))
    <2>1. PICK i \in 1 .. Len(a) : a[i] < b[i] /\ \A j \in 1 .. i - 1 : a[j] = b[j]
      BY <1>3 DEF Less
    <2>2. Len(a) = Len(b)
      BY <1>3 DEF Less
    <2>3. a[i] \in 0 .. 9 /\ b[i] \in 0 .. 9 /\ a[i] # b[i]
      BY <2>1, <2>2
    <2>4. Parting(a, b) = i /\ Parting(b, a) = i
      BY <2>1, <2>2, <2>3, PartingIs
    <2>5. a # b /\ ~(Len(a) < Len(b)) /\ ~(Len(a) > Len(b)) /\ ~(Len(b) < Len(a)) /\ ~(Len(b) > Len(a))
      BY <1>1, <2>2, <2>3
    <2>6. Sign(a[i], b[i]) = -1 /\ Sign(b[i], a[i]) = 1
      BY <2>1, <2>3 DEF Sign
    <2> QED BY <2>4, <2>5, <2>6 DEF CompareInt
  <1> QED BY <1>2, <1>3

LEMMA ComparedAsInt ==
    ASSUME NEW a \in Nat, NEW b \in Nat
    PROVE  CompareInt(Digits[a], Digits[b]) = Sign(a, b)
  <1>1. Digits[a] \in Seq(0 .. 9) /\ Digits[b] \in Seq(0 .. 9)
    BY DigitsType
  <1>2. CASE a = b
    BY <1>2 DEF CompareInt, Sign
  <1>3. CASE a < b
    BY <1>1, <1>3, DigitsOrdered, LessAsText DEF Sign
  <1>4. CASE b < a
    BY <1>1, <1>4, DigitsOrdered, LessAsText DEF Sign
  <1> QED BY <1>2, <1>3, <1>4

LEMMA IdentCompares ==
    ASSUME NEW x \in Identifiers, NEW y \in Identifiers
    PROVE  /\ CompareIdent(IdentifierInDigits(x), IdentifierInDigits(y)) = CompareIdentifier(x, y)
           /\ IdentifierInDigits(x) = IdentifierInDigits(y) => x = y
  <1>1. /\ x.numeric \in BOOLEAN /\ y.numeric \in BOOLEAN /\ x.rank \in Nat /\ y.rank \in Nat
        /\ x = [numeric |-> x.numeric, rank |-> x.rank]
        /\ y = [numeric |-> y.numeric, rank |-> y.rank]
    BY DEF Identifiers
  <1>2. CompareInt(Digits[x.rank], Digits[y.rank]) = Sign(x.rank, y.rank)
    BY <1>1, ComparedAsInt
  <1>3. Digits[x.rank] = Digits[y.rank] => x.rank = y.rank
    BY <1>1, DigitsDiffer
  <1>4. CompareIdent(IdentifierInDigits(x), IdentifierInDigits(y)) = CompareIdentifier(x, y)
    BY <1>1, <1>2 DEF CompareIdent, CompareIdentifier, IdentifierInDigits, Numeric
  <1>5. ASSUME IdentifierInDigits(x) = IdentifierInDigits(y) PROVE x = y
    <2>1. x.numeric = y.numeric
      BY <1>1, <1>5 DEF IdentifierInDigits, Numeric
    <2>2. x.rank = y.rank
      BY <1>1, <1>3, <1>5, <2>1 DEF IdentifierInDigits, Numeric
    <2> QED BY <1>1, <2>1, <2>2
  <1> QED BY <1>4, <1>5

LEMMA PrereleaseAsText ==
    ASSUME NEW v \in Versions, NEW w \in Versions, PrereleasePrecedes(v.pre, w.pre)
    PROVE  /\ ComparePrereleaseText(InDigits(v).pre, InDigits(w).pre) = -1
           /\ ComparePrereleaseText(InDigits(w).pre, InDigits(v).pre) = 1
  <1> DEFINE a == InDigits(v).pre
             b == InDigits(w).pre
             x == v.pre
             y == w.pre
  <1>1. /\ x \in Seq(Identifiers) /\ y \in Seq(Identifiers) /\ Len(a) = Len(x) /\ Len(b) = Len(y)
        /\ a \in Seq(IdentifierTexts) /\ b \in Seq(IdentifierTexts) /\ Len(x) \in Nat /\ Len(y) \in Nat
        /\ a = <<>> <=> x = <<>>
        /\ b = <<>> <=> y = <<>>
        /\ \A i \in 1 .. Len(x) : a[i] = IdentifierInDigits(x[i]) /\ x[i] \in Identifiers
        /\ \A i \in 1 .. Len(y) : b[i] = IdentifierInDigits(y[i]) /\ y[i] \in Identifiers
    BY PrereleaseInDigits DEF Versions
  <1>2. /\ x # <<>>
        /\ \/ y = <<>>
           \/ \E k \in 0 .. Len(x) : /\ k < Len(y) /\ \A i \in 1 .. k : x[i] = y[i]
                                     /\ k = Len(x) \/ Before(x[k + 1], y[k + 1])
    BY DEF PrereleasePrecedes
  <1> HIDE DEF a, b, x, y
  <1>3. CASE y = <<>>
    BY <1>1, <1>2, <1>3 DEF ComparePrereleaseText, a, b
  <1>4. CASE y # <<>>
    <2>1. PICK k \in 0 .. Len(x) : /\ k < Len(y) /\ \A i \in 1 .. k : x[i] = y[i]
                                   /\ k = Len(x) \/ Before(x[k + 1], y[k + 1])
      BY <1>2, <1>4
    <2>2. \A i \in 1 .. k : a[i] = b[i]
      BY <1>1, <2>1
    <2>3. CASE k = Len(x)
      <3>1. a # b /\ Shared(a, b) = 1 .. k /\ Shared(b, a) = 1 .. k
        BY <1>1, <2>1, <2>3 DEF Shared
      <3>2. Sign(Len(a), Len(b)) = -1 /\ Sign(Len(b), Len(a)) = 1
        BY <1>1, <2>1, <2>3 DEF Sign
      <3> QED BY <1>1, <1>2, <1>4, <2>2, <3>1, <3>2 DEF ComparePrereleaseText, a, b
    <2>4. CASE k < Len(x)
      <3> DEFINE i == k + 1
      <3>1. i \in 1 .. Len(x) /\ i \in 1 .. Len(y) /\ i - 1 = k /\ Before(x[i], y[i])
        BY <1>1, <2>1, <2>4
      <3> HIDE DEF i
      <3>2. /\ x[i] \in Identifiers /\ y[i] \in Identifiers
            /\ a[i] = IdentifierInDigits(x[i]) /\ b[i] = IdentifierInDigits(y[i])
        BY <1>1, <3>1
      <3>3. CompareIdentifier(x[i], y[i]) = -1 /\ CompareIdentifier(y[i], x[i]) = 1
        BY <3>1, <3>2, BeforeCompares
      <3>4. x[i] # y[i]
        BY <3>2, <3>3, SameIdentifier
      <3>5. a[i] # b[i]
        BY <3>2, <3>4, IdentCompares
      <3>6. i \in 1 .. Len(a) /\ i <= Len(b) /\ \A j \in 1 .. i - 1 : a[j] = b[j]
        BY <1>1, <2>2, <3>1
      <3>7. Parting(a, b) = i /\ Parting(b, a) = i
        BY <1>1, <3>5, <3>6, PartingIs
      <3>8. CompareIdent(a[i], b[i]) = -1 /\ CompareIdent(b[i], a[i]) = 1
        BY <3>2, <3>3, IdentCompares
      <3>9. a # b /\ i \in Shared(a, b) /\ i \in Shared(b, a)
        BY <1>1, <3>1, <3>5 DEF Shared
      <3> QED BY <1>1, <1>2, <1>4, <3>5, <3>7, <3>8, <3>9 DEF ComparePrereleaseText, a, b
    <2> QED BY <1>1, <2>1, <2>3, <2>4
  <1> QED BY <1>3, <1>4

LEMMA ComparedAsText ==
    ASSUME NEW v \in Versions, NEW w \in Versions
    PROVE  Compare(InDigits(v), InDigits(w)) = SemverCompare(v, w)
  <1> DEFINE a == InDigits(v).core
             b == InDigits(w).core
             p == ComparePrereleaseText(InDigits(v).pre, InDigits(w).pre)
  <1>1. /\ a \in Seq(Seq(0 .. 9)) /\ b \in Seq(Seq(0 .. 9)) /\ Len(a) = 3 /\ Len(b) = 3
        /\ a = [i \in 1 .. 3 |-> Digits[v.core[i]]] /\ b = [i \in 1 .. 3 |-> Digits[w.core[i]]]
        /\ \A i \in 1 .. 3 : v.core[i] \in Nat /\ w.core[i] \in Nat
    BY CoreInDigits
  <1>2. PICK s : /\ SemverCompare(v, w) = FirstDifference(s) /\ DOMAIN s = 1 .. 4
                 /\ \A i \in 1 .. 3 : s[i] = Sign(v.core[i], w.core[i])
                 /\ s[4] = ComparePrerelease(v.pre, w.pre)
    BY SemverCompareIs
  <1>3. 4 \in Nat /\ v.core \in Cores /\ w.core \in Cores
        /\ v.pre \in Seq(Identifiers) /\ w.pre \in Seq(Identifiers)
    BY DEF Versions
  <1>4. Compare(InDigits(v), InDigits(w)) =
            IF a = b THEN p ELSE CompareInt(a[Parting(a, b)], b[Parting(a, b)])
    BY DEF Compare
  <1>5. CASE v.core = w.core
    <2>1. a = b
      BY <1>1, <1>5
    <2>2. \A i \in 1 .. 3 : s[i] = 0
      BY <1>2, <1>5 DEF Sign
    <2>3. p = s[4]
      <3>1. CASE v.pre = w.pre
        <4>1. s[4] = 0
          BY <1>2, <1>3, <3>1, SamePrerelease
        <4>2. InDigits(v).pre = InDigits(w).pre
          BY <3>1 DEF InDigits, Version
        <4> QED BY <4>1, <4>2 DEF ComparePrereleaseText
      <3>2. CASE PrereleasePrecedes(v.pre, w.pre)
        BY <1>2, <1>3, <3>2, PrereleaseAsText, PrereleaseCompares
      <3>3. CASE PrereleasePrecedes(w.pre, v.pre)
        BY <1>2, <1>3, <3>3, PrereleaseAsText, PrereleaseCompares
      <3> QED BY <1>3, <3>1, <3>2, <3>3, PrereleasesApart
    <2>4. FirstDifference(s) = s[4]
      <3>1. CASE s[4] = 0
        <4>1. \A j \in 1 .. 4 : s[j] = 0
          BY <2>2, <3>1
        <4> QED BY <1>2, <1>3, <3>1, <4>1, NoneIs
      <3>2. CASE s[4] # 0
        <4>1. 4 \in 1 .. 4 /\ \A j \in 1 .. 4 - 1 : s[j] = 0
          BY <2>2
        <4> QED BY <1>2, <1>3, <3>2, <4>1, FirstIs
      <3> QED BY <3>1, <3>2
    <2> QED BY <1>2, <1>4, <2>1, <2>3, <2>4
  <1>6. CASE v.core # w.core
    <2> DEFINE c == v.core
               d == w.core
    <2>1. \E i \in 1 .. 3 : c[i] # d[i] /\ \A j \in 1 .. i - 1 : c[j] = d[j]
      <3>0. \E i \in 1 .. 3 : c[i] # d[i]
        BY <1>3, <1>6 DEF Cores
      <3> HIDE DEF c, d
      <3>1. CASE c[1] # d[1]
        BY <3>1
      <3>2. CASE c[1] = d[1] /\ c[2] # d[2]
        <4>1. \A j \in 1 .. 2 - 1 : c[j] = d[j]
          BY <3>2
        <4> QED BY <3>2, <4>1
      <3>3. CASE c[1] = d[1] /\ c[2] = d[2]
        <4>1. c[3] # d[3] /\ \A j \in 1 .. 3 - 1 : c[j] = d[j]
          BY <3>0, <3>3
        <4> QED BY <4>1
      <3> QED BY <3>1, <3>2, <3>3
    <2>2. PICK i \in 1 .. 3 : c[i] # d[i] /\ \A j \in 1 .. i - 1 : c[j] = d[j]
      BY <2>1
    <2>3. Sign(c[i], d[i]) # 0 /\ \A j \in 1 .. i - 1 : Sign(c[j], d[j]) = 0
      BY <2>2 DEF Sign
    <2>4. FirstDifference(s) = s[i] /\ s[i] = Sign(c[i], d[i])
      <3>1. i \in 1 .. 4 /\ s[i] # 0 /\ \A j \in 1 .. i - 1 : s[j] = 0
        BY <1>2, <2>3
      <3> QED BY <1>2, <1>3, <3>1, FirstIs
    <2>5. Parting(a, b) = i /\ a # b
      <3>1. Digits[c[i]] # Digits[d[i]]
        BY <1>1, <2>2, DigitsDiffer
      <3>2. \A j \in 1 .. 3 : a[j] = Digits[c[j]] /\ b[j] = Digits[d[j]]
        BY <1>1
      <3>3. Len(a) = 3 /\ Len(b) = 3
        BY <1>1
      <3>4. a \in Seq(Seq(0 .. 9)) /\ b \in Seq(Seq(0 .. 9))
        BY <1>1
      <3> HIDE DEF a, b, c, d
      <3>5. a[i] # b[i] /\ i \in 1 .. Len(a) /\ i <= Len(b) /\ \A j \in 1 .. i - 1 : a[j] = b[j]
        BY <2>2, <3>1, <3>2, <3>3
      <3>6. Parting(a, b) = i
        BY <3>5, <3>4, PartingIs
      <3> QED BY <3>5, <3>6
    <2>6. CompareInt(a[i], b[i]) = Sign(c[i], d[i])
      <3>1. a[i] = Digits[c[i]] /\ b[i] = Digits[d[i]] /\ c[i] \in Nat /\ d[i] \in Nat
        BY <1>1
      <3> HIDE DEF a, b, c, d
      <3> QED BY <3>1, ComparedAsInt
    <2> HIDE DEF a, b, c, d
    <2> QED BY <1>2, <1>4, <2>4, <2>5, <2>6
  <1> QED BY <1>5, <1>6

\* The first core that ^ or ~ leaves out is the same in digits.
LEMMA UpperCounted ==
    ASSUME NEW core \in Cores, NEW operator
    PROVE  /\ UpperBound(core, operator) \in Versions
           /\ UpperInDigits([i \in 1 .. 3 |-> Digits[core[i]]], operator)
                  = InDigits(UpperBound(core, operator))
  <1> DEFINE d == [i \in 1 .. 3 |-> Digits[core[i]]]
             up == [i \in 1 .. 3 |-> core[i] + 1]
             upd == [i \in 1 .. 3 |-> IncrementDecimal(d[i])]
             last == FixedLast(core, operator, 0)
             u == Upper(core, operator, up, 0)
             ud == Upper(d, operator, upd, <<0>>)
  <1>1. \A i \in 1 .. 3 : core[i] \in Nat
    BY DEF Cores
  <1>2. Digits[0] = <<0>>
    BY DigitsOne
  <1>3. \A i \in 1 .. 3 : d[i] = Digits[core[i]]
    OBVIOUS
  <1>4. \A i \in 1 .. 3 : upd[i] = Digits[core[i] + 1] /\ up[i] = core[i] + 1
    <2>1. \A i \in 1 .. 3 : IncrementDecimal(Digits[core[i]]) = Digits[core[i] + 1]
      BY <1>1, IncrementIsNext
    <2> QED BY <1>3, <2>1
  <1> HIDE DEF d, up, upd
  <1>5. \A i \in 1 .. 3 : d[i] # <<0>> <=> core[i] # 0
    <2>1. ASSUME NEW i \in 1 .. 3, Digits[core[i]] = Digits[0] PROVE core[i] = 0
      BY <1>1, <2>1, DigitsDiffer
    <2> QED BY <1>2, <1>3, <2>1
  <1>6. FixedLast(d, operator, <<0>>) = last /\ last \in 1 .. 3
    BY <1>5 DEF FixedLast
  <1> HIDE DEF last
  <1>7. u = [i \in 1 .. 3 |-> IF i < last THEN core[i] ELSE IF i = last THEN up[i] ELSE 0]
    BY DEF Upper, last
  <1>8. ud = [i \in 1 .. 3 |-> IF i < last THEN d[i] ELSE IF i = last THEN upd[i] ELSE <<0>>]
    BY <1>6 DEF Upper
  <1> HIDE DEF u, ud
  <1>9. u \in Cores
    <2>1. \A i \in 1 .. 3 : u[i] \in Nat
      BY <1>1, <1>4, <1>6, <1>7
    <2>2. u = [i \in 1 .. 3 |-> u[i]]
      BY <1>7
    <2> QED BY <2>1, <2>2 DEF Cores
  <1>10. \A i \in 1 .. 3 : ud[i] = Digits[u[i]]
    <2>1. ASSUME NEW i \in 1 .. 3 PROVE ud[i] = Digits[u[i]]
      <3>1. ud[i] = IF i < last THEN d[i] ELSE IF i = last THEN upd[i] ELSE <<0>>
        BY <1>8
      <3>2. u[i] = IF i < last THEN core[i] ELSE IF i = last THEN up[i] ELSE 0
        BY <1>7
      <3> QED BY <1>2, <1>3, <1>4, <3>1, <3>2
    <2> QED BY <2>1
  <1>11. ud = [i \in 1 .. 3 |-> Digits[u[i]]]
    <2>1. ud = [i \in 1 .. 3 |-> ud[i]]
      BY <1>8
    <2> QED BY <1>10, <2>1
  <1>12. UpperBound(core, operator) = [core |-> u, pre |-> <<>>]
    BY DEF UpperBound, Version, u, up
  <1>13. UpperInDigits(d, operator) = [core |-> ud, pre |-> <<>>]
    BY DEF UpperInDigits, Version, ud, upd
  <1>14. InDigits(UpperBound(core, operator)) = [core |-> ud, pre |-> <<>>]
    <2>1. [i \in DOMAIN <<>> |-> IdentifierInDigits(<<>>[i])] = <<>>
      OBVIOUS
    <2> QED BY <1>11, <1>12, <2>1 DEF InDigits, Version
  <1>15. UpperBound(core, operator) \in Versions
    <2>1. <<>> \in Seq(Identifiers)
      OBVIOUS
    <2> QED BY <1>9, <1>12, <2>1 DEF Versions
  <1> QED BY <1>13, <1>14, <1>15 DEF d

\* The host, counting in digits, and Go, comparing texts, decide a clause alike;
\* TypeScript as they do where it can read the bound.
LEMMA ClauseCounted ==
    ASSUME NEW v \in Versions, NEW clause, clause.version \in Versions
    PROVE  /\ ClauseSatisfied(v, clause) =
                  ClauseHolds(clause.operator, SemverCompare(v, clause.version),
                      SemverCompare(v, UpperBound(clause.version.core, clause.operator)))
           /\ DependencyClauseSatisfied(v, clause) = ClauseSatisfied(v, clause)
           /\ SatisfiesClause(v, clause) = (BoundReadable(clause) /\ ClauseSatisfied(v, clause))
  <1> DEFINE w == clause.version
             u == UpperBound(w.core, clause.operator)
  <1>1. /\ CompareInDigits(InDigits(v), InDigits(w)) = SemverCompare(v, w)
        /\ Compare(InDigits(v), InDigits(w)) = SemverCompare(v, w)
    BY ComparedInDigits, ComparedAsText
  <1>2. InDigits(w).core = [i \in 1 .. 3 |-> Digits[w.core[i]]] /\ w.core \in Cores
    BY DEF InDigits, Version, Versions
  <1>3. UpperInDigits(InDigits(w).core, clause.operator) = InDigits(u) /\ u \in Versions
    BY <1>2, UpperCounted
  <1> HIDE DEF u
  <1>4. /\ CompareInDigits(InDigits(v), InDigits(u)) = SemverCompare(v, u)
        /\ Compare(InDigits(v), InDigits(u)) = SemverCompare(v, u)
    BY <1>3, ComparedInDigits, ComparedAsText
  <1> DEFINE holds == ClauseHolds(clause.operator, SemverCompare(v, w), SemverCompare(v, u))
  <1>5. ClauseSatisfied(v, clause) = holds
    BY <1>1, <1>3, <1>4 DEF ClauseSatisfied
  <1>6. DependencyClauseSatisfied(v, clause) = holds
    BY <1>1, <1>4 DEF DependencyClauseSatisfied, u
  <1>7. SatisfiesClause(v, clause) = (BoundReadable(clause) /\ holds)
    BY DEF SatisfiesClause, u
  <1> QED BY <1>5, <1>6, <1>7 DEF u

\* A clause names the core of a version in digits when it names it in numbers.
LEMMA PrereleaseNamedAlike ==
    ASSUME NEW v \in Versions, NEW range, \A i \in DOMAIN range : range[i].version \in Versions
    PROVE  PrereleaseNamed(InDigits(v), BoundariesInDigits(range)) =
               PrereleaseNamed(v, [i \in DOMAIN range |-> range[i].version])
  <1>1. InDigits(v).pre # <<>> <=> v.pre # <<>>
    BY PrereleaseInDigits
  <1>2. ASSUME NEW i \in DOMAIN range
        PROVE  LET w == range[i].version
               IN InDigits(w).pre # <<>> /\ InDigits(w).core = InDigits(v).core
                      <=> w.pre # <<>> /\ w.core = v.core
    <2> DEFINE w == range[i].version
    <2>1. w \in Versions
      OBVIOUS
    <2> HIDE DEF w
    <2>2. InDigits(w).pre # <<>> <=> w.pre # <<>>
      BY <2>1, PrereleaseInDigits
    <2>3. /\ InDigits(w).core = [k \in 1 .. 3 |-> Digits[w.core[k]]]
          /\ InDigits(v).core = [k \in 1 .. 3 |-> Digits[v.core[k]]]
          /\ \A k \in 1 .. 3 : w.core[k] \in Nat /\ v.core[k] \in Nat
          /\ w.core \in Cores /\ v.core \in Cores
      BY <2>1, CoreInDigits DEF Versions
    <2>4. ASSUME InDigits(w).core = InDigits(v).core PROVE w.core = v.core
      <3>1. \A k \in 1 .. 3 : Digits[w.core[k]] = Digits[v.core[k]]
        <4> DEFINE f == [k \in 1 .. 3 |-> Digits[w.core[k]]]
                   g == [k \in 1 .. 3 |-> Digits[v.core[k]]]
        <4>1. f = g
          BY <2>3, <2>4
        <4>2. \A k \in 1 .. 3 : f[k] = Digits[w.core[k]] /\ g[k] = Digits[v.core[k]]
          OBVIOUS
        <4> HIDE DEF f, g
        <4> QED BY <4>1, <4>2
      <3>2. \A k \in 1 .. 3 : w.core[k] = v.core[k]
        BY <2>3, <3>1, DigitsDiffer
      <3> QED BY <2>3, <3>2 DEF Cores
    <2>5. w.core = v.core => InDigits(w).core = InDigits(v).core
      BY <2>3
    <2> QED BY <2>2, <2>4, <2>5 DEF w
  <1> DEFINE bounds == [i \in DOMAIN range |-> range[i].version]
             digits == BoundariesInDigits(range)
  <1>3. DOMAIN bounds = DOMAIN range /\ \A i \in DOMAIN range : bounds[i] = range[i].version
    OBVIOUS
  <1>4. DOMAIN digits = DOMAIN range /\ \A i \in DOMAIN range : digits[i] = InDigits(range[i].version)
    BY DEF BoundariesInDigits
  <1> HIDE DEF bounds, digits
  <1>5. PrereleaseNamed(InDigits(v), digits) = PrereleaseNamed(v, bounds)
    BY <1>1, <1>2, <1>3, <1>4 DEF PrereleaseNamed
  <1> QED BY <1>5 DEF bounds, digits

\* semver_satisfies of the Rust crate and DependencyRequirementSatisfied of the Go
\* package decide a requirement that can be read alike, and semverSatisfies of
\* TypeScript as they do but where the bound of ^ or ~ is too long a version.
THEOREM RequirementCounted ==
    ASSUME NEW v \in Versions, NEW range, IsDependencyRange(range),
           \A i \in DOMAIN range : range[i].version \in Versions
    PROVE  /\ DependencyRequirementSatisfied(v, range) = RustSatisfies(v, range)
           /\ SemverSatisfies(v, range) =
                  (RustSatisfies(v, range) /\ \A i \in DOMAIN range : BoundReadable(range[i]))
  <1>1. \A i \in DOMAIN range :
            /\ DependencyClauseSatisfied(v, range[i]) = ClauseSatisfied(v, range[i])
            /\ SatisfiesClause(v, range[i]) = (BoundReadable(range[i]) /\ ClauseSatisfied(v, range[i]))
    BY ClauseCounted
  <1>2. range # Star /\ IsUnitDependencyRange(range)
    BY DEF IsDependencyRange, IsUnitDependencyRange
  <1>3. PrereleaseNamed(InDigits(v), BoundariesInDigits(range)) =
            PrereleaseNamed(v, [i \in DOMAIN range |-> range[i].version])
    BY PrereleaseNamedAlike
  <1>4. DependencyRequirementSatisfied(v, range) = RustSatisfies(v, range)
    BY <1>1, <1>2 DEF RustSatisfies, DependencyRequirementSatisfied
  <1>5. SemverSatisfies(v, range) =
            (RustSatisfies(v, range) /\ \A i \in DOMAIN range : BoundReadable(range[i]))
    BY <1>1, <1>2, <1>3 DEF RustSatisfies, SemverSatisfies
  <1> QED BY <1>4, <1>5
=============================================================================
