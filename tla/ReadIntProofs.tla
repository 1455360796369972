---------------------------- MODULE ReadIntProofs ----------------------------
(***************************************************************************)
(* READ_INT takes every input apart without loss, and what it returns is   *)
(* the number written there modulo 65536, for inputs and numbers of every  *)
(* length.                                                                 *)
(***************************************************************************)
EXTENDS ReadInt, CoreLemmas

-----------------------------------------------------------------------------
\* The reading of an input s, apart from the parser's state.
Input == Seq(STRING \ {EndOfFile})

Char(s, i) == IF i <= Len(s) THEN s[i] ELSE EndOfFile

FirstNot(s, i, S) ==
  CHOOSE j \in i .. Len(s) + 1 :
    Char(s, j) \notin S /\ \A k \in i .. j - 1 : Char(s, k) \in S

Value(s, i, j) ==
  LET sum[k \in i - 1 .. j - 1] ==
        IF k < i THEN 0
        ELSE (sum[k - 1] + digit_value(Char(s, k)) * PowerOfTen[j - 1 - k]) % 65536
  IN  sum[j - 1]

\* Where the digits behind the place w of a possible sign begin.
SignEnd(s, w) == IF Char(s, w) = "-" THEN w + 1 ELSE w

WithSign(s, w, v) == IF Char(s, w) = "-" THEN (65536 - v) % 65536 ELSE v

Wanted(s, i) ==
  LET w == FirstNot(s, i, Space)
      e == FirstNot(s, SignEnd(s, w), Digit)
  IN  [value |-> WithSign(s, w, Value(s, SignEnd(s, w), e)), next |-> e]

LEMMA FirstNotOfState ==
  ASSUME NEW i, NEW S
  PROVE  first_not(i, S) = FirstNot(stdin, i, S)
  BY DEF first_not, FirstNot, char, Char

LEMMA ValueOfState ==
  ASSUME NEW i, NEW j
  PROVE  PlaceValue(i, j) = Value(stdin, i, j)
  BY DEF PlaceValue, Value, char, Char

LEMMA WantedOfState ==
  ASSUME NEW i
  PROVE  Expected(i) = Wanted(stdin, i)
<1>1. \A j : char(j) = Char(stdin, j)
  BY DEF char, Char
<1> QED
  BY <1>1, FirstNotOfState, ValueOfState DEF Expected, Wanted, SignEnd, WithSign

-----------------------------------------------------------------------------
\* Characters.
LEMMA EofIsNone ==
  EndOfFile \notin Space /\ EndOfFile \notin Digit /\ EndOfFile # "-"
<1>1. EndOfFile \notin Space /\ EndOfFile # "-"
  BY Zenon DEF EndOfFile, Space
<1>2. EndOfFile \notin Digit
  BY DEF EndOfFile, Digit, Digits
<1> QED
  BY <1>1, <1>2

LEMMA DigitValues ==
  ASSUME NEW x \in Digit
  PROVE  digit_value(x) \in Nat /\ digit_value(x) <= 9
<1>1. DOMAIN Digits = 1 .. 10
  BY DEF Digits
<1>2. \E i \in DOMAIN Digits : Digits[i] = x
  BY DEF Digit
<1> DEFINE place == CHOOSE i \in DOMAIN Digits : Digits[i] = x
<1>3. place \in DOMAIN Digits
  BY <1>2, Zenon
<1>4. digit_value(x) = place - 1
  BY DEF digit_value
<1> HIDE DEF place
<1> QED
  BY <1>1, <1>3, <1>4

LEMMA CharEnds ==
  ASSUME NEW s \in Input, NEW i \in Nat, i > 0
  PROVE  Char(s, i) = EndOfFile <=> i > Len(s)
<1>1. Len(s) \in Nat
  BY DEF Input
<1>2. i <= Len(s) => s[i] # EndOfFile
  BY <1>1 DEF Input
<1> QED
  BY <1>1, <1>2 DEF Char

\* The loop that skips the characters of S from i on ends at j.
Skips(s, i, S, j) ==
  /\ j \in Nat /\ i <= j /\ j <= Len(s) + 1
  /\ \A k \in i .. j - 1 : Char(s, k) \in S

LEMMA SkipsToFirst ==
  ASSUME NEW s \in Input, NEW i \in Nat, i > 0, NEW S, NEW j,
         Skips(s, i, S, j), Char(s, j) \notin S
  PROVE  FirstNot(s, i, S) = j
<1> DEFINE Q(m) == Char(s, m) \notin S /\ \A k \in i .. m - 1 : Char(s, k) \in S
<1>0. Len(s) \in Nat
  BY DEF Input
<1>1. j \in i .. Len(s) + 1 /\ Q(j)
  BY <1>0 DEF Skips
<1>2. ASSUME NEW m \in i .. Len(s) + 1, Q(m) PROVE m = j
  <2>1. m \in Int /\ j \in Int /\ i <= m /\ i <= j
    BY <1>0, <1>1
  <2>2. ~(m < j)
    BY <1>1, <1>2, <2>1
  <2>3. ~(j < m)
    BY <1>1, <1>2, <2>1
  <2> QED
    BY <2>1, <2>2, <2>3
<1> HIDE DEF Q
<1>3. (CHOOSE m \in i .. Len(s) + 1 : Q(m)) = j
  BY <1>1, <1>2
<1> QED
  BY <1>3 DEF FirstNot, Q

-----------------------------------------------------------------------------
\* Place value.

LEMMA Powers ==
  /\ PowerOfTen \in [Nat -> Nat]
  /\ PowerOfTen[0] = 1
  /\ \A k \in Nat : PowerOfTen[k + 1] = (10 * PowerOfTen[k]) % 65536
<1> DEFINE F == [x \in Nat \X Nat |-> (10 * x[2]) % 65536]
           E(u) == [k \in Nat |-> IF k = 0 THEN 1 ELSE (10 * u[k - 1]) % 65536]
<1>1. F \in [Nat \X Nat -> Nat] /\ 1 \in Nat
  OBVIOUS
<1>2. PICK f \in [Nat -> Nat] : Iterates(f, 1, F)
  <2> HIDE DEF F
  <2> QED
    BY <1>1, Iteration
<1>3. ASSUME NEW k \in Nat PROVE f[k + 1] = (10 * f[k]) % 65536
  <2>1. <<k, f[k]>> \in Nat \X Nat
    OBVIOUS
  <2>2. f[k + 1] = F[<<k, f[k]>>]
    BY <1>2 DEF Iterates
  <2>3. F[<<k, f[k]>>] = (10 * f[k]) % 65536
    BY <2>1
  <2> QED
    BY <2>2, <2>3
<1>4. f[0] = 1
  BY <1>2 DEF Iterates
<1>5. f = E(f)
  <2>1. ASSUME NEW k \in Nat
        PROVE  f[k] = IF k = 0 THEN 1 ELSE (10 * f[k - 1]) % 65536
    <3>1. CASE k = 0
      BY <1>4, <3>1
    <3>2. CASE k # 0
      <4>1. k - 1 \in Nat /\ (k - 1) + 1 = k
        BY <3>2
      <4> QED
        BY <1>3, <3>2, <4>1
    <3> QED
      BY <3>1, <3>2
  <2> QED
    BY <2>1
<1>6. PowerOfTen = CHOOSE u : u = E(u)
  BY DEF PowerOfTen
<1>7. PowerOfTen = E(PowerOfTen)
  <2> HIDE DEF E
  <2> QED
    BY <1>5, <1>6
<1> DEFINE P == PowerOfTen
<1>8. ASSUME NEW k \in Nat
      PROVE  P[k] = IF k = 0 THEN 1 ELSE (10 * P[k - 1]) % 65536
  <2>1. E(P)[k] = IF k = 0 THEN 1 ELSE (10 * P[k - 1]) % 65536
    OBVIOUS
  <2> HIDE DEF E
  <2> QED
    BY <1>7, <2>1
<1>9. P = [k \in Nat |-> P[k]]
  <2>1. E(P) = [k \in Nat |-> E(P)[k]]
    OBVIOUS
  <2> HIDE DEF E
  <2> QED
    BY <1>7, <2>1
<1>10. ASSUME NEW k \in Nat PROVE P[k] = f[k]
  <2> DEFINE K == {n \in Nat : P[n] # f[n]}
  <2>1. SUFFICES ASSUME K # {} PROVE FALSE
    OBVIOUS
  <2>2. PICK n \in K : \A m \in K : n <= m
    BY <2>1, Least
  <2>3. n # 0
    BY <1>4, <1>8, <2>2
  <2>4. n - 1 \in Nat /\ n - 1 \notin K /\ (n - 1) + 1 = n
    BY <2>2, <2>3
  <2>5. P[n - 1] = f[n - 1] /\ f[n] = (10 * f[n - 1]) % 65536
    BY <1>3, <2>4
  <2> QED
    BY <1>8, <2>2, <2>3, <2>5
<1>11. P = f
  <2> HIDE DEF P
  <2> QED
    BY <1>9, <1>10
<1> QED
  BY <1>3, <1>4, <1>11

LEMMA PowerType ==
  ASSUME NEW e \in Nat
  PROVE  PowerOfTen[e] \in Nat
  BY Powers

\* What the digit at k is worth with e digits behind it.
Place(s, k, e) == digit_value(Char(s, k)) * PowerOfTen[e]

LEMMA PlaceType ==
  ASSUME NEW s, NEW k, Char(s, k) \in Digit, NEW e \in Nat
  PROVE  /\ Place(s, k, e) \in Nat
         /\ Place(s, k, 0) = digit_value(Char(s, k))
<1> DEFINE d == digit_value(Char(s, k))
           b == PowerOfTen[e]
<1>1. d \in Nat /\ b \in Nat /\ PowerOfTen[0] = 1
  BY DigitValues, PowerType, Powers
<1>2. Place(s, k, e) = d * b /\ Place(s, k, 0) = d * PowerOfTen[0]
  BY DEF Place
<1> HIDE DEF d, b
<1>3. d * b \in Nat /\ d * 1 = d
  BY <1>1
<1>4. Place(s, k, e) \in Nat /\ Place(s, k, 0) = d
  BY <1>1, <1>2, <1>3
<1> QED
  BY <1>4 DEF d

\* Multiplying by ten before or after the remainder is taken.
LEMMA TenTimes ==
  ASSUME NEW a \in Nat, NEW b \in Nat, NEW d \in Nat, d <= 9
  PROVE  (((10 * a) % 65536) + d * ((10 * b) % 65536)) % 65536
           = (10 * ((a + d * b) % 65536)) % 65536
<1>0. d \in {0, 1, 2, 3, 4, 5, 6, 7, 8, 9}
  OBVIOUS
<1>1. CASE d = 0
  BY <1>1
<1>2. CASE d = 1
  BY <1>2
<1>3. CASE d = 2
  BY <1>3
<1>4. CASE d = 3
  BY <1>4
<1>5. CASE d = 4
  BY <1>5
<1>6. CASE d = 5
  BY <1>6
<1>7. CASE d = 6
  BY <1>7
<1>8. CASE d = 7
  BY <1>8
<1>9. CASE d = 8
  BY <1>9
<1>10. CASE d = 9
  BY <1>10
<1> QED
  BY <1>0, <1>1, <1>2, <1>3, <1>4, <1>5, <1>6, <1>7, <1>8, <1>9, <1>10

Mod16(x) == x % 65536

LEMMA TenPlaces ==
  ASSUME NEW s, NEW k, Char(s, k) \in Digit, NEW e \in Nat, NEW a \in Nat
  PROVE  Mod16(Mod16(10 * a) + Place(s, k, e + 1))
           = Mod16(10 * Mod16(a + Place(s, k, e)))
<1> DEFINE d == digit_value(Char(s, k))
           b == PowerOfTen[e]
<1>1. d \in Nat /\ d <= 9 /\ b \in Nat
  BY DigitValues, PowerType
<1>2. Place(s, k, e) = d * b
  BY DEF Place
<1>3. Place(s, k, e + 1) = d * ((10 * b) % 65536)
  <2>1. PowerOfTen[e + 1] = (10 * b) % 65536
    BY Powers
  <2> QED
    BY <2>1 DEF Place
<1> HIDE DEF d, b
<1>4. (((10 * a) % 65536) + d * ((10 * b) % 65536)) % 65536
           = (10 * ((a + d * b) % 65536)) % 65536
  BY <1>1, TenTimes
<1> QED
  BY <1>2, <1>3, <1>4 DEF Mod16

LEMMA Mod16Type ==
  ASSUME NEW x \in Nat
  PROVE  Mod16(x) \in Limb /\ Mod16(x) \in Nat
<1>1. Mod16(x) \in Limb
  BY LimbModulo DEF Mod16
<1> QED
  BY <1>1, LimbNat

\* The characters from i to before j are digits.
AllDigits(s, i, j) == \A k \in i .. j - 1 : Char(s, k) \in Digit

\* f sums up the digits from i to before j, each at its place.
IsPlaces(f, s, i, j) ==
  /\ f[i - 1] = 0
  /\ \A k \in i .. j - 1 : f[k] = Mod16(f[k - 1] + Place(s, k, j - 1 - k))

LEMMA Places ==
  ASSUME NEW s, NEW i \in Nat, NEW j \in Nat, i <= j, AllDigits(s, i, j)
  PROVE  \E f \in [i - 1 .. j - 1 -> Nat] :
           IsPlaces(f, s, i, j) /\ Value(s, i, j) = f[j - 1]
<1> DEFINE d == [k \in i .. j - 1 |-> Place(s, k, j - 1 - k)]
           F == [x \in (i .. j - 1) \X Nat |-> Mod16(x[2] + d[x[1]])]
           E(u) == [k \in i - 1 .. j - 1 |->
                      IF k < i THEN 0
                      ELSE (u[k - 1] + digit_value(Char(s, k)) * PowerOfTen[j - 1 - k])
                             % 65536]
           t == CHOOSE u : u = E(u)
<1>1. ASSUME NEW k \in i .. j - 1
      PROVE  d[k] \in Nat /\ d[k] = Place(s, k, j - 1 - k)
  <2>1. j - 1 - k \in Nat /\ Char(s, k) \in Digit
    BY DEF AllDigits
  <2> QED
    BY <2>1, PlaceType
<1> HIDE DEF d
<1>2. F \in [(i .. j - 1) \X Nat -> Nat]
  <2>1. ASSUME NEW x \in (i .. j - 1) \X Nat PROVE Mod16(x[2] + d[x[1]]) \in Nat
    <3>1. x[2] + d[x[1]] \in Nat
      BY <1>1
    <3> QED
      BY <3>1, Mod16Type
  <2> QED
    BY <2>1
<1>3. PICK f \in [i - 1 .. j - 1 -> Nat] : Recurs(f, i, j - 1, 0, F)
  <2> HIDE DEF F
  <2>1. i \in Int /\ j - 1 \in Int /\ 0 \in Nat
    OBVIOUS
  <2> QED
    BY <1>2, <2>1, Recursion
<1>4. ASSUME NEW k \in i - 1 .. j - 1
      PROVE  f[k] = IF k < i THEN 0 ELSE Mod16(f[k - 1] + d[k])
  <2>1. f[k] = IF k < i THEN 0 ELSE F[<<k, f[k - 1]>>]
    <3> HIDE DEF F
    <3> QED
      BY <1>3 DEF Recurs
  <2>2. CASE k < i
    BY <2>1, <2>2
  <2>3. CASE ~(k < i)
    <3>1. k \in i .. j - 1 /\ k - 1 \in i - 1 .. j - 1
      BY <2>3
    <3>2. <<k, f[k - 1]>> \in (i .. j - 1) \X Nat
      BY <3>1
    <3>3. F[<<k, f[k - 1]>>] = Mod16(f[k - 1] + d[k])
      BY <3>2
    <3> HIDE DEF F
    <3> QED
      BY <2>1, <2>3, <3>3
  <2> QED
    BY <2>2, <2>3
<1> HIDE DEF F
<1>5. ASSUME NEW k \in i - 1 .. j - 1, ~(k < i) PROVE k \in i .. j - 1
  BY <1>5
<1>6. ASSUME NEW u, NEW k \in i - 1 .. j - 1
      PROVE  E(u)[k] = IF k < i THEN 0 ELSE Mod16(u[k - 1] + d[k])
  <2>1. E(u)[k] = IF k < i THEN 0
                  ELSE (u[k - 1] + digit_value(Char(s, k)) * PowerOfTen[j - 1 - k])
                         % 65536
    OBVIOUS
  <2> HIDE DEF E
  <2> QED
    BY <1>1, <1>5, <2>1 DEF Mod16, Place
<1>7. f = E(f)
  <2>1. E(f) = [k \in i - 1 .. j - 1 |-> E(f)[k]]
    OBVIOUS
  <2> HIDE DEF E
  <2> QED
    BY <1>4, <1>6, <2>1
<1>8. t = E(t)
  <2> HIDE DEF E
  <2> QED
    BY <1>7
<1>9. Value(s, i, j) = t[j - 1]
  BY DEF Value
<1> HIDE DEF t, E
<1>10. ASSUME NEW k \in i - 1 .. j - 1
       PROVE  t[k] = IF k < i THEN 0 ELSE Mod16(t[k - 1] + d[k])
  BY <1>6, <1>8
<1>11. ASSUME NEW k \in i - 1 .. j - 1 PROVE t[k] = f[k]
  <2> DEFINE S == {n \in i - 1 .. j - 1 : t[n] = f[n]}
  <2>1. i - 1 \in Int /\ j - 1 \in Int /\ i - 1 \in S
    BY <1>4, <1>10
  <2>2. ASSUME NEW n \in i - 1 .. j - 1, n > i - 1, n - 1 \in S PROVE n \in S
    BY <1>4, <1>10, <2>2
  <2> HIDE DEF S
  <2>3. \A n \in i - 1 .. j - 1 : n \in S
    BY <2>1, <2>2, IntervalInduction
  <2> QED
    BY <2>3 DEF S
<1>12. i - 1 \in i - 1 .. j - 1 /\ j - 1 \in i - 1 .. j - 1 /\ i - 1 < i
  OBVIOUS
<1>13. IsPlaces(f, s, i, j)
  <2>1. f[i - 1] = 0
    BY <1>4, <1>12
  <2>2. ASSUME NEW k \in i .. j - 1 PROVE f[k] = Mod16(f[k - 1] + d[k])
    <3>1. k \in i - 1 .. j - 1 /\ ~(k < i)
      OBVIOUS
    <3> QED
      BY <1>4, <3>1
  <2> QED
    BY <1>1, <2>1, <2>2 DEF IsPlaces
<1>14. Value(s, i, j) = f[j - 1]
  BY <1>9, <1>11, <1>12
<1> QED
  BY <1>13, <1>14

LEMMA ValueType ==
  ASSUME NEW s, NEW i \in Nat, NEW j \in Nat, i <= j, AllDigits(s, i, j)
  PROVE  /\ Value(s, i, j) \in Limb
         /\ i = j => Value(s, i, j) = 0
<1>1. PICK f \in [i - 1 .. j - 1 -> Nat] :
        IsPlaces(f, s, i, j) /\ Value(s, i, j) = f[j - 1]
  BY Places
<1>2. CASE i = j
  <2>1. f[j - 1] = 0
    BY <1>1, <1>2 DEF IsPlaces
  <2> QED
    BY <1>1, <1>2, <2>1 DEF Limb
<1>3. CASE i # j
  <2>1. j - 1 \in i .. j - 1 /\ j - 1 - 1 \in i - 1 .. j - 1 /\ j - 1 - (j - 1) = 0
    BY <1>3
  <2>2. f[j - 1] = Mod16(f[j - 1 - 1] + Place(s, j - 1, 0))
    BY <1>1, <2>1 DEF IsPlaces
  <2>3. Place(s, j - 1, 0) \in Nat
    BY <2>1, PlaceType DEF AllDigits
  <2>4. f[j - 1 - 1] \in Nat
    BY <2>1
  <2> QED
    BY <1>1, <1>3, <2>2, <2>3, <2>4, Mod16Type
<1> QED
  BY <1>2, <1>3

\* One digit more: every place is worth ten times as much.
LEMMA NextPlace ==
  ASSUME NEW s, NEW i \in Nat, NEW j \in Nat, i <= j, AllDigits(s, i, j + 1)
  PROVE  Value(s, i, j + 1)
           = (Value(s, i, j) * 10 + digit_value(Char(s, j))) % 65536
<1>0. /\ AllDigits(s, i, j) /\ j + 1 \in Nat /\ i <= j + 1 /\ Char(s, j) \in Digit
      /\ (j + 1) - 1 = j
  BY DEF AllDigits
<1>1. PICK f \in [i - 1 .. j - 1 -> Nat] :
        IsPlaces(f, s, i, j) /\ Value(s, i, j) = f[j - 1]
  BY <1>0, Places
<1>2. PICK g \in [i - 1 .. j -> Nat] :
        IsPlaces(g, s, i, j + 1) /\ Value(s, i, j + 1) = g[j]
  <2>1. \E g \in [i - 1 .. (j + 1) - 1 -> Nat] :
          IsPlaces(g, s, i, j + 1) /\ Value(s, i, j + 1) = g[(j + 1) - 1]
    BY <1>0, Places
  <2> QED
    BY <1>0, <2>1
<1>3. /\ f[i - 1] = 0
      /\ \A k \in i .. j - 1 : f[k] = Mod16(f[k - 1] + Place(s, k, j - 1 - k))
  BY <1>1 DEF IsPlaces
<1>4. /\ g[i - 1] = 0
      /\ \A k \in i .. j : g[k] = Mod16(g[k - 1] + Place(s, k, j - k))
  BY <1>0, <1>2 DEF IsPlaces
<1>5. ASSUME NEW k \in i - 1 .. j - 1 PROVE g[k] = Mod16(10 * f[k])
  <2> DEFINE S == {n \in i - 1 .. j - 1 : g[n] = Mod16(10 * f[n])}
  <2>1. i - 1 \in Int /\ j - 1 \in Int /\ i - 1 \in S
    <3>1. Mod16(10 * 0) = 0
      BY DEF Mod16
    <3> QED
      BY <1>3, <1>4, <3>1
  <2>2. ASSUME NEW n \in i - 1 .. j - 1, n > i - 1, n - 1 \in S PROVE n \in S
    <3>1. n \in i .. j - 1 /\ n \in i .. j /\ n - 1 \in i - 1 .. j - 1
      BY <2>2
    <3>2. g[n] = Mod16(Mod16(10 * f[n - 1]) + Place(s, n, j - n))
      BY <1>4, <2>2, <3>1
    <3>3. f[n] = Mod16(f[n - 1] + Place(s, n, j - 1 - n)) /\ f[n - 1] \in Nat
      BY <1>3, <3>1
    <3>4. j - 1 - n \in Nat /\ (j - 1 - n) + 1 = j - n /\ Char(s, n) \in Digit
      BY <1>0, <3>1 DEF AllDigits
    <3> DEFINE e == j - 1 - n
               a == f[n - 1]
    <3>5. g[n] = Mod16(10 * f[n])
      <4>1. /\ e \in Nat /\ a \in Nat /\ Char(s, n) \in Digit
            /\ g[n] = Mod16(Mod16(10 * a) + Place(s, n, e + 1))
            /\ f[n] = Mod16(a + Place(s, n, e))
        BY <3>2, <3>3, <3>4
      <4> HIDE DEF e, a, S
      <4> QED
        BY <4>1, TenPlaces
    <3> QED
      BY <3>5
  <2> HIDE DEF S
  <2>3. \A n \in i - 1 .. j - 1 : n \in S
    BY <2>1, <2>2, IntervalInduction
  <2> QED
    BY <2>3 DEF S
<1>6. j - 1 \in i - 1 .. j - 1 /\ j \in i .. j /\ j - j = 0
  OBVIOUS
<1>7. g[j] = Mod16(Mod16(10 * f[j - 1]) + digit_value(Char(s, j)))
  <2>1. g[j] = Mod16(g[j - 1] + Place(s, j, 0))
    BY <1>4, <1>6
  <2>2. Place(s, j, 0) = digit_value(Char(s, j))
    BY <1>0, PlaceType
  <2> QED
    BY <1>5, <1>6, <2>1, <2>2
<1>8. f[j - 1] \in Nat /\ digit_value(Char(s, j)) \in Nat
  BY <1>0, <1>6, DigitValues
<1>9. ASSUME NEW x \in Nat, NEW y \in Nat
      PROVE  Mod16(Mod16(10 * x) + y) = (x * 10 + y) % 65536
  BY DEF Mod16
<1> QED
  BY <1>1, <1>2, <1>7, <1>8, <1>9

-----------------------------------------------------------------------------
\* The magnitude.

\* An unsigned long.
Limbs == {m \in Seq(Nat) : Len(m) = Limbs64 /\ \A i \in 1 .. Limbs64 : m[i] \in Limb}

LEMMA ZeroLimbs == Zero(Limbs64) \in Limbs /\ Zero(Limbs64)[1] = 0
<1> DEFINE z == [i \in 1 .. 4 |-> 0]
<1>1. z \in Seq(Nat) /\ Len(z) = 4 /\ \A i \in 1 .. 4 : z[i] = 0
  OBVIOUS
<1>2. 0 \in Limb
  BY DEF Limb
<1>3. Zero(Limbs64) = z
  BY DEF Zero, Limbs64
<1> HIDE DEF z
<1> QED
  BY <1>1, <1>2, <1>3 DEF Limbs, Limbs64

\* The low limb of the magnitude after a digit.
LEMMA AccumulateLow ==
  ASSUME NEW m \in Limbs, NEW d \in Nat
  PROVE  /\ accumulate(m, d) \in Limbs
         /\ accumulate(m, d)[1] = (m[1] * 10 + d) % 65536
<1>1. m \in Seq(Nat) /\ Len(m) = 4 /\ Len(m) > 0 /\ 10 \in Nat /\ d \in Int
  BY DEF Limbs, Limbs64
<1>2. PICK t \in [1 .. Len(m) -> Int] :
        IsSum(t, m, 10, d) /\ Carried(t, m, MulAdd(m, 10, d))
  BY <1>1, MulAddSum
<1>3. t[1] = m[1] * 10 + d
  BY <1>1, <1>2 DEF IsSum
<1> DEFINE a == accumulate(m, d)
<1>4. a = [i \in 1 .. 4 |-> t[i] % 65536]
  BY <1>1, <1>2 DEF accumulate, Carried
<1> HIDE DEF a
<1>5. ASSUME NEW i \in 1 .. 4 PROVE a[i] \in Limb /\ a[i] \in Nat
  <2>1. t[i] \in Int
    BY <1>1
  <2> QED
    BY <1>4, <2>1, LimbModulo, LimbNat
<1>6. a \in Seq(Nat) /\ Len(a) = 4
  BY <1>4, <1>5
<1> QED
  BY <1>3, <1>4, <1>5, <1>6 DEF a, Limbs, Limbs64

-----------------------------------------------------------------------------
\* The parser.

\* The character at q has been read: c is that character, and the next one
\* is behind it, except at the end.
HasRead(s, x, n, q) ==
  /\ q \in Nat /\ q > 0 /\ q <= Len(s) + 1
  /\ x = Char(s, q)
  /\ n = IF q <= Len(s) THEN q + 1 ELSE q

\* The white space from b on ends at w, where the sign or the first digit
\* would be, and the digits reach up to before q.
InDigits(s, b, w, q) ==
  /\ Skips(s, b, Space, w) /\ Char(s, w) \notin Space
  /\ Skips(s, SignEnd(s, w), Digit, q)

\* A call that found the input at b has read up to q.
Skipping(s, b, x, n, m) ==
  /\ m = Zero(Limbs64)
  /\ \E q \in Nat : HasRead(s, x, n, q) /\ Skips(s, b, Space, q)

Parsing(s, b, x, n, neg, has, m) ==
  \E w, q \in Nat :
    /\ HasRead(s, x, n, q) /\ InDigits(s, b, w, q)
    /\ neg <=> Char(s, w) = "-"
    /\ has <=> q > SignEnd(s, w)
    /\ m[1] = Value(s, SignEnd(s, w), q)

\* The calls that have returned.
Answered(s, rs, bs, n) ==
  \A k \in 1 .. Len(rs) :
    /\ rs[k] \in Limb
    /\ rs[k] = Wanted(s, bs[k]).value
    /\ Wanted(s, bs[k]).next = IF k < Len(bs) THEN bs[k + 1] ELSE n

Place1(s, n) == n \in Nat /\ n > 0 /\ n <= Len(s) + 1

ReadInv ==
  /\ stdin \in Input
  /\ Place1(stdin, at)
  /\ rstage \in {"idle", "skip", "digits"}
  /\ magnitude \in Limbs
  /\ results \in Seq(Int) /\ starts \in Seq(Nat)
  /\ Len(starts) = Len(results) + (IF rstage = "idle" THEN 0 ELSE 1)
  /\ Answered(stdin, results, starts, at)
  /\ rstage # "idle" => Place1(stdin, starts[Len(starts)])
  /\ rstage = "skip" =>
       Skipping(stdin, starts[Len(starts)], c, at, magnitude)
  /\ rstage = "skip" => has_digit = FALSE
  /\ rstage = "digits" =>
       Parsing(stdin, starts[Len(starts)], c, at, negative, has_digit, magnitude)

\* getchar after the character at q, which is not the end.
LEMMA ReadsNext ==
  ASSUME NEW s \in Input, NEW x, NEW n, NEW q, HasRead(s, x, n, q),
         x # EndOfFile, NEW y, y = Char(s, n), NEW m,
         m = IF n <= Len(s) THEN n + 1 ELSE n
  PROVE  HasRead(s, y, m, q + 1)
<1>0. Len(s) \in Nat
  BY DEF Input
<1>1. q \in Nat /\ q > 0 /\ q <= Len(s)
  BY <1>0, CharEnds DEF HasRead
<1>2. n = q + 1
  BY <1>1 DEF HasRead
<1> QED
  BY <1>0, <1>1, <1>2 DEF HasRead

LEMMA SkipsNext ==
  ASSUME NEW s \in Input, NEW i \in Nat, NEW S, NEW q, Skips(s, i, S, q),
         Char(s, q) \in S, q <= Len(s)
  PROVE  Skips(s, i, S, q + 1)
<1>0. Len(s) \in Nat /\ q \in Nat /\ i <= q
  BY DEF Input, Skips
<1>1. ASSUME NEW k \in i .. (q + 1) - 1 PROVE Char(s, k) \in S
  <2>1. CASE k = q
    BY <2>1
  <2>2. CASE k # q
    <3>1. k \in i .. q - 1
      BY <1>0, <2>2
    <3> QED
      BY <3>1 DEF Skips
  <2> QED
    BY <2>1, <2>2
<1> QED
  BY <1>0, <1>1 DEF Skips

LEMMA SkipsNone ==
  ASSUME NEW s \in Input, NEW i \in Nat, NEW S, i <= Len(s) + 1
  PROVE  Skips(s, i, S, i)
<1>1. i .. i - 1 = {}
  OBVIOUS
<1> QED
  BY <1>1 DEF Skips

\* A call returns when it meets no digit: the value it returns is the one
\* wanted, and ungetc leaves the input where it is wanted.
LEMMA ReturnsWanted ==
  ASSUME NEW s \in Input, NEW b \in Nat, b > 0, NEW x, NEW n, NEW neg, NEW has,
         NEW m \in Limbs, Parsing(s, b, x, n, neg, has, m), x \notin Digit,
         NEW v, v = IF ~has THEN 0 ELSE IF neg THEN (0 - m[1]) % 65536 ELSE m[1],
         NEW u, u = IF x = EndOfFile THEN n ELSE n - 1
  PROVE  /\ v \in Limb /\ v = Wanted(s, b).value
         /\ u = Wanted(s, b).next /\ Place1(s, u)
<1>0. Len(s) \in Nat
  BY DEF Input
<1>1. PICK w \in Nat, q \in Nat :
        /\ HasRead(s, x, n, q) /\ InDigits(s, b, w, q)
        /\ neg <=> Char(s, w) = "-"
        /\ has <=> q > SignEnd(s, w)
        /\ m[1] = Value(s, SignEnd(s, w), q)
  BY DEF Parsing
<1> DEFINE d == SignEnd(s, w)
<1>2. w > 0 /\ d \in Nat /\ d > 0 /\ d <= q
  <2>1. w > 0
    BY <1>1 DEF InDigits, Skips
  <2>2. Skips(s, d, Digit, q)
    BY <1>1 DEF InDigits
  <2> QED
    BY <1>1, <2>1, <2>2 DEF Skips, SignEnd
<1>3. FirstNot(s, b, Space) = w
  BY <1>1, SkipsToFirst DEF InDigits
<1>4. FirstNot(s, d, Digit) = q
  <2>1. Skips(s, d, Digit, q) /\ Char(s, q) \notin Digit
    BY <1>1 DEF InDigits, HasRead
  <2> HIDE DEF d
  <2> QED
    BY <1>2, <2>1, SkipsToFirst
<1>5. Wanted(s, b).value = WithSign(s, w, Value(s, d, q)) /\ Wanted(s, b).next = q
  BY <1>3, <1>4 DEF Wanted
<1>6. AllDigits(s, d, q)
  BY <1>1 DEF InDigits, Skips, AllDigits
<1>7. Value(s, d, q) \in Limb /\ (d = q => Value(s, d, q) = 0)
  <2> HIDE DEF d
  <2> QED
    BY <1>2, <1>6, ValueType
<1>8. u = q /\ Place1(s, u)
  <2>1. q \in Nat /\ q > 0 /\ q <= Len(s) + 1 /\ x = Char(s, q)
        /\ n = IF q <= Len(s) THEN q + 1 ELSE q
    BY <1>1 DEF HasRead
  <2>2. x = EndOfFile <=> q > Len(s)
    BY <2>1, CharEnds
  <2> QED
    BY <1>0, <2>1, <2>2 DEF Place1
<1> DEFINE a == Value(s, d, q)
           minus == Char(s, w) = "-"
<1>9. v \in Limb /\ v = WithSign(s, w, a)
  <2>1. m[1] = a /\ (has <=> q > d) /\ (neg <=> minus)
    BY <1>1
  <2>2. WithSign(s, w, a) = IF minus THEN (65536 - a) % 65536 ELSE a
    BY DEF WithSign
  <2>3. a \in Nat /\ a <= 65535 /\ a \in Limb
    BY <1>7, LimbNat
  <2>4. v = IF ~(q > d) THEN 0 ELSE IF minus THEN (0 - a) % 65536 ELSE a
    <3> DEFINE y == (0 - m[1]) % 65536
    <3>1. v = IF ~has THEN 0 ELSE IF neg THEN y ELSE m[1]
      OBVIOUS
    <3> HIDE DEF y, minus, d, a
    <3>2. v = IF ~(q > d) THEN 0 ELSE IF minus THEN y ELSE m[1]
      BY <2>1, <3>1
    <3> QED
      BY <2>1, <3>2 DEF y
  <2>5. /\ (0 - a) % 65536 = (65536 - a) % 65536 /\ 65536 - a \in Int
        /\ (65536 - 0) % 65536 = 0 /\ 0 \in Limb
    <3>1. 0 \in Limb
      BY DEF Limb
    <3>2. ASSUME NEW y \in Nat, y <= 65535
          PROVE  (0 - y) % 65536 = (65536 - y) % 65536
      BY <3>2
    <3> HIDE DEF a
    <3> QED
      BY <2>3, <3>1, <3>2
  <2>6. (65536 - a) % 65536 \in Limb
    <3> HIDE DEF a
    <3> QED
      BY <2>3, LimbModulo
  <2>7. ~(q > d) => a = 0
    BY <1>2, <1>7
  <2> HIDE DEF a, minus, d
  <2> QED
    BY <2>2, <2>3, <2>4, <2>5, <2>6, <2>7
<1> QED
  BY <1>5, <1>8, <1>9

LEMMA AnsweredMore ==
  ASSUME NEW s, NEW rs \in Seq(Int), NEW bs \in Seq(Nat), NEW n, NEW b \in Nat,
         Len(bs) = Len(rs), Answered(s, rs, bs, n), b = n, NEW m
  PROVE  Answered(s, rs, Append(bs, b), m)
<1> DEFINE cs == Append(bs, b)
<1>1. /\ Len(cs) = Len(bs) + 1 /\ cs[Len(bs) + 1] = b
      /\ \A k \in 1 .. Len(bs) : cs[k] = bs[k]
  OBVIOUS
<1>2. Len(rs) \in Nat
  OBVIOUS
<1> HIDE DEF cs
<1>3. ASSUME NEW k \in 1 .. Len(rs)
      PROVE  /\ rs[k] \in Limb
             /\ rs[k] = Wanted(s, cs[k]).value
             /\ Wanted(s, cs[k]).next = IF k < Len(cs) THEN cs[k + 1] ELSE m
  <2>1. cs[k] = bs[k] /\ k < Len(cs)
    BY <1>1, <1>2
  <2>2. cs[k + 1] = IF k < Len(bs) THEN bs[k + 1] ELSE n
    <3>1. CASE k < Len(bs)
      <4>1. k + 1 \in 1 .. Len(bs)
        BY <1>2, <3>1
      <4> QED
        BY <1>1, <3>1, <4>1
    <3>2. CASE ~(k < Len(bs))
      <4>1. k = Len(bs)
        BY <1>2, <3>2
      <4> QED
        BY <1>1, <3>2, <4>1
    <3> QED
      BY <3>1, <3>2
  <2> QED
    BY <2>1, <2>2 DEF Answered
<1>4. Answered(s, rs, cs, m)
  BY <1>3 DEF Answered
<1> QED
  BY <1>4 DEF cs

LEMMA AnsweredElsewhere ==
  ASSUME NEW s, NEW rs \in Seq(Int), NEW bs \in Seq(Nat), NEW n, NEW m,
         Len(bs) = Len(rs) + 1, Answered(s, rs, bs, n)
  PROVE  Answered(s, rs, bs, m)
<1>1. \A k \in 1 .. Len(rs) : k < Len(bs)
  OBVIOUS
<1> QED
  BY <1>1 DEF Answered

LEMMA AnsweredLast ==
  ASSUME NEW s, NEW rs \in Seq(Int), NEW bs \in Seq(Nat), NEW n,
         Len(bs) = Len(rs) + 1, Answered(s, rs, bs, n),
         NEW v \in Limb, NEW u,
         v = Wanted(s, bs[Len(bs)]).value, u = Wanted(s, bs[Len(bs)]).next
  PROVE  Answered(s, Append(rs, v), bs, u)
<1> DEFINE qs == Append(rs, v)
<1>0. v \in Int /\ Len(rs) \in Nat
  BY LimbNat
<1>1. /\ Len(qs) = Len(rs) + 1 /\ qs[Len(rs) + 1] = v
      /\ \A k \in 1 .. Len(rs) : qs[k] = rs[k]
  BY <1>0
<1> HIDE DEF qs
<1>2. ASSUME NEW k \in 1 .. Len(qs)
      PROVE  /\ qs[k] \in Limb
             /\ qs[k] = Wanted(s, bs[k]).value
             /\ Wanted(s, bs[k]).next = IF k < Len(bs) THEN bs[k + 1] ELSE u
  <2>1. CASE k = Len(bs)
    <3>1. qs[k] = v /\ ~(k < Len(bs))
      BY <1>0, <1>1, <2>1
    <3> QED
      BY <2>1, <3>1
  <2>2. CASE k # Len(bs)
    <3>1. k \in 1 .. Len(rs) /\ k < Len(bs)
      BY <1>0, <1>1, <2>2
    <3> QED
      BY <1>1, <3>1 DEF Answered
  <2> QED
    BY <2>1, <2>2
<1>3. Answered(s, qs, bs, u)
  BY <1>2 DEF Answered
<1> QED
  BY <1>3 DEF qs

\* The starting place of the current call.
Start == starts[Len(starts)]

LEMMA ReadInitInv == ReadInit => ReadInv
<1> SUFFICES ASSUME ReadInit PROVE ReadInv
  OBVIOUS
<1>1. stdin \in Input /\ Len(stdin) \in Nat
  BY InputsAssumption DEF ReadInit, Input
<1>2. magnitude \in Limbs
  BY ZeroLimbs DEF ReadInit
<1>3. results = <<>> /\ starts = <<>> /\ at = 1 /\ rstage = "idle"
  BY DEF ReadInit
<1>4. Answered(stdin, results, starts, at)
  BY <1>3 DEF Answered
<1> QED
  BY <1>1, <1>2, <1>3, <1>4 DEF ReadInv, Place1

LEMMA CallInv ==
  ASSUME ReadInv, call_read_int
  PROVE  ReadInv'
<1>0. Len(stdin) \in Nat /\ Place1(stdin, at)
  BY DEF ReadInv, Input
<1>1. /\ rstage = "idle" /\ rstage' = "skip" /\ has_digit' = FALSE
      /\ magnitude' = Zero(Limbs64) /\ starts' = Append(starts, at)
      /\ stdin' = stdin /\ results' = results
      /\ c' = char(at) /\ at' = IF at <= Len(stdin) THEN at + 1 ELSE at
  BY DEF call_read_int, getchar
<1>2. HasRead(stdin, c', at', at)
  BY <1>0, <1>1 DEF HasRead, Place1, char, Char
<1>3. Skips(stdin, at, Space, at)
  BY <1>0, SkipsNone DEF ReadInv, Place1
<1>4. Place1(stdin, at')
  BY <1>0, <1>1 DEF Place1
<1>5. /\ starts \in Seq(Nat) /\ results \in Seq(Int) /\ Len(starts) = Len(results)
      /\ at \in Nat /\ Answered(stdin, results, starts, at)
  BY <1>1 DEF ReadInv, Place1
<1>6. Answered(stdin, results, starts', at')
  BY <1>1, <1>5, AnsweredMore
<1>7. /\ starts' \in Seq(Nat) /\ Len(starts') = Len(results) + 1
      /\ starts'[Len(starts')] = at
  BY <1>1, <1>5
<1>8. Skipping(stdin, at, c', at', magnitude')
  BY <1>1, <1>2, <1>3, <1>5 DEF Skipping
<1>9. magnitude' \in Limbs
  BY <1>1, ZeroLimbs
<1>10. stdin \in Input
  BY DEF ReadInv
<1> QED
  BY <1>0, <1>1, <1>4, <1>5, <1>6, <1>7, <1>8, <1>9, <1>10 DEF ReadInv

\* What every step inside a call leaves alone.
LEMMA InsideCall ==
  ASSUME ReadInv, rstage # "idle", UNCHANGED <<stdin, results, starts>>,
         rstage' \in {"skip", "digits"}, Place1(stdin, at'), magnitude' \in Limbs,
         rstage' = "skip" =>
           Skipping(stdin, Start, c', at', magnitude') /\ has_digit' = FALSE,
         rstage' = "digits" =>
           Parsing(stdin, Start, c', at', negative', has_digit', magnitude')
  PROVE  ReadInv'
<1>1. /\ stdin \in Input /\ results \in Seq(Int) /\ starts \in Seq(Nat)
      /\ Len(starts) = Len(results) + 1 /\ Answered(stdin, results, starts, at)
      /\ Place1(stdin, starts[Len(starts)])
  BY DEF ReadInv
<1>2. Answered(stdin, results, starts, at')
  BY <1>1, AnsweredElsewhere
<1>3. stdin' = stdin /\ results' = results /\ starts' = starts
  OBVIOUS
<1> QED
  BY <1>1, <1>2, <1>3 DEF ReadInv, Start

LEMMA HasReadPlace ==
  ASSUME NEW s \in Input, NEW x, NEW n, NEW q, HasRead(s, x, n, q)
  PROVE  Place1(s, n)
<1>1. Len(s) \in Nat
  BY DEF Input
<1> QED
  BY <1>1 DEF HasRead, Place1

LEMMA InsideFacts ==
  ASSUME ReadInv, rstage # "idle"
  PROVE  stdin \in Input /\ Len(stdin) \in Nat /\ Start \in Nat /\ Start > 0
  BY DEF ReadInv, Input, Place1, Start

LEMMA SkipSpaceInv ==
  ASSUME ReadInv, skip_space
  PROVE  ReadInv'
<1>1. /\ rstage = "skip" /\ c \in Space /\ rstage' = rstage
      /\ has_digit' = has_digit /\ magnitude' = magnitude
      /\ UNCHANGED <<stdin, results, starts>>
      /\ c' = char(at) /\ at' = IF at <= Len(stdin) THEN at + 1 ELSE at
  BY DEF skip_space, getchar, call
<1>2. stdin \in Input /\ Len(stdin) \in Nat /\ Start \in Nat /\ Start > 0
  BY <1>1, InsideFacts
<1>3. PICK q \in Nat : HasRead(stdin, c, at, q) /\ Skips(stdin, Start, Space, q)
  BY <1>1 DEF ReadInv, Skipping, Start
<1>4. c # EndOfFile
  BY <1>1, EofIsNone
<1>5. HasRead(stdin, c', at', q + 1)
  <2>1. char(at) = Char(stdin, at)
    BY DEF char, Char
  <2> QED
    BY <1>1, <1>2, <1>3, <1>4, <2>1, ReadsNext
<1>6. Skips(stdin, Start, Space, q + 1)
  <2>1. q <= Len(stdin) /\ Char(stdin, q) \in Space
    BY <1>1, <1>2, <1>3, <1>4, CharEnds DEF HasRead
  <2> QED
    BY <1>2, <1>3, <2>1, SkipsNext
<1>7. Skipping(stdin, Start, c', at', magnitude')
  <2>1. magnitude = Zero(Limbs64) /\ q + 1 \in Nat
    BY <1>1 DEF ReadInv, Skipping
  <2> QED
    BY <1>1, <1>5, <1>6, <2>1 DEF Skipping
<1>8. Place1(stdin, at')
  BY <1>2, <1>5, HasReadPlace
<1>9. magnitude' \in Limbs /\ has_digit' = FALSE
  BY <1>1 DEF ReadInv
<1> QED
  BY <1>1, <1>7, <1>8, <1>9, InsideCall

LEMMA TakeSignInv ==
  ASSUME ReadInv, take_sign
  PROVE  ReadInv'
<1>1. /\ rstage = "skip" /\ c \notin Space /\ rstage' = "digits"
      /\ negative' = (c = "-")
      /\ has_digit' = has_digit /\ magnitude' = magnitude
      /\ UNCHANGED <<stdin, results, starts>>
  BY DEF take_sign
<1>2. stdin \in Input /\ Len(stdin) \in Nat /\ Start \in Nat /\ Start > 0
  BY <1>1, InsideFacts
<1>3. PICK q \in Nat : HasRead(stdin, c, at, q) /\ Skips(stdin, Start, Space, q)
  BY <1>1 DEF ReadInv, Skipping, Start
<1>4. magnitude = Zero(Limbs64) /\ has_digit = FALSE /\ magnitude \in Limbs
  BY <1>1 DEF ReadInv, Skipping
<1> DEFINE d == SignEnd(stdin, q)
<1>5. HasRead(stdin, c', at', d)
  <2>1. CASE c = "-"
    <3>1. /\ c' = Char(stdin, at)
          /\ at' = IF at <= Len(stdin) THEN at + 1 ELSE at
      BY <2>1 DEF take_sign, getchar, char, Char
    <3>2. c # EndOfFile
      BY <2>1, EofIsNone
    <3>3. d = q + 1
      BY <1>3, <2>1 DEF HasRead, SignEnd
    <3>4. HasRead(stdin, c', at', q + 1)
      BY <1>2, <1>3, <3>1, <3>2, ReadsNext
    <3> QED
      BY <3>3, <3>4
  <2>2. CASE c # "-"
    <3>1. c' = c /\ at' = at
      BY <2>2 DEF take_sign
    <3>2. d = q
      BY <1>3, <2>2 DEF HasRead, SignEnd
    <3> QED
      BY <1>3, <3>1, <3>2
  <2> QED
    BY <2>1, <2>2
<1>6. d \in Nat /\ d <= Len(stdin) + 1 /\ d > 0
  BY <1>5 DEF HasRead
<1>7. c = Char(stdin, q)
  BY <1>3 DEF HasRead
<1> HIDE DEF d
<1>8. InDigits(stdin, Start, q, d)
  <2>1. Skips(stdin, d, Digit, d)
    BY <1>2, <1>6, SkipsNone
  <2> QED
    BY <1>1, <1>3, <1>7, <2>1 DEF InDigits, d
<1>9. magnitude'[1] = Value(stdin, d, d)
  <2>1. magnitude'[1] = 0
    BY <1>1, <1>4, ZeroLimbs
  <2>2. d .. d - 1 = {}
    BY <1>6
  <2>3. AllDigits(stdin, d, d)
    BY <2>2 DEF AllDigits
  <2>4. Value(stdin, d, d) = 0
    BY <1>6, <2>3, ValueType
  <2> QED
    BY <2>1, <2>4
<1>10. negative' <=> Char(stdin, q) = "-"
  BY <1>1, <1>7
<1>11. has_digit' <=> d > d
  BY <1>1, <1>4, <1>6
<1>12. Parsing(stdin, Start, c', at', negative', has_digit', magnitude')
  BY <1>3, <1>5, <1>6, <1>8, <1>9, <1>10, <1>11 DEF Parsing, d
<1>13. Place1(stdin, at')
  BY <1>2, <1>5, HasReadPlace
<1> QED
  BY <1>1, <1>4, <1>12, <1>13, InsideCall

LEMMA TakeDigitInv ==
  ASSUME ReadInv, take_digit
  PROVE  ReadInv'
<1>1. /\ rstage = "digits" /\ c \in Digit /\ rstage' = rstage
      /\ magnitude' = accumulate(magnitude, digit_value(c))
      /\ has_digit' = TRUE /\ negative' = negative
      /\ UNCHANGED <<stdin, results, starts>>
      /\ c' = Char(stdin, at) /\ at' = IF at <= Len(stdin) THEN at + 1 ELSE at
  BY DEF take_digit, getchar, char, Char
<1>2. stdin \in Input /\ Len(stdin) \in Nat /\ Start \in Nat /\ Start > 0
  BY <1>1, InsideFacts
<1>3. PICK w \in Nat, q \in Nat :
        /\ HasRead(stdin, c, at, q) /\ InDigits(stdin, Start, w, q)
        /\ negative <=> Char(stdin, w) = "-"
        /\ has_digit <=> q > SignEnd(stdin, w)
        /\ magnitude[1] = Value(stdin, SignEnd(stdin, w), q)
  BY <1>1 DEF ReadInv, Parsing, Start
<1>4. c # EndOfFile
  BY <1>1, EofIsNone
<1>5. HasRead(stdin, c', at', q + 1)
  BY <1>1, <1>2, <1>3, <1>4, ReadsNext
<1> DEFINE d == SignEnd(stdin, w)
<1>6. /\ q <= Len(stdin) /\ c = Char(stdin, q) /\ q + 1 \in Nat
      /\ Skips(stdin, d, Digit, q) /\ d \in Nat /\ d <= q
  <2>1. c = Char(stdin, q) /\ q > 0
    BY <1>3 DEF HasRead
  <2>2. q <= Len(stdin)
    BY <1>2, <1>4, <2>1, CharEnds
  <2>3. Skips(stdin, d, Digit, q)
    BY <1>3 DEF InDigits
  <2>4. d \in Nat /\ d <= q
    BY <2>3 DEF Skips, SignEnd
  <2> QED
    BY <2>1, <2>2, <2>3, <2>4
<1>7. InDigits(stdin, Start, w, q + 1)
  <2>1. Skips(stdin, d, Digit, q + 1)
    <3> HIDE DEF d
    <3> QED
      BY <1>1, <1>2, <1>6, SkipsNext
  <2> QED
    BY <1>3, <2>1 DEF InDigits
<1>8. AllDigits(stdin, d, q + 1)
  BY <1>7 DEF InDigits, Skips, AllDigits
<1>9. digit_value(c) \in Nat /\ magnitude \in Limbs
  <2>1. magnitude \in Limbs
    BY DEF ReadInv
  <2> QED
    BY <1>1, <2>1, DigitValues
<1>10. magnitude' \in Limbs
       /\ magnitude'[1] = (magnitude[1] * 10 + digit_value(c)) % 65536
  <2> DEFINE e == digit_value(c)
  <2>1. magnitude' = accumulate(magnitude, e)
    BY <1>1
  <2>2. e \in Nat /\ magnitude \in Limbs
    BY <1>9
  <2> HIDE DEF e
  <2>3. /\ accumulate(magnitude, e) \in Limbs
        /\ accumulate(magnitude, e)[1] = (magnitude[1] * 10 + e) % 65536
    BY <2>2, AccumulateLow
  <2> QED
    BY <2>1, <2>3 DEF e
<1>11. magnitude'[1] = Value(stdin, d, q + 1)
  <2>1. Value(stdin, d, q + 1)
          = (Value(stdin, d, q) * 10 + digit_value(Char(stdin, q))) % 65536
    <3> HIDE DEF d
    <3> QED
      BY <1>6, <1>8, NextPlace
  <2> QED
    BY <1>3, <1>6, <1>10, <2>1
<1>12. negative' <=> Char(stdin, w) = "-"
  BY <1>1, <1>3
<1>13. has_digit' <=> q + 1 > d
  BY <1>1, <1>6
<1>14. Parsing(stdin, Start, c', at', negative', has_digit', magnitude')
  BY <1>5, <1>6, <1>7, <1>11, <1>12, <1>13 DEF Parsing
<1>15. Place1(stdin, at')
  BY <1>2, <1>5, HasReadPlace
<1> QED
  BY <1>1, <1>10, <1>14, <1>15, InsideCall

LEMMA ReturnInv ==
  ASSUME ReadInv, return
  PROVE  ReadInv'
<1>1. /\ rstage = "digits" /\ c \notin Digit /\ rstage' = "idle"
      /\ results' = Append(results, return_value)
      /\ at' = IF c = EndOfFile THEN at ELSE at - 1
      /\ magnitude' = magnitude /\ UNCHANGED <<stdin, starts>>
  BY DEF return, ungetc
<1>2. /\ stdin \in Input /\ results \in Seq(Int) /\ starts \in Seq(Nat)
      /\ Len(starts) = Len(results) + 1 /\ Answered(stdin, results, starts, at)
      /\ magnitude \in Limbs /\ Start \in Nat /\ Start > 0
      /\ Parsing(stdin, Start, c, at, negative, has_digit, magnitude)
  BY <1>1, InsideFacts DEF ReadInv, Start
<1> DEFINE v == return_value
           u == at'
<1>3. v = IF ~has_digit THEN 0
          ELSE IF negative THEN (0 - magnitude[1]) % 65536 ELSE magnitude[1]
  BY DEF return_value
<1>4. /\ v \in Limb /\ v = Wanted(stdin, Start).value
      /\ u = Wanted(stdin, Start).next /\ Place1(stdin, u)
  <2>1. u = IF c = EndOfFile THEN at ELSE at - 1
    BY <1>1
  <2> HIDE DEF v, u
  <2> QED
    BY <1>1, <1>2, <1>3, <2>1, ReturnsWanted
<1>5. v \in Int /\ results' = Append(results, v)
  BY <1>1, <1>4, LimbNat
<1>6. Answered(stdin, results', starts, u)
  <2> HIDE DEF v, u
  <2> QED
    BY <1>2, <1>4, <1>5, AnsweredLast DEF Start
<1> HIDE DEF v
<1>7. results' \in Seq(Int) /\ Len(results') = Len(results) + 1
  BY <1>2, <1>5
<1> QED
  BY <1>1, <1>2, <1>4, <1>6, <1>7 DEF ReadInv

\* READ_INT takes any input apart without loss: every call returns the
\* number it meets modulo 65536, for numbers of any length, and leaves the
\* input at the first character behind it (vm.c: read_int_from_stdin).
THEOREM ReadIntExact == ReadSpec => []ReadsInputExactly
<1>1. ReadInit => ReadInv
  BY ReadInitInv
<1>2. ReadInv /\ [ReadNext]_readVars => ReadInv'
  <2> SUFFICES ASSUME ReadInv, [ReadNext]_readVars PROVE ReadInv'
    OBVIOUS
  <2>1. CASE UNCHANGED readVars
    BY <2>1 DEF readVars, call, ReadInv
  <2> QED
    BY <2>1, CallInv, SkipSpaceInv, TakeSignInv, TakeDigitInv, ReturnInv DEF ReadNext
<1>3. ReadInv => ReadsInputExactly
  <2> SUFFICES ASSUME ReadInv PROVE ReadsInputExactly
    OBVIOUS
  <2>1. at \in 1 .. Len(stdin) + 1 /\ DOMAIN results = 1 .. Len(results)
    <3>1. stdin \in Input /\ Place1(stdin, at) /\ results \in Seq(Int)
      BY DEF ReadInv
    <3>2. Len(stdin) \in Nat
      BY <3>1 DEF Input
    <3> QED
      BY <3>1, <3>2 DEF Place1
  <2>2. \A k \in 1 .. Len(results) : Expected(starts[k]) = Wanted(stdin, starts[k])
    BY WantedOfState
  <2>3. ASSUME NEW x \in Limb PROVE x \in Word
    BY LimbNat DEF Word
  <2>4. Answered(stdin, results, starts, at)
    BY DEF ReadInv
  <2> QED
    BY <2>1, <2>2, <2>3, <2>4 DEF ReadsInputExactly, Answered
<1> QED
  BY <1>1, <1>2, <1>3, PTL DEF ReadSpec
=============================================================================
