-------------------------- MODULE Durations_proofs --------------------------
(***************************************************************************)
(* A duration in config.yaml is read as exactly the seconds it means: the  *)
(* number read digit by digit from the left is the one its digits denote   *)
(* by their places, for texts of any length.  What the recursive functions *)
(* compute is proved by the least length at which it would be wrong.       *)
(***************************************************************************)
EXTENDS Inputs_proofs

(* What Value computes: a function of the digits read so far exists, so    *)
(* the one it chooses obeys its own definition.                            *)
ReadFromLeft(v, t) ==
  /\ v[0] = 0
  /\ \A i \in 1..Len(t) : v[i] = 10 * v[i - 1] + DigitValue[t[i]]

LEMMA ValueIs ==
  ASSUME NEW t, Len(t) \in Nat
  PROVE  \E v : Value(t) = v[Len(t)] /\ ReadFromLeft(v, t)
  <1> DEFINE Body(v, n) == [i \in 0..n |->
                              IF i = 0 THEN 0 ELSE 10 * v[i - 1] + DigitValue[t[i]]]
             Defined(n) == \E v : v = Body(v, n)
             Bad == {n \in Nat : ~Defined(n)}
  <1> HIDE DEF Defined
  <1>1. ASSUME Bad # {} PROVE FALSE
    <2>1. PICK n \in Bad : \A m \in Bad : n <= m
      BY <1>1, LeastIndex
    <2>2. n # 0
      <3> DEFINE z == [i \in 0..0 |-> 0]
      <3>1. z = Body(z, 0)
        OBVIOUS
      <3>2. Defined(0)
        BY <3>1 DEF Defined
      <3> QED
        BY <2>1, <3>2
    <2>3. n \in Nat /\ n - 1 \in Nat /\ n - 1 \notin Bad
      BY <2>1, <2>2
    <2>4. Defined(n - 1)
      BY <2>3
    <2>5. PICK f : f = Body(f, n - 1)
      BY <2>4 DEF Defined
    <2> DEFINE g == [i \in 0..n |->
                       IF i = n THEN 10 * f[n - 1] + DigitValue[t[n]] ELSE f[i]]
    <2>6. ASSUME NEW i \in 0..n PROVE g[i] = Body(g, n)[i]
      <3>1. CASE i = 0
        BY <2>2, <2>3, <2>5, <3>1
      <3>2. CASE i # 0 /\ i # n
        BY <2>2, <2>3, <2>5, <3>2
      <3>3. CASE i = n
        BY <2>2, <2>3, <2>5, <3>3
      <3> QED
        BY <3>1, <3>2, <3>3
    <2>7. g = Body(g, n)
      BY <2>6
    <2>8. Defined(n)
      BY <2>7 DEF Defined
    <2> QED
      BY <2>1, <2>8
  <1>2. Defined(Len(t))
    BY <1>1
  <1>3. \E v : v = Body(v, Len(t))
    BY <1>2 DEF Defined
  <1> DEFINE v == CHOOSE v : v = [i \in 0..Len(t) |->
                              IF i = 0 THEN 0 ELSE 10 * v[i - 1] + DigitValue[t[i]]]
  <1>4. v = Body(v, Len(t))
    BY <1>3
  <1>5. Value(t) = v[Len(t)]
    BY DEF Value
  <1> HIDE DEF v
  <1>6. ReadFromLeft(v, t)
    BY <1>4 DEF ReadFromLeft
  <1> QED
    BY <1>5, <1>6

(* So does the one PlaceValues chooses, a function of the digits to go.    *)
ReadFromRight(w, t, i, j) ==
  /\ w[j + 1] = [sum |-> 0, weight |-> 1]
  /\ \A k \in i..j :
       w[k] = [sum |-> DigitValue[t[k]] * w[k + 1].weight + w[k + 1].sum,
               weight |-> 10 * w[k + 1].weight]

LEMMA PlaceValuesAre ==
  ASSUME NEW t, NEW i \in Nat, NEW j \in Nat, i <= j + 1
  PROVE  \E w : PlaceValues(t, i, j) = w[i].sum /\ ReadFromRight(w, t, i, j)
  <1> DEFINE Step(r, k) == [sum |-> DigitValue[t[k]] * r.weight + r.sum,
                            weight |-> 10 * r.weight]
             Body(w, m) == [k \in m..(j + 1) |->
                              IF k > j THEN [sum |-> 0, weight |-> 1]
                              ELSE Step(w[k + 1], k)]
             Defined(n) == \E w : w = Body(w, j + 1 - n)
             Bad == {n \in Nat : ~Defined(n)}
  <1> HIDE DEF Defined
  <1>1. ASSUME Bad # {} PROVE FALSE
    <2>1. PICK n \in Bad : \A m \in Bad : n <= m
      BY <1>1, LeastIndex
    <2>2. n # 0
      <3> DEFINE z == [k \in (j + 1)..(j + 1) |-> [sum |-> 0, weight |-> 1]]
      <3>1. z = Body(z, j + 1) /\ j + 1 - 0 = j + 1
        OBVIOUS
      <3>2. Defined(0)
        BY <3>1 DEF Defined
      <3> QED
        BY <2>1, <3>2
    <2>3. n \in Nat /\ n - 1 \in Nat /\ n - 1 \notin Bad
      BY <2>1, <2>2
    <2>4. Defined(n - 1)
      BY <2>3
    <2> DEFINE l == j + 1 - n
    <2>5. l \in Int /\ j + 1 - (n - 1) = l + 1 /\ l <= j
      BY <2>2, <2>3
    <2>6. PICK f : f = Body(f, l + 1)
      BY <2>4, <2>5 DEF Defined
    <2> DEFINE g == [k \in l..(j + 1) |-> IF k = l THEN Step(f[l + 1], l) ELSE f[k]]
    <2> HIDE DEF l, Step
    <2>7. ASSUME NEW k \in l..(j + 1) PROVE g[k] = Body(g, l)[k]
      <3>1. CASE k = l
        BY <2>5, <2>6, <3>1
      <3>2. CASE k # l /\ k > j
        BY <2>5, <2>6, <3>2
      <3>3. CASE k # l /\ ~(k > j)
        <4>1. k \in (l + 1)..(j + 1) /\ k + 1 \in l..(j + 1) /\ k + 1 # l
          BY <2>5, <3>3
        <4>2. g[k] = f[k] /\ g[k + 1] = f[k + 1]
          BY <4>1, <3>3
        <4>3. f[k] = Step(f[k + 1], k)
          BY <2>6, <4>1, <3>3
        <4> QED
          BY <4>2, <4>3, <3>3
      <3> QED
        BY <3>1, <3>2, <3>3
    <2>8. g = Body(g, l)
      BY <2>7
    <2>9. Defined(n)
      BY <2>8 DEF Defined, l
    <2> QED
      BY <2>1, <2>9
  <1>2. Defined(j + 1 - i)
    BY <1>1
  <1>3. \E w : w = Body(w, i)
    <2>1. j + 1 - (j + 1 - i) = i
      OBVIOUS
    <2> QED
      BY <1>2, <2>1 DEF Defined
  <1> DEFINE from == CHOOSE from : from =
               [k \in i..(j + 1) |->
                  IF k > j THEN [sum |-> 0, weight |-> 1]
                  ELSE [sum |-> DigitValue[t[k]] * from[k + 1].weight + from[k + 1].sum,
                        weight |-> 10 * from[k + 1].weight]]
  <1>4. from = Body(from, i)
    BY <1>3
  <1>5. PlaceValues(t, i, j) = from[i].sum
    BY DEF PlaceValues
  <1> HIDE DEF from
  <1>6. from[j + 1] = [sum |-> 0, weight |-> 1]
    BY <1>4
  <1>7. \A k \in i..j : from[k] = Step(from[k + 1], k)
    <2> HIDE DEF Step
    <2> QED
      BY <1>4
  <1> QED
    BY <1>5, <1>6, <1>7 DEF ReadFromRight

(* Every digit denotes a number. *)
LEMMA DigitValues == \A d \in Digits : DigitValue[d] \in 0..9
  <1> DEFINE ten == <<"0", "1", "2", "3", "4", "5", "6", "7", "8", "9">>
  <1>1. \A d \in Digits : \E n \in 0..9 : ten[n + 1] = d
    <2>1. /\ ten[0 + 1] = "0" /\ ten[1 + 1] = "1" /\ ten[2 + 1] = "2"
          /\ ten[3 + 1] = "3" /\ ten[4 + 1] = "4" /\ ten[5 + 1] = "5"
          /\ ten[6 + 1] = "6" /\ ten[7 + 1] = "7" /\ ten[8 + 1] = "8"
          /\ ten[9 + 1] = "9"
      OBVIOUS
    <2>2. \A d \in Digits :
            d \in {"0", "1", "2", "3", "4", "5", "6", "7", "8", "9"}
      BY DEF Digits, DigitValue
    <2> HIDE DEF ten
    <2> QED
      BY <2>1, <2>2
  <1> QED
    BY <1>1 DEF Digits, DigitValue

(* Reading from the left, ten times what was read and one digit more, is    *)
(* reading every digit by its place from the right.                         *)
BothWays(L, D, v, s, p) ==
  /\ \A m \in 1..L : D[m] \in Nat
  /\ v[0] = 0
  /\ \A m \in 1..L : v[m] = 10 * v[m - 1] + D[m]
  /\ s[L] = 0
  /\ p[L] = 1
  /\ \A m \in 1..L : s[m - 1] = D[m] * p[m] + s[m] /\ p[m - 1] = 10 * p[m]

LEMMA LeftIsRight ==
  ASSUME NEW L \in Nat, NEW D, NEW v, NEW s, NEW p, BothWays(L, D, v, s, p)
  PROVE  v[L] \in Nat /\ v[L] = s[0]
  <1> USE DEF BothWays
  <1>1. \A m \in 0..L : v[m] \in Nat
    <2> DEFINE Bad == {m \in Nat : m \in 0..L /\ v[m] \notin Nat}
    <2>1. ASSUME Bad # {} PROVE FALSE
      <3>1. PICK m \in Bad : \A n \in Bad : m <= n
        BY <2>1, LeastIndex
      <3>2. m # 0 /\ m \in 1..L /\ m - 1 \in 0..L /\ m - 1 \notin Bad
        BY <3>1
      <3>3. v[m - 1] \in Nat /\ D[m] \in Nat /\ v[m] = 10 * v[m - 1] + D[m]
        BY <3>2
      <3> QED
        BY <3>1, <3>3
    <2> QED
      BY <2>1
  <1>2. \A m \in 0..L : s[m] \in Nat /\ p[m] \in Nat
    <2> DEFINE Bad == {n \in Nat : n \in 0..L /\ (s[L - n] \notin Nat \/ p[L - n] \notin Nat)}
    <2>1. ASSUME Bad # {} PROVE FALSE
      <3>1. PICK n \in Bad : \A m \in Bad : n <= m
        BY <2>1, LeastIndex
      <3>2. n # 0 /\ n \in 1..L /\ n - 1 \in 0..L /\ n - 1 \notin Bad
        BY <3>1
      <3> DEFINE m == L - (n - 1)
      <3>3. m \in 1..L /\ m - 1 = L - n
        BY <3>2
      <3>4. s[m] \in Nat /\ p[m] \in Nat
        BY <3>2
      <3> HIDE DEF m
      <3>5. s[m - 1] \in Nat /\ p[m - 1] \in Nat
        <4>1. D[m] \in Nat
          BY <3>3
        <4>2. s[m - 1] = D[m] * p[m] + s[m] /\ p[m - 1] = 10 * p[m]
          BY <3>3
        <4> QED
          BY <3>4, <4>1, <4>2
      <3> QED
        BY <3>1, <3>3, <3>5
    <2>2. ASSUME NEW m \in 0..L PROVE s[m] \in Nat /\ p[m] \in Nat
      <3>1. L - m \in Nat /\ L - m \in 0..L /\ L - (L - m) = m
        OBVIOUS
      <3>2. L - m \notin Bad
        BY <2>1
      <3> QED
        BY <3>1, <3>2
    <2> QED
      BY <2>2
  <1>3. \A m \in 0..L : v[m] * p[m] + s[m] = s[0]
    <2> DEFINE Bad == {m \in Nat : m \in 0..L /\ v[m] * p[m] + s[m] # s[0]}
    <2>1. ASSUME Bad # {} PROVE FALSE
      <3>1. PICK m \in Bad : \A n \in Bad : m <= n
        BY <2>1, LeastIndex
      <3>2. 0 \in 0..L /\ v[0] * p[0] + s[0] = s[0]
        BY <1>2
      <3>3. m # 0
        BY <3>1, <3>2
      <3>4. m \in 1..L /\ m - 1 \in 0..L /\ m - 1 \notin Bad
        BY <3>1, <3>3
      <3>5. v[m - 1] * p[m - 1] + s[m - 1] = s[0]
        BY <3>4
      <3>6. \A a, b, q, r \in Nat : (10 * a + b) * q + r = a * (10 * q) + (b * q + r)
        OBVIOUS
      <3>7. v[m] * p[m] + s[m] = v[m - 1] * p[m - 1] + s[m - 1]
        <4>1. v[m - 1] \in Nat /\ D[m] \in Nat /\ p[m] \in Nat /\ s[m] \in Nat
          BY <1>1, <1>2, <3>4
        <4>2. /\ v[m] = 10 * v[m - 1] + D[m]
              /\ s[m - 1] = D[m] * p[m] + s[m]
              /\ p[m - 1] = 10 * p[m]
          BY <3>4
        <4> QED
          BY <3>6, <4>1, <4>2
      <3> QED
        BY <3>1, <3>5, <3>7
    <2> QED
      BY <2>1
  <1>4. L \in 0..L
    OBVIOUS
  <1>5. v[L] \in Nat /\ v[L] * p[L] + s[L] = s[0]
    BY <1>1, <1>3, <1>4
  <1> QED
    BY <1>5

(* The same digits, wherever they stand in a text, denote the same number. *)
LEMMA SameNumber ==
  ASSUME NEW t, NEW digits, NEW i \in Nat, NEW j \in Nat, i <= j + 1,
         Len(digits) = j - i + 1,
         \A m \in 1..Len(digits) : digits[m] = t[i + m - 1] /\ digits[m] \in Digits
  PROVE  Value(digits) \in Nat /\ PlaceValues(t, i, j) = Value(digits)
  <1> DEFINE L == j - i + 1
             D == [m \in 1..L |-> DigitValue[digits[m]]]
  <1>1. L \in Nat /\ Len(digits) = L /\ i + L = j + 1
    OBVIOUS
  <1>2. PICK v : Value(digits) = v[L] /\ ReadFromLeft(v, digits)
    BY <1>1, ValueIs
  <1>3. PICK w : PlaceValues(t, i, j) = w[i].sum /\ ReadFromRight(w, t, i, j)
    BY PlaceValuesAre
  <1> DEFINE s == [m \in 0..L |-> w[i + m].sum]
             p == [m \in 0..L |-> w[i + m].weight]
  <1> HIDE DEF L
  <1>4. ASSUME NEW m \in 1..L PROVE D[m] \in Nat
    <2>1. digits[m] \in Digits
      BY <1>1
    <2>2. DigitValue[digits[m]] \in 0..9
      BY <2>1, DigitValues
    <2> QED
      BY <2>2
  <1>5. v[0] = 0 /\ \A m \in 1..L : v[m] = 10 * v[m - 1] + D[m]
    <2>1. v[0] = 0
      BY <1>2 DEF ReadFromLeft
    <2>2. ASSUME NEW m \in 1..L PROVE v[m] = 10 * v[m - 1] + D[m]
      <3>1. v[m] = 10 * v[m - 1] + DigitValue[digits[m]]
        BY <1>1, <1>2 DEF ReadFromLeft
      <3> QED
        BY <3>1
    <2> QED
      BY <2>1, <2>2
  <1>6. s[L] = 0 /\ p[L] = 1 /\ s[0] = w[i].sum
    BY <1>1, <1>3 DEF ReadFromRight
  <1>7. ASSUME NEW m \in 1..L
        PROVE  s[m - 1] = D[m] * p[m] + s[m] /\ p[m - 1] = 10 * p[m]
    <2>1. /\ i + m - 1 \in i..j /\ i + (m - 1) = i + m - 1 /\ i + m - 1 + 1 = i + m
          /\ m \in 0..L /\ m - 1 \in 0..L
      BY <1>1
    <2>2. w[i + m - 1] = [sum |-> DigitValue[t[i + m - 1]] * w[i + m].weight + w[i + m].sum,
                          weight |-> 10 * w[i + m].weight]
      BY <1>3, <2>1 DEF ReadFromRight
    <2>3. DigitValue[t[i + m - 1]] = D[m]
      BY <1>1
    <2> QED
      BY <2>1, <2>2, <2>3
  <1> HIDE DEF D, s, p
  <1>8. v[L] \in Nat /\ v[L] = s[0]
    <2>1. BothWays(L, D, v, s, p)
      BY <1>4, <1>5, <1>6, <1>7 DEF BothWays
    <2> QED
      BY <1>1, <2>1, LeftIsRight
  <1> QED
    BY <1>2, <1>3, <1>6, <1>8

-----------------------------------------------------------------------------
(* A set of positions that is not empty has a first and a last one.         *)
LEMMA Ends ==
  ASSUME NEW N \in Nat, NEW I \in SUBSET (1..N), I # {}
  PROVE  \E a, b \in I : \A j \in I : a <= j /\ j <= b
  <1>1. I \in SUBSET Nat
    OBVIOUS
  <1>2. PICK a \in I : \A j \in I : a <= j
    BY <1>1, LeastIndex
  <1> DEFINE back == {n \in Nat : \E j \in I : n = N - j}
  <1>3. back # {} /\ back \in SUBSET Nat
    <2>1. PICK k \in I : TRUE
      OBVIOUS
    <2>2. k \in 1..N /\ N - k \in Nat
      BY <2>1
    <2>3. N - k \in back
      BY <2>1, <2>2
    <2> QED
      BY <2>3
  <1>4. PICK n \in back : \A m \in back : n <= m
    <2> HIDE DEF back
    <2> QED
      BY <1>3, LeastIndex
  <1>5. PICK b \in I : n = N - b
    BY <1>4
  <1>6. ASSUME NEW j \in I PROVE j <= b
    <2>1. j \in 1..N /\ b \in 1..N /\ N - j \in back
      OBVIOUS
    <2>2. N - b <= N - j
      BY <1>4, <1>5, <2>1
    <2> QED
      BY <2>1, <2>2
  <1> QED
    BY <1>2, <1>5, <1>6

(* Where the ink of a text begins and where it ends decide what is left of  *)
(* the text when it is trimmed.                                             *)
Inked(t, a, b) ==
  /\ a \in 1..Len(t) /\ b \in 1..Len(t) /\ a <= b
  /\ t[a] # " " /\ t[b] # " "
  /\ \A j \in 1..Len(t) : t[j] # " " => a <= j /\ j <= b

LEMMA TrimmedIs ==
  ASSUME NEW S, NEW t \in Seq(S)
  PROVE  \/ (\A j \in 1..Len(t) : t[j] = " ") /\ Trimmed(t) = <<>>
         \/ \E a, b \in 1..Len(t) : Inked(t, a, b) /\ Trimmed(t) = SubSeq(t, a, b)
  <1> DEFINE ink == {i \in DOMAIN t : t[i] # " "}
             N == Len(t)
  <1>1. N \in Nat /\ DOMAIN t = 1..N
    BY LenProperties
  <1> HIDE DEF N
  <1>2. CASE ink = {}
    <2>1. \A j \in 1..N : t[j] = " "
      BY <1>1, <1>2
    <2>2. Trimmed(t) = <<>>
      BY <1>2 DEF Trimmed
    <2> QED
      BY <2>1, <2>2 DEF N
  <1>3. CASE ink # {}
    <2>1. ink \in SUBSET (1..N)
      BY <1>1
    <2>2. PICK a, b \in ink : \A j \in ink : a <= j /\ j <= b
      <3> HIDE DEF ink
      <3> QED
        BY <1>1, <1>3, <2>1, Ends
    <2>3. /\ a \in 1..N /\ b \in 1..N /\ a <= b /\ t[a] # " " /\ t[b] # " "
          /\ \A j \in 1..N : t[j] # " " => a <= j /\ j <= b
      BY <1>1, <2>2
    <2>4. \A i \in ink : i \in 1..N
      BY <1>1
    <2>5. Trimmed(t) = SubSeq(t, CHOOSE i \in ink : \A j \in ink : i <= j,
                                 CHOOSE i \in ink : \A j \in ink : j <= i)
      BY <1>3 DEF Trimmed
    <2> HIDE DEF ink
    <2>6. (CHOOSE i \in ink : \A j \in ink : i <= j) = a
      <3>1. \A i \in ink : (\A j \in ink : i <= j) => i = a
        BY <1>1, <2>2, <2>4
      <3> QED
        BY <2>2, <3>1
    <2>7. (CHOOSE i \in ink : \A j \in ink : j <= i) = b
      <3>1. \A i \in ink : (\A j \in ink : j <= i) => i = b
        BY <1>1, <2>2, <2>4
      <3> QED
        BY <2>2, <3>1
    <2>8. Trimmed(t) = SubSeq(t, a, b)
      BY <2>5, <2>6, <2>7
    <2> QED
      BY <2>3, <2>8 DEF Inked, N
  <1> QED
    BY <1>2, <1>3

(* Where the number of a trimmed text begins: after a sign, if there is one. *)
NumberStart(t, a, b) == IF a < b /\ t[a] = "+" THEN a + 1 ELSE a

AllDigitsOf(t, i, b) == i < b /\ \A k \in i..(b - 1) : t[k] \in Digits

(* What is read as the number of a text: the digits between the sign and    *)
(* the unit, by their places.                                               *)
ReadAs(t, trimmed, i, b) ==
  /\ trimmed # <<>> /\ trimmed[Len(trimmed)] = t[b]
  /\ \A n : n \in ParseUnsigned(Before(trimmed, Len(trimmed)), MaxU64) <=>
              /\ AllDigitsOf(t, i, b)
              /\ n = PlaceValues(t, i, b - 1)
              /\ n \in 0..MaxU64
  /\ AllDigitsOf(t, i, b) => PlaceValues(t, i, b - 1) \in Nat

LEMMA NumberRead ==
  ASSUME NEW S, NEW t \in Seq(S), NEW a \in 1..Len(t), NEW b \in 1..Len(t), a <= b,
         NEW trimmed, trimmed = SubSeq(t, a, b), NEW i, i = NumberStart(t, a, b)
  PROVE  ReadAs(t, trimmed, i, b)
  <1> DEFINE front == Before(trimmed, Len(trimmed))
             digits == IF Starts(front, "+") THEN After(front, 1) ELSE front
  <1>1. Len(t) \in Nat /\ a \in Nat /\ b \in Nat
    BY LenProperties
  <1>2. /\ trimmed \in Seq(S) /\ Len(trimmed) = b - a + 1
        /\ \A m \in 1..(b - a + 1) : trimmed[m] = t[a + m - 1]
    BY <1>1, SubSeqProperties, ElementOfSeq
  <1>3. Len(trimmed) \in 1..Len(trimmed) /\ a + Len(trimmed) - 1 = b
    BY <1>1, <1>2
  <1>4. trimmed # <<>> /\ trimmed[Len(trimmed)] = t[b]
    BY <1>1, <1>2, <1>3, EmptySeq
  <1>5. /\ front \in Seq(S) /\ Len(front) = b - a
        /\ \A m \in 1..(b - a) : front[m] = t[a + m - 1]
    <2>1. /\ front \in Seq(S) /\ Len(front) = Len(trimmed) - 1
          /\ \A m \in 1..(Len(trimmed) - 1) : front[m] = trimmed[m]
      BY <1>2, <1>3, Pieces
    <2> HIDE DEF front
    <2> QED
      BY <1>1, <1>2, <2>1
  <1> HIDE DEF front
  <1>6. Starts(front, "+") <=> a < b /\ t[a] = "+"
    <2>1. front # <<>> <=> a < b
      BY <1>1, <1>5, EmptySeq
    <2>2. a < b => front[1] = t[a]
      BY <1>1, <1>5
    <2> QED
      BY <2>1, <2>2 DEF Starts
  <1>7. /\ i \in Nat /\ i <= b /\ digits \in Seq(S) /\ Len(digits) = b - i
        /\ \A m \in 1..(b - i) : digits[m] = t[i + m - 1]
    <2>1. CASE Starts(front, "+")
      <3>1. i = a + 1 /\ a < b /\ digits = After(front, 1)
        BY <1>6, <2>1 DEF NumberStart
      <3>2. /\ After(front, 1) \in Seq(S) /\ Len(After(front, 1)) = b - a - 1
            /\ \A m \in 1..(b - a - 1) : After(front, 1)[m] = front[1 + m]
        BY <1>1, <1>5, <3>1, SubSeqProperties, ElementOfSeq DEF After
      <3>3. ASSUME NEW m \in 1..(b - i) PROVE digits[m] = t[i + m - 1]
        <4>1. m \in 1..(b - a - 1) /\ 1 + m \in 1..(b - a) /\ a + (1 + m) - 1 = i + m - 1
          BY <1>1, <3>1
        <4> QED
          BY <1>5, <3>1, <3>2, <4>1
      <3> HIDE DEF digits
      <3>4. i \in Nat /\ i <= b /\ b - i = b - a - 1
        BY <1>1, <3>1
      <3>5. digits \in Seq(S) /\ Len(digits) = b - a - 1
        BY <3>1, <3>2
      <3>6. digits \in Seq(S) /\ Len(digits) = b - i /\ i \in Nat /\ i <= b
        BY <3>4, <3>5
      <3> QED
        BY <3>3, <3>6
    <2>2. CASE ~Starts(front, "+")
      <3>1. i = a /\ digits = front
        BY <1>6, <2>2 DEF NumberStart
      <3> HIDE DEF digits
      <3> QED
        BY <1>1, <1>5, <3>1
    <2> QED
      BY <2>1, <2>2
  <1>8. ParseUnsigned(front, MaxU64)
          = {n \in {IF digits # <<>> /\ AllDigits(digits) THEN Value(digits) ELSE None} :
               n \in 0..MaxU64}
    BY DEF ParseUnsigned
  <1> HIDE DEF digits
  <1>9. digits # <<>> /\ AllDigits(digits) <=> AllDigitsOf(t, i, b)
    <2>1. digits # <<>> <=> i < b
      BY <1>1, <1>7, EmptySeq
    <2>2. ASSUME AllDigits(digits), NEW k \in i..(b - 1) PROVE t[k] \in Digits
      <3>1. k - i + 1 \in 1..(b - i) /\ i + (k - i + 1) - 1 = k
        BY <1>1, <1>7
      <3>2. k - i + 1 \in DOMAIN digits
        BY <1>7, <3>1, LenProperties
      <3> QED
        BY <1>7, <2>2, <3>1, <3>2 DEF AllDigits
    <2>3. ASSUME AllDigitsOf(t, i, b), NEW m \in DOMAIN digits PROVE digits[m] \in Digits
      <3>1. m \in 1..(b - i)
        BY <1>7, LenProperties
      <3>2. i + m - 1 \in i..(b - 1)
        BY <1>1, <1>7, <3>1
      <3> QED
        BY <1>7, <2>3, <3>1, <3>2 DEF AllDigitsOf
    <2> QED
      BY <2>1, <2>2, <2>3 DEF AllDigits, AllDigitsOf
  <1>10. ASSUME AllDigitsOf(t, i, b)
         PROVE  Value(digits) \in Nat /\ PlaceValues(t, i, b - 1) = Value(digits)
    <2>1. i < b /\ b - 1 \in Nat /\ i <= (b - 1) + 1 /\ Len(digits) = (b - 1) - i + 1
      BY <1>1, <1>7, <1>10 DEF AllDigitsOf
    <2>2. ASSUME NEW m \in 1..Len(digits)
          PROVE  digits[m] = t[i + m - 1] /\ digits[m] \in Digits
      <3>1. m \in 1..(b - i) /\ i + m - 1 \in i..(b - 1)
        BY <1>1, <1>7
      <3> QED
        BY <1>7, <1>10, <3>1 DEF AllDigitsOf
    <2> QED
      BY <1>7, <2>1, <2>2, SameNumber
  <1>11. ASSUME NEW n
         PROVE  n \in ParseUnsigned(front, MaxU64) <=>
                  /\ AllDigitsOf(t, i, b)
                  /\ n = PlaceValues(t, i, b - 1)
                  /\ n \in 0..MaxU64
    <2>1. CASE AllDigitsOf(t, i, b)
      BY <1>8, <1>9, <1>10, <2>1
    <2>2. CASE ~AllDigitsOf(t, i, b)
      <3>1. None \notin 0..MaxU64
        BY DurationAssumption DEF None
      <3> QED
        BY <1>8, <1>9, <2>2, <3>1
    <2> QED
      BY <2>1, <2>2
  <1> QED
    BY <1>4, <1>10, <1>11 DEF ReadAs, front

(* What a text means, if anything: those digits, in that unit.              *)
Meaning(t, i, j) ==
  /\ i \in 1..Len(t) /\ j \in 1..Len(t) /\ i <= j /\ j < Len(t) /\ Means(t, i, j)

LEMMA NotBlank ==
  /\ " " \notin Digits /\ " " \notin DOMAIN SecondsPer
  /\ "+" \notin Digits /\ "+" # " "
  BY DEF Digits, DigitValue, SecondsPer

LEMMA MeaningIs ==
  ASSUME NEW S, NEW t \in Seq(S), NEW a \in Nat, NEW b \in Nat, Inked(t, a, b),
         NEW p \in Nat, NEW q \in Nat
  PROVE  Meaning(t, p, q) <=>
           /\ p = NumberStart(t, a, b) /\ q = b - 1
           /\ AllDigitsOf(t, p, b) /\ t[b] \in DOMAIN SecondsPer
  <1> DEFINE N == Len(t)
  <1>1. N \in Nat /\ DOMAIN t = 1..N
    BY LenProperties
  <1>2. a \in 1..N /\ b \in 1..N /\ a <= b
    BY DEF Inked
  <1>3. t[a] # " " /\ t[b] # " "
    BY DEF Inked
  <1>4. \A j \in 1..N : t[j] # " " => a <= j /\ j <= b
    BY DEF Inked
  <1> HIDE DEF N
  <1>5. ASSUME Meaning(t, p, q)
        PROVE  /\ p = NumberStart(t, a, b) /\ q = b - 1
               /\ AllDigitsOf(t, p, b) /\ t[b] \in DOMAIN SecondsPer
    <2>1. p \in 1..N /\ q \in 1..N /\ p <= q /\ q < N
      BY <1>5 DEF Meaning, N
    <2>2. \A k \in p..q : t[k] \in Digits
      BY <1>5 DEF Meaning, Means
    <2>3. t[q + 1] \in DOMAIN SecondsPer
      BY <1>5 DEF Meaning, Means
    <2>4. \A k \in 1..N : k > q + 1 => t[k] = " "
      BY <1>1, <1>5 DEF Meaning, Means
    <2>5. \A k \in 1..(p - 1) : t[k] = " " \/ (k = p - 1 /\ t[k] = "+")
      BY <1>5 DEF Meaning, Means
    <2>6. q + 1 = b
      <3>1. q + 1 \in 1..N
        BY <1>1, <2>1
      <3>2. t[q + 1] # " "
        BY <2>3, NotBlank
      <3>3. q + 1 <= b
        BY <1>4, <3>1, <3>2
      <3>4. ~(b > q + 1)
        BY <1>2, <1>3, <2>4
      <3> QED
        BY <3>3, <3>4
    <2>7. t[p] \in Digits /\ a <= p
      <3>1. p \in p..q
        BY <2>1
      <3>2. t[p] \in Digits
        BY <2>2, <3>1
      <3>3. t[p] # " "
        BY <3>2, NotBlank
      <3> QED
        BY <1>4, <2>1, <3>2, <3>3
    <2>8. p = NumberStart(t, a, b)
      <3>1. CASE a = p
        BY <2>7, <3>1, NotBlank DEF NumberStart
      <3>2. CASE a # p
        <4>1. a \in 1..(p - 1)
          BY <1>2, <2>7, <3>2
        <4>2. a = p - 1 /\ t[a] = "+"
          BY <1>3, <2>5, <4>1
        <4>3. a < b /\ p = a + 1
          BY <2>1, <2>6, <4>2
        <4> QED
          BY <4>2, <4>3 DEF NumberStart
      <3> QED
        BY <3>1, <3>2
    <2>9. p < b /\ q = b - 1
      BY <2>1, <2>6
    <2> QED
      BY <2>2, <2>3, <2>6, <2>8, <2>9 DEF AllDigitsOf
  <1>6. ASSUME p = NumberStart(t, a, b), q = b - 1,
               AllDigitsOf(t, p, b), t[b] \in DOMAIN SecondsPer
        PROVE  Meaning(t, p, q)
    <2>1. p < b /\ \A k \in p..q : t[k] \in Digits
      BY <1>6 DEF AllDigitsOf
    <2>2. p = a \/ (p = a + 1 /\ t[a] = "+")
      BY <1>6 DEF NumberStart
    <2>3. p \in 1..N /\ q \in 1..N /\ p <= q /\ q < N /\ q + 1 = b
      <3>1. q = b - 1 /\ (p = a \/ p = a + 1)
        BY <1>6, <2>2
      <3>2. p < b
        BY <2>1
      <3> QED
        BY <1>1, <1>2, <3>1, <3>2
    <2>4. ASSUME NEW k \in 1..N, k > q + 1 PROVE t[k] = " "
      <3>1. ~(k <= b)
        BY <2>3, <2>4
      <3> QED
        BY <1>4, <3>1
    <2>5. ASSUME NEW k \in 1..(p - 1) PROVE t[k] = " " \/ (k = p - 1 /\ t[k] = "+")
      <3>1. k \in 1..N /\ k < p
        BY <1>1, <2>3
      <3>2. CASE t[k] # " "
        <4>1. a <= k
          BY <1>4, <3>1, <3>2
        <4>2. p # a
          BY <3>1, <4>1
        <4>3. p = a + 1 /\ t[a] = "+"
          BY <2>2, <4>2
        <4>4. k = a /\ k = p - 1
          BY <3>1, <4>1, <4>3
        <4> QED
          BY <4>3, <4>4
      <3> QED
        BY <3>2
    <2>6. t[q + 1] \in DOMAIN SecondsPer
      BY <1>6, <2>3
    <2>7. Means(t, p, q)
      BY <1>1, <2>1, <2>4, <2>5, <2>6 DEF Means
    <2> QED
      BY <2>3, <2>7 DEF Meaning, N
  <1> QED
    BY <1>5, <1>6

(* Times(n, factor) is the product, or says that it does not fit.           *)
LEMMA TimesIs ==
  ASSUME NEW n \in Nat, NEW factor \in Nat, NEW o \in Times(n, factor)
  PROVE  \/ o.kind = "ok" /\ (o.secs = n * factor \/ n * factor > MaxU64)
         \/ o.kind = "panic" /\ n * factor > MaxU64
  <1>1. n * factor \in Nat /\ MaxU64 \in Nat
    BY DurationAssumption
  <1>2. CASE n * factor <= MaxU64
    <2>1. o = Ok(n * factor)
      BY <1>2 DEF Times
    <2> QED
      BY <2>1 DEF Ok
  <1>3. CASE ~(n * factor <= MaxU64)
    <2>1. n * factor > MaxU64
      BY <1>1, <1>3
    <2>2. o = Panic \/ o = Ok((n * factor) % (MaxU64 + 1))
      BY <1>3 DEF Times
    <2> QED
      BY <2>1, <2>2 DEF Ok, Panic
  <1> QED
    BY <1>2, <1>3

(* What parse_duration says of a text, by what the text means.              *)
SecondsOf(t, i, j) == PlaceValues(t, i, j) * SecondsPer[t[j + 1]]

LEMMA OutcomeIs ==
  ASSUME NEW S, NEW t \in Seq(S), NEW o \in ParseDuration(t)
  PROVE  \/ /\ o.kind = "ok"
            /\ \E i, j \in Nat : /\ Meaning(t, i, j)
                                 /\ o.secs = SecondsOf(t, i, j) \/ SecondsOf(t, i, j) > MaxU64
         \/ /\ o.kind = "refused"
            /\ \A i, j \in Nat : Meaning(t, i, j) => PlaceValues(t, i, j) > MaxU64
         \/ /\ o.kind = "panic"
            /\ \/ \E i, j \in Nat : Meaning(t, i, j) /\ SecondsOf(t, i, j) > MaxU64
               \/ Trimmed(t)[Len(Trimmed(t))] \in Wide
  <1> DEFINE trimmed == Trimmed(t)
             unit == trimmed[Len(trimmed)]
             numbers == ParseUnsigned(Before(trimmed, Len(trimmed)), MaxU64)
  <1>1. CASE (\A k \in 1..Len(t) : t[k] = " ") /\ trimmed = <<>>
    <2>1. o = Refused
      BY <1>1 DEF ParseDuration
    <2>2. ASSUME NEW i \in Nat, NEW j \in Nat, Meaning(t, i, j) PROVE FALSE
      <3>1. i \in 1..Len(t) /\ i \in i..j /\ t[i] \in Digits
        <4>1. i \in 1..Len(t) /\ i <= j
          BY <2>2 DEF Meaning
        <4>2. i \in i..j
          BY <4>1
        <4>3. t[i] \in Digits
          BY <2>2, <4>2 DEF Meaning, Means
        <4> QED
          BY <4>1, <4>2, <4>3
      <3> QED
        BY <1>1, <3>1, NotBlank
    <2> QED
      BY <2>1, <2>2 DEF Refused
  <1>2. ASSUME NEW a \in 1..Len(t), NEW b \in 1..Len(t),
               Inked(t, a, b), trimmed = SubSeq(t, a, b)
        PROVE  \/ /\ o.kind = "ok"
                  /\ \E i, j \in Nat : /\ Meaning(t, i, j)
                                       /\ \/ o.secs = SecondsOf(t, i, j)
                                          \/ SecondsOf(t, i, j) > MaxU64
               \/ /\ o.kind = "refused"
                  /\ \A i, j \in Nat : Meaning(t, i, j) => PlaceValues(t, i, j) > MaxU64
               \/ /\ o.kind = "panic"
                  /\ \/ \E i, j \in Nat : Meaning(t, i, j) /\ SecondsOf(t, i, j) > MaxU64
                     \/ Trimmed(t)[Len(Trimmed(t))] \in Wide
    <2> DEFINE i == NumberStart(t, a, b)
    <2>1. a \in Nat /\ b \in Nat /\ b - 1 \in Nat /\ b - 1 + 1 = b /\ a <= b
      <3>1. a <= b
        BY <1>2 DEF Inked
      <3>2. Len(t) \in Nat
        BY LenProperties
      <3> QED
        BY <3>1, <3>2
    <2>2. i \in Nat
      BY <2>1 DEF NumberStart
    <2> HIDE DEF i
    <2>3. /\ trimmed # <<>> /\ unit = t[b]
          /\ \A n : n \in numbers <=> /\ AllDigitsOf(t, i, b)
                                      /\ n = PlaceValues(t, i, b - 1)
                                      /\ n \in 0..MaxU64
          /\ AllDigitsOf(t, i, b) => PlaceValues(t, i, b - 1) \in Nat
      <3>1. trimmed = SubSeq(t, a, b) /\ i = NumberStart(t, a, b) /\ a <= b
        BY <1>2, <2>1 DEF i
      <3> HIDE DEF trimmed
      <3>2. ReadAs(t, trimmed, i, b)
        <4> HIDE DEF unit, numbers
        <4> QED
          BY <3>1, NumberRead
      <3> QED
        BY <3>2 DEF ReadAs
    <2>4. \A p, q \in Nat : Meaning(t, p, q) <=>
             p = i /\ q = b - 1 /\ AllDigitsOf(t, p, b) /\ t[b] \in DOMAIN SecondsPer
      BY <1>2, <2>1, MeaningIs DEF i
    <2>5. o \in (IF trimmed = <<>> THEN {Refused}
                 ELSE IF unit \in Wide THEN {Panic}
                 ELSE IF unit \notin DOMAIN SecondsPer \/ numbers = {} THEN {Refused}
                 ELSE UNION {Times(n, SecondsPer[unit]) : n \in numbers})
      BY DEF ParseDuration
    <2> HIDE DEF numbers, unit
    <2>6. CASE unit \in Wide
      BY <2>3, <2>5, <2>6 DEF Panic, unit
    <2>7. CASE unit \notin Wide /\ (unit \notin DOMAIN SecondsPer \/ numbers = {})
      <3>1. o = Refused
        BY <2>3, <2>5, <2>7
      <3>2. ASSUME NEW p \in Nat, NEW q \in Nat, Meaning(t, p, q)
            PROVE  PlaceValues(t, p, q) > MaxU64
        <4>1. p = i /\ q = b - 1 /\ AllDigitsOf(t, i, b) /\ unit \in DOMAIN SecondsPer
          BY <2>3, <2>4, <3>2
        <4>2. PlaceValues(t, p, q) \in Nat /\ PlaceValues(t, p, q) \notin 0..MaxU64
          BY <2>3, <2>7, <4>1
        <4> QED
          BY <4>2, DurationAssumption
      <3> QED
        BY <3>1, <3>2 DEF Refused
    <2>8. CASE unit \notin Wide /\ unit \in DOMAIN SecondsPer /\ numbers # {}
      <3>1. PICK n \in numbers : o \in Times(n, SecondsPer[unit])
        BY <2>3, <2>5, <2>8
      <3>2. /\ AllDigitsOf(t, i, b) /\ n = PlaceValues(t, i, b - 1) /\ n \in Nat
        BY <2>3, <3>1
      <3>3. Meaning(t, i, b - 1)
        BY <2>1, <2>2, <2>3, <2>4, <2>8, <3>2
      <3>4. SecondsPer[unit] \in Nat
        BY <2>8 DEF SecondsPer
      <3>5. SecondsOf(t, i, b - 1) = n * SecondsPer[unit]
        BY <2>1, <2>3, <3>2 DEF SecondsOf
      <3>6. \/ o.kind = "ok" /\ (o.secs = SecondsOf(t, i, b - 1)
                                   \/ SecondsOf(t, i, b - 1) > MaxU64)
            \/ o.kind = "panic" /\ SecondsOf(t, i, b - 1) > MaxU64
        BY <3>1, <3>2, <3>4, <3>5, TimesIs
      <3> QED
        BY <2>1, <2>2, <3>3, <3>6
    <2> QED
      BY <2>6, <2>7, <2>8
  <1> QED
    BY <1>1, <1>2, TrimmedIs

(* Whatever stands in a field of config.yaml, of any length: a duration that *)
(* fits is read as exactly the seconds it means, only what means nothing or  *)
(* does not fit is refused, and a panic has one of two reasons.              *)
THEOREM DurationsMeanWhatTheySay == Spec => []DurationsAreExact
  <1>1. ASSUME TextInv, NEW o \in ParseDuration(text)
        PROVE  LET meanings == {ij \in (1..Len(text)) \X (1..Len(text)) :
                                  ij[1] <= ij[2] /\ ij[2] < Len(text) /\ Means(text, ij[1], ij[2])}
                   Number(ij) == PlaceValues(text, ij[1], ij[2])
                   Seconds(ij) == Number(ij) * SecondsPer[text[ij[2] + 1]]
               IN  CASE o.kind = "ok" ->
                          \E ij \in meanings : o.secs = Seconds(ij) \/ Seconds(ij) > MaxU64
                     [] o.kind = "refused" -> \A ij \in meanings : Number(ij) > MaxU64
                     [] o.kind = "panic" ->
                          \/ \E ij \in meanings : Seconds(ij) > MaxU64
                          \/ Trimmed(text)[Len(Trimmed(text))] \in Wide
    <2> DEFINE meanings == {ij \in (1..Len(text)) \X (1..Len(text)) :
                              ij[1] <= ij[2] /\ ij[2] < Len(text) /\ Means(text, ij[1], ij[2])}
               Number(ij) == PlaceValues(text, ij[1], ij[2])
               Seconds(ij) == Number(ij) * SecondsPer[text[ij[2] + 1]]
    <2>1. text \in Seq(Alphabet[field])
      BY <1>1 DEF TextInv
    <2>2. ASSUME NEW i \in Nat, NEW j \in Nat, Meaning(text, i, j)
          PROVE  <<i, j>> \in meanings /\ Seconds(<<i, j>>) = SecondsOf(text, i, j)
      BY <2>2 DEF Meaning, SecondsOf
    <2>3. ASSUME NEW ij \in meanings
          PROVE  ij[1] \in Nat /\ ij[2] \in Nat /\ Meaning(text, ij[1], ij[2])
      BY <2>3 DEF Meaning
    <2> HIDE DEF meanings, Seconds
    <2>4. CASE /\ o.kind = "ok"
               /\ \E i, j \in Nat : /\ Meaning(text, i, j)
                                    /\ \/ o.secs = SecondsOf(text, i, j)
                                       \/ SecondsOf(text, i, j) > MaxU64
      <3>1. \E ij \in meanings : o.secs = Seconds(ij) \/ Seconds(ij) > MaxU64
        BY <2>2, <2>4
      <3> QED
        BY <2>4, <3>1 DEF meanings, Seconds
    <2>5. CASE /\ o.kind = "refused"
               /\ \A i, j \in Nat : Meaning(text, i, j) => PlaceValues(text, i, j) > MaxU64
      <3>1. \A ij \in meanings : Number(ij) > MaxU64
        BY <2>3, <2>5
      <3> QED
        BY <2>5, <3>1 DEF meanings
    <2>6. CASE /\ o.kind = "panic"
               /\ \/ \E i, j \in Nat : Meaning(text, i, j) /\ SecondsOf(text, i, j) > MaxU64
                  \/ Trimmed(text)[Len(Trimmed(text))] \in Wide
      <3>1. \/ \E ij \in meanings : Seconds(ij) > MaxU64
            \/ Trimmed(text)[Len(Trimmed(text))] \in Wide
        BY <2>2, <2>6
      <3> QED
        BY <2>6, <3>1 DEF meanings, Seconds
    <2> QED
      BY <1>1, <2>1, <2>4, <2>5, <2>6, OutcomeIs
  <1>2. TextInv => DurationsAreExact
    BY <1>1 DEF DurationsAreExact, DurationOutcomes
  <1> QED
    BY TextInvariant, <1>2, PTL
=============================================================================
