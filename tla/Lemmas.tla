-------------------------------- MODULE Lemmas --------------------------------
(***************************************************************************)
(* What the proofs of several modules need of numbers and of lists.        *)
(***************************************************************************)
EXTENDS Integers, Sequences, FiniteSetTheorems, SequenceTheorems, WellFoundedInduction, TLAPS

-----------------------------------------------------------------------------
(* Quotients and remainders: stripes and blocks are computed with them.    *)

(* Quotient and remainder are determined by the number they add up to.     *)
LEMMA Division ==
  ASSUME NEW n \in Nat \ {0}, NEW q \in Nat, NEW r \in 0 .. n - 1
  PROVE  (q * n + r) \div n = q /\ (q * n + r) % n = r
<1> DEFINE a == q * n + r
           p == a \div n
           s == a % n
<1>1. q * n \in Nat /\ a \in Nat
  OBVIOUS
<1>2. a = n * p + s /\ p \in Int /\ s \in 0 .. n - 1
  BY <1>1
<1>3. ~ (p < q)
  <2>1. SUFFICES ASSUME p + 1 <= q PROVE FALSE
    BY <1>2
  <2>2. n * (p + 1) <= n * q
    BY <1>2, <2>1
  <2> QED
    BY <1>2, <2>2
<1>4. ~ (q < p)
  <2>1. SUFFICES ASSUME q + 1 <= p PROVE FALSE
    BY <1>2
  <2>2. n * (q + 1) <= n * p
    BY <1>2, <2>1
  <2> QED
    BY <1>2, <2>2
<1>5. p = q
  BY <1>2, <1>3, <1>4
<1>6. s = r
  BY <1>2, <1>5
<1> QED
  BY <1>5, <1>6

(* Every number is a quotient times the divisor plus a remainder.          *)
LEMMA Decomposition ==
  ASSUME NEW a \in Nat, NEW n \in Nat \ {0}
  PROVE  /\ a \div n \in Nat
         /\ a % n \in 0 .. n - 1
         /\ a = (a \div n) * n + (a % n)
<1> DEFINE q == a \div n
<1>1. a = n * q + (a % n) /\ q \in Int /\ a % n \in 0 .. n - 1
  OBVIOUS
<1>2. ~ (q < 0)
  <2>1. SUFFICES ASSUME q + 1 <= 0 PROVE FALSE
    BY <1>1
  <2>2. n * (q + 1) <= n * 0
    BY <1>1, <2>1
  <2> QED
    BY <1>1, <2>2
<1> QED
  BY <1>1, <1>2

(* What is left over is less than the divisor.                             *)
LEMMA QuotientBounds ==
  ASSUME NEW a \in Nat, NEW n \in Nat \ {0}
  PROVE  /\ a \div n \in Nat
         /\ (a \div n) * n <= a
         /\ a < (a \div n + 1) * n
<1> DEFINE q == a \div n
           r == a % n
<1>1. q \in Nat /\ r \in 0 .. n - 1 /\ a = q * n + r
  BY Decomposition
<1> HIDE DEF q, r
<1>2. q * n \in Nat /\ (q + 1) * n = q * n + n
  BY <1>1
<1>3. q * n <= a /\ a < (q + 1) * n
  BY <1>1, <1>2
<1> QED
  BY <1>1, <1>3 DEF q

(* Intervals of n numbers that begin at multiples of n do not overlap.     *)
LEMMA IntervalsDisjoint ==
  ASSUME NEW n \in Nat \ {0}, NEW b \in Nat, NEW c \in Nat, NEW u \in Int,
         u \in b * n .. (b + 1) * n - 1, u \in c * n .. (c + 1) * n - 1
  PROVE  b = c
<1>1. b * n \in Nat /\ c * n \in Nat /\ (b + 1) * n \in Nat /\ (c + 1) * n \in Nat
  OBVIOUS
<1>2. b * n < (c + 1) * n /\ c * n < (b + 1) * n
  BY <1>1
<1>3. ASSUME NEW i \in Nat, NEW j \in Nat, i + 1 <= j PROVE (i + 1) * n <= j * n
  BY <1>3
<1>4. ~ (b + 1 <= c)
  BY <1>1, <1>2, <1>3
<1>5. ~ (c + 1 <= b)
  BY <1>1, <1>2, <1>3
<1> QED
  BY <1>4, <1>5

(* A product grows with its factor.                                        *)
LEMMA ProductGrows ==
  ASSUME NEW n \in Nat, NEW i \in Int, NEW j \in Int, i <= j
  PROVE  i * n <= j * n
OBVIOUS

-----------------------------------------------------------------------------
(* Lists: what is in them, and that nothing is in them twice.              *)

(* A list is made of the values at its positions.                          *)
LEMMA ListFacts ==
  ASSUME NEW S, NEW q \in Seq(S)
  PROVE  /\ Len(q) \in Nat /\ DOMAIN q = 1 .. Len(q)
         /\ \A i \in 1 .. Len(q) : q[i] \in S /\ q[i] \in Range(q)
         /\ \A x \in Range(q) : \E i \in 1 .. Len(q) : x = q[i]
         /\ Range(q) \subseteq S
         /\ q = <<>> <=> Len(q) = 0
         /\ q = <<>> <=> Range(q) = {}
<1>1. Len(q) \in Nat /\ DOMAIN q = 1 .. Len(q) /\ \A i \in 1 .. Len(q) : q[i] \in S
  OBVIOUS
<1>2. q = <<>> <=> Len(q) = 0
  OBVIOUS
<1>3. /\ \A i \in 1 .. Len(q) : q[i] \in Range(q)
      /\ \A x \in Range(q) : \E i \in 1 .. Len(q) : x = q[i]
  BY <1>1 DEF Range
<1>4. q = <<>> <=> Range(q) = {}
  <2>1. Len(q) = 0 => Range(q) = {}
    BY <1>1, <1>3
  <2>2. Len(q) # 0 => 1 \in 1 .. Len(q)
    BY <1>1
  <2> QED
    BY <1>2, <1>3, <2>1, <2>2
<1> QED
  BY <1>1, <1>2, <1>3, <1>4

(* Nothing is in it twice.                                                 *)
LEMMA ListIsInjective ==
  ASSUME NEW S, NEW q \in Seq(S)
  PROVE  IsInjective(q) <=> \A i, j \in 1 .. Len(q) : q[i] = q[j] => i = j
BY DEF IsInjective

LEMMA AppendList ==
  ASSUME NEW S, NEW q \in Seq(S), NEW s \in S
  PROVE  /\ Append(q, s) \in Seq(S)
         /\ Len(Append(q, s)) = Len(q) + 1
         /\ Range(Append(q, s)) = Range(q) \cup {s}
         /\ IsInjective(q) /\ s \notin Range(q) => IsInjective(Append(q, s))
<1> DEFINE p == Append(q, s)
<1>1. /\ p \in Seq(S) /\ Len(p) = Len(q) + 1 /\ Len(q) \in Nat
      /\ \A i \in 1 .. Len(q) : p[i] = q[i]
      /\ p[Len(q) + 1] = s
  OBVIOUS
<1> HIDE DEF p
<1>2. \A i \in 1 .. Len(p) : i \in 1 .. Len(q) \/ i = Len(q) + 1
  BY <1>1
<1>3. \A i \in 1 .. Len(q) : i \in 1 .. Len(p) /\ Len(q) + 1 \in 1 .. Len(p) /\ i # Len(q) + 1
  BY <1>1
<1>4. Len(q) + 1 \in 1 .. Len(p)
  BY <1>1
<1>5. \A x : x \in Range(p) <=> x \in Range(q) \/ x = s
  <2>1. /\ \A i \in 1 .. Len(p) : p[i] \in Range(p)
        /\ \A x \in Range(p) : \E i \in 1 .. Len(p) : x = p[i]
    BY <1>1, ListFacts
  <2>2. /\ \A i \in 1 .. Len(q) : q[i] \in Range(q)
        /\ \A x \in Range(q) : \E i \in 1 .. Len(q) : x = q[i]
    BY ListFacts
  <2>3. \A x \in Range(p) : x \in Range(q) \/ x = s
    BY <1>1, <1>2, <2>1, <2>2
  <2>4. s \in Range(p) /\ \A x \in Range(q) : x \in Range(p)
    BY <1>1, <1>3, <1>4, <2>1, <2>2
  <2> QED
    BY <2>3, <2>4
<1>6. Range(p) = Range(q) \cup {s}
  BY <1>5
<1>7. ASSUME IsInjective(q), s \notin Range(q) PROVE IsInjective(p)
  <2>1. \A i, j \in 1 .. Len(p) : p[i] = p[j] => i = j
    BY <1>1, <1>2, <1>7, ListFacts, ListIsInjective
  <2> QED
    BY <1>1, <2>1, ListIsInjective
<1> QED
  BY <1>1, <1>6, <1>7 DEF p

(* A piece of a list.                                                      *)
LEMMA SubList ==
  ASSUME NEW S, NEW q \in Seq(S), NEW m \in 1 .. Len(q) + 1, NEW n \in 0 .. Len(q), m <= n + 1
  PROVE  /\ SubSeq(q, m, n) \in Seq(S)
         /\ Len(SubSeq(q, m, n)) = n + 1 - m
         /\ \A i \in 1 .. n + 1 - m : SubSeq(q, m, n)[i] = q[m + i - 1]
         /\ \A x : x \in Range(SubSeq(q, m, n)) <=> \E j \in m .. n : x = q[j]
         /\ IsInjective(q) => IsInjective(SubSeq(q, m, n))
<1> DEFINE p == SubSeq(q, m, n)
<1>0. Len(q) \in Nat /\ \A i \in m .. n : i \in 1 .. Len(q) /\ q[i] \in S
  OBVIOUS
<1>1. /\ p \in Seq(S) /\ Len(p) = n + 1 - m
      /\ \A i \in 1 .. n + 1 - m : p[i] = q[m + i - 1]
  BY <1>0, SubSeqProperties
<1> HIDE DEF p
<1>2. \A j \in m .. n : j + 1 - m \in 1 .. Len(p) /\ p[j + 1 - m] = q[j]
  BY <1>1
<1>3. \A i \in 1 .. Len(p) : m + i - 1 \in m .. n /\ p[i] = q[m + i - 1]
  BY <1>1
<1>4. \A x : x \in Range(p) <=> \E j \in m .. n : x = q[j]
  <2>1. /\ \A i \in 1 .. Len(p) : p[i] \in Range(p)
        /\ \A x \in Range(p) : \E i \in 1 .. Len(p) : x = p[i]
    BY <1>1, ListFacts
  <2>2. \A x \in Range(p) : \E j \in m .. n : x = q[j]
    BY <1>3, <2>1
  <2>3. \A j \in m .. n : q[j] \in Range(p)
    BY <1>2, <2>1
  <2> QED
    BY <2>2, <2>3
<1>5. ASSUME IsInjective(q) PROVE IsInjective(p)
  <2>1. \A i, j \in 1 .. Len(p) : p[i] = p[j] => m + i - 1 = m + j - 1
    BY <1>0, <1>3, <1>5, ListIsInjective
  <2>2. \A i, j \in 1 .. Len(p) : p[i] = p[j] => i = j
    BY <1>1, <2>1
  <2> QED
    BY <1>1, <2>2, ListIsInjective
<1> QED
  BY <1>1, <1>4, <1>5 DEF p

(* The last element is taken off.                                          *)
LEMMA PopList ==
  ASSUME NEW S, NEW q \in Seq(S), q # <<>>
  PROVE  LET p == SubSeq(q, 1, Len(q) - 1)
             s == q[Len(q)]
         IN  /\ p \in Seq(S) /\ Len(p) = Len(q) - 1
             /\ s \in S /\ s \in Range(q)
             /\ IsInjective(q) => IsInjective(p) /\ Range(p) = Range(q) \ {s}
<1> DEFINE n == Len(q)
           p == SubSeq(q, 1, n - 1)
<1>1. n \in Nat /\ n > 0 /\ 1 \in 1 .. n + 1 /\ n - 1 \in 0 .. n /\ 1 <= n - 1 + 1 /\ n \in 1 .. n
  BY ListFacts
<1>2. /\ p \in Seq(S) /\ Len(p) = n - 1
      /\ \A x : x \in Range(p) <=> \E j \in 1 .. n - 1 : x = q[j]
      /\ IsInjective(q) => IsInjective(p)
  <2> DEFINE m == n - 1
  <2>1. 1 \in 1 .. Len(q) + 1 /\ m \in 0 .. Len(q) /\ 1 <= m + 1
    BY <1>1
  <2> HIDE DEF m
  <2>2. /\ SubSeq(q, 1, m) \in Seq(S) /\ Len(SubSeq(q, 1, m)) = m + 1 - 1
        /\ \A x : x \in Range(SubSeq(q, 1, m)) <=> \E j \in 1 .. m : x = q[j]
        /\ IsInjective(q) => IsInjective(SubSeq(q, 1, m))
    BY <2>1, SubList
  <2>3. m + 1 - 1 = m
    BY <2>1
  <2> QED
    BY <2>2, <2>3 DEF m
<1>3. q[n] \in S /\ q[n] \in Range(q)
  BY <1>1, ListFacts
<1> HIDE DEF p
<1>4. ASSUME IsInjective(q) PROVE Range(p) = Range(q) \ {q[n]}
  <2>1. /\ \A i \in 1 .. n : q[i] \in Range(q)
        /\ \A x \in Range(q) : \E i \in 1 .. n : x = q[i]
        /\ \A i, j \in 1 .. n : q[i] = q[j] => i = j
    BY <1>4, ListFacts, ListIsInjective
  <2>2. \A j \in 1 .. n : j # n => j \in 1 .. n - 1
    BY <1>1
  <2>3. \A j \in 1 .. n - 1 : j \in 1 .. n /\ j # n
    BY <1>1
  <2>4. \A x : x \in Range(p) <=> x \in Range(q) /\ x # q[n]
    BY <1>1, <1>2, <2>1, <2>2, <2>3, SMTT(30)
  <2> QED
    BY <2>4
<1> QED
  BY <1>2, <1>3, <1>4 DEF p

(* The first element is taken off.                                         *)
LEMMA TailList ==
  ASSUME NEW S, NEW q \in Seq(S), q # <<>>
  PROVE  /\ Head(q) \in S /\ Head(q) \in Range(q) /\ Head(q) = q[1]
         /\ Tail(q) \in Seq(S) /\ Len(Tail(q)) = Len(q) - 1
         /\ \A i \in 1 .. Len(q) - 1 : Tail(q)[i] = q[i + 1]
         /\ Range(q) = {Head(q)} \cup Range(Tail(q))
         /\ IsInjective(q) => IsInjective(Tail(q)) /\ Range(Tail(q)) = Range(q) \ {Head(q)}
<1> DEFINE n == Len(q)
           p == Tail(q)
<1>1. n \in Nat /\ n > 0 /\ 1 \in 1 .. n
  BY ListFacts
<1>2. /\ p \in Seq(S) /\ Len(p) = n - 1 /\ Head(q) = q[1]
      /\ \A i \in 1 .. n - 1 : p[i] = q[i + 1]
  OBVIOUS
<1> HIDE DEF p
<1>3. q[1] \in S /\ q[1] \in Range(q)
  BY <1>1, ListFacts
<1>4. /\ \A i \in 1 .. n : q[i] \in Range(q)
      /\ \A x \in Range(q) : \E i \in 1 .. n : x = q[i]
  BY ListFacts
<1>5. /\ \A i \in 1 .. n - 1 : p[i] \in Range(p)
      /\ \A x \in Range(p) : \E i \in 1 .. n - 1 : x = p[i]
  BY <1>2, ListFacts
<1>6. \A i \in 1 .. n : i = 1 \/ (i - 1 \in 1 .. n - 1 /\ p[i - 1] = q[i])
  BY <1>1, <1>2
<1>7. \A i \in 1 .. n - 1 : i + 1 \in 1 .. n /\ i + 1 # 1 /\ p[i] = q[i + 1]
  BY <1>1, <1>2
<1>8. \A x : x \in Range(q) <=> x = q[1] \/ x \in Range(p)
  <2>1. \A x \in Range(q) : x = q[1] \/ x \in Range(p)
    BY <1>4, <1>5, <1>6
  <2>2. \A x \in Range(p) : x \in Range(q)
    BY <1>4, <1>5, <1>7
  <2> QED
    BY <1>3, <2>1, <2>2
<1>9. ASSUME IsInjective(q) PROVE IsInjective(p) /\ Range(p) = Range(q) \ {q[1]}
  <2>1. \A i, j \in 1 .. n : q[i] = q[j] => i = j
    BY <1>9, ListIsInjective
  <2>2. \A i, j \in 1 .. n - 1 : p[i] = p[j] => i = j
    <3>1. \A i, j \in 1 .. n - 1 : p[i] = p[j] => i + 1 = j + 1
      BY <1>7, <2>1
    <3> QED
      BY <1>1, <3>1
  <2>3. q[1] \notin Range(p)
    BY <1>1, <1>5, <1>7, <2>1
  <2> QED
    BY <1>2, <1>8, <2>2, <2>3, ListIsInjective
<1>10. Range(q) = {q[1]} \cup Range(p)
  BY <1>8
<1> QED
  BY <1>2, <1>3, <1>9, <1>10 DEF p

(* The two parts of a list that is cut behind element n.                   *)
LEMMA CutList ==
  ASSUME NEW S, NEW q \in Seq(S), NEW n \in 0 .. Len(q)
  PROVE  LET a == SubSeq(q, 1, n)
             b == SubSeq(q, n + 1, Len(q))
         IN  /\ a \in Seq(S) /\ b \in Seq(S)
             /\ Len(a) = n /\ Len(b) = Len(q) - n
             /\ Range(a) \cup Range(b) = Range(q)
             /\ IsInjective(q) => /\ IsInjective(a) /\ IsInjective(b)
                                 /\ Range(a) \cap Range(b) = {}
<1> DEFINE a == SubSeq(q, 1, n)
           l == Len(q)
           m == n + 1
           b == SubSeq(q, m, l)
<1>1. /\ l \in Nat /\ n \in Nat /\ n <= l
      /\ 1 \in 1 .. Len(q) + 1 /\ 1 <= n + 1
      /\ m \in 1 .. Len(q) + 1 /\ l \in 0 .. Len(q) /\ m <= l + 1
  BY ListFacts
<1>2. /\ a \in Seq(S) /\ Len(a) = n + 1 - 1
      /\ \A x : x \in Range(a) <=> \E j \in 1 .. n : x = q[j]
      /\ IsInjective(q) => IsInjective(a)
  BY <1>1, SubList
<1> HIDE DEF m, l
<1>3. /\ b \in Seq(S) /\ Len(b) = l + 1 - m
      /\ \A x : x \in Range(b) <=> \E j \in m .. l : x = q[j]
      /\ IsInjective(q) => IsInjective(b)
  BY <1>1, SubList
<1>4. Len(a) = n /\ Len(b) = l - n
  BY <1>1, <1>2, <1>3 DEF m
<1> HIDE DEF a, b
<1>5. /\ \A i \in 1 .. l : q[i] \in Range(q)
      /\ \A x \in Range(q) : \E i \in 1 .. l : x = q[i]
  BY ListFacts DEF l
<1>6. /\ \A i \in 1 .. l : i \in 1 .. n \/ i \in m .. l
      /\ \A i \in 1 .. n : i \in 1 .. l
      /\ \A i \in m .. l : i \in 1 .. l
      /\ \A i \in 1 .. n, j \in m .. l : i # j
  BY <1>1 DEF m
<1>7. Range(a) \cup Range(b) = Range(q)
  <2>1. \A x \in Range(q) : x \in Range(a) \/ x \in Range(b)
    BY <1>2, <1>3, <1>5, <1>6
  <2>2. \A x \in Range(a) \cup Range(b) : x \in Range(q)
    BY <1>2, <1>3, <1>5, <1>6, SMTT(30)
  <2> QED
    BY <2>1, <2>2
<1>8. ASSUME IsInjective(q) PROVE Range(a) \cap Range(b) = {}
  <2>1. \A i, j \in 1 .. l : q[i] = q[j] => i = j
    BY <1>8, ListIsInjective DEF l
  <2> QED
    BY <1>2, <1>3, <1>6, <2>1
<1> QED
  BY <1>2, <1>3, <1>4, <1>7, <1>8 DEF a, b, m, l

LEMMA JoinLists ==
  ASSUME NEW S, NEW a \in Seq(S), NEW b \in Seq(S)
  PROVE  /\ a \o b \in Seq(S)
         /\ Len(a \o b) = Len(a) + Len(b)
         /\ Range(a \o b) = Range(a) \cup Range(b)
         /\ IsInjective(a) /\ IsInjective(b) /\ Range(a) \cap Range(b) = {} =>
              IsInjective(a \o b)
<1> DEFINE q == a \o b
           n == Len(a)
           k == Len(b)
<1>1. n \in Nat /\ k \in Nat
  BY ListFacts
<1>2. /\ q \in Seq(S) /\ Len(q) = n + k
      /\ \A i \in 1 .. n + k : q[i] = IF i <= n THEN a[i] ELSE b[i - n]
  BY ConcatProperties
<1> HIDE DEF q
<1>3. /\ \A i \in 1 .. n : i \in 1 .. n + k /\ q[i] = a[i]
      /\ \A i \in 1 .. k : i + n \in 1 .. n + k /\ q[i + n] = b[i]
      /\ \A i \in 1 .. n + k : (i \in 1 .. n /\ q[i] = a[i]) \/ (i - n \in 1 .. k /\ q[i] = b[i - n])
  <2>1. \A i \in 1 .. n : i \in 1 .. n + k /\ q[i] = a[i]
    BY <1>1, <1>2
  <2>2. ASSUME NEW i \in 1 .. k PROVE i + n \in 1 .. n + k /\ q[i + n] = b[i]
    <3>1. i + n \in 1 .. n + k /\ ~ (i + n <= n) /\ i + n - n = i
      BY <1>1
    <3> QED
      BY <1>2, <3>1
  <2>3. \A i \in 1 .. n + k : (i \in 1 .. n /\ q[i] = a[i]) \/ (i - n \in 1 .. k /\ q[i] = b[i - n])
    BY <1>1, <1>2
  <2> QED
    BY <2>1, <2>2, <2>3
<1>4. /\ \A i \in 1 .. n + k : q[i] \in Range(q)
      /\ \A x \in Range(q) : \E i \in 1 .. n + k : x = q[i]
  <2>1. /\ \A i \in 1 .. Len(q) : q[i] \in Range(q)
        /\ \A x \in Range(q) : \E i \in 1 .. Len(q) : x = q[i]
    BY <1>2, ListFacts
  <2> QED
    BY <1>2, <2>1
<1>5. /\ \A i \in 1 .. n : a[i] \in Range(a)
      /\ \A x \in Range(a) : \E i \in 1 .. n : x = a[i]
  BY ListFacts
<1>6. /\ \A i \in 1 .. k : b[i] \in Range(b)
      /\ \A x \in Range(b) : \E i \in 1 .. k : x = b[i]
  BY ListFacts
<1> HIDE DEF n, k
<1>7. Range(q) = Range(a) \cup Range(b)
  <2>1. \A x \in Range(q) : x \in Range(a) \cup Range(b)
    BY <1>3, <1>4, <1>5, <1>6
  <2>2. \A x \in Range(a) : x \in Range(q)
    BY <1>3, <1>4, <1>5
  <2>3. \A x \in Range(b) : x \in Range(q)
    BY <1>3, <1>4, <1>6
  <2> QED
    BY <2>1, <2>2, <2>3
<1>8. ASSUME IsInjective(a), IsInjective(b), Range(a) \cap Range(b) = {}
      PROVE  IsInjective(q)
  <2>1. /\ \A i, j \in 1 .. n : a[i] = a[j] => i = j
        /\ \A i, j \in 1 .. k : b[i] = b[j] => i = j
    BY <1>8, ListIsInjective DEF n, k
  <2>2. \A i \in 1 .. n, j \in 1 .. k : a[i] # b[j]
    BY <1>5, <1>6, <1>8
  <2>3. SUFFICES ASSUME NEW i \in 1 .. n + k, NEW j \in 1 .. n + k, q[i] = q[j]
                 PROVE  i = j
    BY <1>2, ListIsInjective
  <2>4. CASE i \in 1 .. n /\ q[i] = a[i]
    <3>1. j \in 1 .. n /\ q[j] = a[j]
      BY <1>3, <2>2, <2>3, <2>4
    <3> QED
      BY <2>1, <2>3, <2>4, <3>1
  <2>5. CASE i - n \in 1 .. k /\ q[i] = b[i - n]
    <3>1. j - n \in 1 .. k /\ q[j] = b[j - n]
      BY <1>3, <2>2, <2>3, <2>5
    <3>2. i - n = j - n
      BY <2>1, <2>3, <2>5, <3>1
    <3> QED
      BY <1>1, <3>2
  <2> QED
    BY <1>3, <2>4, <2>5
<1> QED
  BY <1>2, <1>7, <1>8 DEF q, n, k

LEMMA ReverseList ==
  ASSUME NEW S, NEW q \in Seq(S)
  PROVE  LET p == [i \in 1 .. Len(q) |-> q[Len(q) + 1 - i]]
         IN  /\ p \in Seq(S) /\ Len(p) = Len(q) /\ Range(p) = Range(q)
             /\ IsInjective(q) => IsInjective(p)
<1> DEFINE n == Len(q)
           p == [i \in 1 .. n |-> q[n + 1 - i]]
<1>1. /\ n \in Nat /\ \A i \in 1 .. n : n + 1 - i \in 1 .. n /\ n + 1 - (n + 1 - i) = i
  BY ListFacts
<1>2. p \in Seq(S) /\ Len(p) = n /\ \A i \in 1 .. n : p[i] = q[n + 1 - i]
  <2>1. \A i \in 1 .. n : q[n + 1 - i] \in S
    BY <1>1, ListFacts
  <2>2. p \in [1 .. n -> S]
    BY <2>1
  <2> QED
    BY <1>1, <2>2
<1> HIDE DEF p
<1>3. /\ \A i \in 1 .. n : q[i] \in Range(q)
      /\ \A x \in Range(q) : \E i \in 1 .. n : x = q[i]
  BY ListFacts
<1>4. /\ \A i \in 1 .. n : p[i] \in Range(p)
      /\ \A x \in Range(p) : \E i \in 1 .. n : x = p[i]
  BY <1>2, ListFacts
<1>5. Range(p) = Range(q)
  <2>1. \A i \in 1 .. n : p[i] \in Range(q)
    BY <1>1, <1>2, <1>3
  <2>2. \A i \in 1 .. n : q[i] \in Range(p)
    <3> SUFFICES ASSUME NEW i \in 1 .. n PROVE q[i] \in Range(p)
      OBVIOUS
    <3> DEFINE j == n + 1 - i
    <3>1. j \in 1 .. n /\ n + 1 - j = i
      BY <1>1
    <3> HIDE DEF j
    <3> QED
      BY <1>2, <1>4, <3>1
  <2>3. \A x \in Range(p) : x \in Range(q)
    BY <1>4, <2>1
  <2>4. \A x \in Range(q) : x \in Range(p)
    BY <1>3, <2>2
  <2> QED
    BY <2>3, <2>4
<1>6. ASSUME IsInjective(q) PROVE IsInjective(p)
  <2>1. \A i, j \in 1 .. n : q[i] = q[j] => i = j
    BY <1>6, ListIsInjective
  <2>2. \A i, j \in 1 .. n : p[i] = p[j] => n + 1 - i = n + 1 - j
    BY <1>1, <1>2, <2>1
  <2>3. \A i, j \in 1 .. n : p[i] = p[j] => i = j
    BY <1>1, <2>2
  <2> QED
    BY <1>2, <2>3, ListIsInjective
<1> QED
  BY <1>2, <1>5, <1>6 DEF p

(* Element i is taken out.                                                 *)
LEMMA RemoveFromList ==
  ASSUME NEW S, NEW q \in Seq(S), NEW i \in 1 .. Len(q), IsInjective(q)
  PROVE  LET p == SubSeq(q, 1, i - 1) \o SubSeq(q, i + 1, Len(q))
         IN  /\ p \in Seq(S) /\ Len(p) = Len(q) - 1 /\ IsInjective(p)
             /\ Range(p) = Range(q) \ {q[i]}
<1> DEFINE n == Len(q)
           h == i - 1
           t == i + 1
           a == SubSeq(q, 1, h)
           b == SubSeq(q, t, n)
<1>1. /\ n \in Nat /\ i \in Nat /\ h \in Nat
      /\ 1 \in 1 .. Len(q) + 1 /\ h \in 0 .. Len(q) /\ 1 <= h + 1
      /\ t \in 1 .. Len(q) + 1 /\ n \in 0 .. Len(q) /\ t <= n + 1
  BY ListFacts
<1> HIDE DEF n, h, t
<1>2. /\ a \in Seq(S) /\ Len(a) = h + 1 - 1 /\ IsInjective(a)
      /\ \A x : x \in Range(a) <=> \E j \in 1 .. h : x = q[j]
  BY <1>1, SubList
<1>3. /\ b \in Seq(S) /\ Len(b) = n + 1 - t /\ IsInjective(b)
      /\ \A x : x \in Range(b) <=> \E j \in t .. n : x = q[j]
  BY <1>1, SubList
<1>4. /\ \A j \in 1 .. n : q[j] \in Range(q)
      /\ \A x \in Range(q) : \E j \in 1 .. n : x = q[j]
      /\ \A j, k \in 1 .. n : q[j] = q[k] => j = k
  BY ListFacts, ListIsInjective DEF n
<1>5. /\ \A j \in 1 .. h : j \in 1 .. n /\ j # i
      /\ \A j \in t .. n : j \in 1 .. n /\ j # i
      /\ \A j \in 1 .. n : j = i \/ j \in 1 .. h \/ j \in t .. n
      /\ \A j \in 1 .. h, k \in t .. n : j # k
      /\ i \in 1 .. n
  BY <1>1 DEF n, h, t
<1> HIDE DEF a, b
<1>6. Range(a) \cap Range(b) = {}
  BY <1>2, <1>3, <1>4, <1>5
<1>7. Range(a) \cup Range(b) = Range(q) \ {q[i]}
  <2>1. \A x \in Range(q) \ {q[i]} : x \in Range(a) \/ x \in Range(b)
    BY <1>2, <1>3, <1>4, <1>5
  <2>2. \A x \in Range(a) \cup Range(b) : x \in Range(q) /\ x # q[i]
    BY <1>2, <1>3, <1>4, <1>5, SMTT(30)
  <2> QED
    BY <2>1, <2>2
<1>8. /\ a \o b \in Seq(S) /\ Len(a \o b) = Len(a) + Len(b)
      /\ Range(a \o b) = Range(a) \cup Range(b) /\ IsInjective(a \o b)
  <2>1. a \in Seq(S) /\ b \in Seq(S) /\ IsInjective(a) /\ IsInjective(b)
    BY <1>2, <1>3
  <2>2. Range(a) \cap Range(b) = {}
    BY <1>6
  <2> QED
    BY ONLY <2>1, <2>2, JoinLists
<1>9. Len(a) + Len(b) = n - 1
  BY <1>1, <1>2, <1>3 DEF h, t
<1>10. SubSeq(q, 1, i - 1) \o SubSeq(q, i + 1, Len(q)) = a \o b
  BY DEF a, b, h, t, n
<1> QED
  BY <1>7, <1>8, <1>9, <1>10 DEF n

(* The entries behind a removed one move up by one place.                  *)
LEMMA RemovedEntries ==
  ASSUME NEW S, NEW q \in Seq(S), NEW i \in 1 .. Len(q)
  PROVE  LET p == SubSeq(q, 1, i - 1) \o SubSeq(q, i + 1, Len(q))
         IN  /\ p \in Seq(S) /\ Len(p) = Len(q) - 1
             /\ \A j \in 1 .. Len(q) - 1 : p[j] = IF j < i THEN q[j] ELSE q[j + 1]
<1> DEFINE n == Len(q)
           h == i - 1
           t == i + 1
           a == SubSeq(q, 1, h)
           b == SubSeq(q, t, n)
<1>1. n \in Nat /\ i \in Nat /\ 1 <= i /\ i <= n
  BY ListFacts
<1>2. a \in Seq(S) /\ Len(a) = i - 1 /\ \A j \in 1 .. i - 1 : a[j] = q[j]
  <2>1. /\ h \in 0 .. Len(q) /\ 1 \in 1 .. Len(q) + 1 /\ 1 <= h + 1
        /\ h + 1 - 1 = i - 1 /\ \A j \in 1 .. i - 1 : 1 + j - 1 = j
    BY <1>1
  <2> HIDE DEF h
  <2> QED
    BY <2>1, SubList
<1>3. b \in Seq(S) /\ Len(b) = n - i /\ \A j \in 1 .. n - i : b[j] = q[i + j]
  <2>1. /\ n \in 0 .. Len(q) /\ t \in 1 .. Len(q) + 1 /\ t <= n + 1
        /\ n + 1 - t = n - i /\ \A j \in 1 .. n - i : t + j - 1 = i + j
    BY <1>1
  <2> HIDE DEF t, n
  <2> QED
    BY <2>1, SubList
<1> HIDE DEF a, b
<1>4. a \o b \in Seq(S) /\ Len(a \o b) = n - 1
  <2>1. a \o b \in Seq(S) /\ Len(a \o b) = Len(a) + Len(b)
    BY <1>2, <1>3, ConcatProperties
  <2> QED
    BY <1>1, <1>2, <1>3, <2>1
<1>5. \A j \in 1 .. n - 1 : (a \o b)[j] = IF j < i THEN q[j] ELSE q[j + 1]
  <2>1. SUFFICES ASSUME NEW j \in 1 .. n - 1
                 PROVE  (a \o b)[j] = IF j < i THEN q[j] ELSE q[j + 1]
    OBVIOUS
  <2>2. (a \o b)[j] = IF j <= Len(a) THEN a[j] ELSE b[j - Len(a)]
    <3>1. j \in 1 .. Len(a) + Len(b)
      BY <1>1, <1>2, <1>3, <2>1
    <3> QED
      BY <1>2, <1>3, <3>1, ConcatProperties
  <2>3. CASE j < i
    <3>1. j \in 1 .. i - 1 /\ j <= Len(a)
      BY <1>1, <1>2, <2>1, <2>3
    <3> QED
      BY <1>2, <2>2, <2>3, <3>1
  <2>4. CASE ~ (j < i)
    <3>1. j - (i - 1) \in 1 .. n - i /\ ~ (j <= Len(a)) /\ i + (j - (i - 1)) = j + 1
      BY <1>1, <1>2, <2>1, <2>4
    <3> QED
      BY <1>2, <1>3, <2>2, <2>4, <3>1
  <2> QED
    BY <2>3, <2>4
<1> QED
  BY <1>4, <1>5 DEF a, b, n, h, t

(* A list without repetitions is as long as the set of its elements.       *)
LEMMA InjectiveLength ==
  ASSUME NEW S, NEW q \in Seq(S), IsInjective(q)
  PROVE  IsFiniteSet(Range(q)) /\ Cardinality(Range(q)) = Len(q)
<1>1. Len(q) \in Nat /\ q \in [1 .. Len(q) -> Range(q)]
  <2>1. Len(q) \in Nat /\ DOMAIN q = 1 .. Len(q) /\ \A i \in 1 .. Len(q) : q[i] \in Range(q)
    BY ListFacts
  <2>2. q = [i \in 1 .. Len(q) |-> q[i]]
    BY ListFacts
  <2> QED
    BY <2>1, <2>2
<1>2. q \in Injection(1 .. Len(q), Range(q))
  BY <1>1 DEF Injection
<1>3. q \in Surjection(1 .. Len(q), Range(q))
  BY <1>1, ListFacts DEF Surjection
<1>4. ExistsBijection(1 .. Len(q), Range(q))
  BY <1>2, <1>3 DEF ExistsBijection, Bijection
<1> QED
  BY <1>1, <1>4, FS_CountingElements, FS_NatBijection

-----------------------------------------------------------------------------
(* Induction, over a set of numbers: the theorems of the library that take *)
(* a predicate cannot be cited, the one that gives a least element can.    *)

LEMMA NatSetInduction ==
  ASSUME NEW S, 0 \in S, \A n \in Nat : n \in S => n + 1 \in S
  PROVE  Nat \subseteq S
<1> DEFINE T == Nat \ S
           R == {p \in Nat \X Nat : p[1] < p[2]}
<1>1. SUFFICES ASSUME T # {} PROVE FALSE
  OBVIOUS
<1>2. IsWellFoundedOn(R, Nat)
  BY NatLessThanWellFounded, Zenon DEF OpToRel
<1> HIDE DEF R
<1>3. PICK x \in T : \A y \in T : ~ (<<y, x>> \in R)
  <2> HIDE DEF T
  <2>1. T \subseteq Nat
    BY DEF T
  <2> QED
    BY ONLY <1>1, <1>2, <2>1, WFMin
<1>4. x # 0 /\ x \in Nat
  OBVIOUS
<1>5. x - 1 \in T
  BY <1>3, <1>4
<1>6. <<x - 1, x>> \in R
  BY <1>3, <1>4, <1>5 DEF R
<1> QED
  BY <1>3, <1>5, <1>6

(* Up to a limit.                                                          *)
LEMMA IntervalInduction ==
  ASSUME NEW n \in Nat, NEW S, 0 \in S, \A i \in 1 .. n : i - 1 \in S => i \in S
  PROVE  0 .. n \subseteq S
<1> DEFINE U == {i \in Nat : i <= n => i \in S}
<1>1. 0 \in U
  OBVIOUS
<1>2. ASSUME NEW i \in Nat, i \in U PROVE i + 1 \in U
  <2>1. SUFFICES ASSUME i + 1 <= n PROVE i + 1 \in S
    OBVIOUS
  <2>2. i \in S /\ i + 1 \in 1 .. n /\ (i + 1) - 1 = i
    BY <1>2, <2>1
  <2> QED
    BY <2>2
<1> HIDE DEF U
<1>3. Nat \subseteq U
  BY <1>1, <1>2, NatSetInduction
<1> QED
  BY <1>3 DEF U

(* Sums: what a recursive function over the prefixes of a list computes.   *)
Sums(s, f) ==
  /\ f \in [0 .. Len(s) -> Nat] /\ f[0] = 0
  /\ \A i \in 1 .. Len(s) : f[i] = f[i - 1] + s[i]

LEMMA SumsExist ==
  ASSUME NEW s \in Seq(Nat)
  PROVE  \E f : Sums(s, f)
<1> DEFINE Upto(m, f) == /\ f \in [0 .. m -> Nat] /\ f[0] = 0
                         /\ \A i \in 1 .. m : f[i] = f[i - 1] + s[i]
           S == {m \in 0 .. Len(s) : \E f : Upto(m, f)}
<1>1. Len(s) \in Nat /\ \A i \in 1 .. Len(s) : s[i] \in Nat
  OBVIOUS
<1>2. 0 \in S
  <2> DEFINE f == [i \in 0 .. 0 |-> 0]
  <2>1. Upto(0, f)
    OBVIOUS
  <2> HIDE DEF f, Upto
  <2> QED
    BY <1>1, <2>1
<1>3. ASSUME NEW m \in 1 .. Len(s), m - 1 \in S PROVE m \in S
  <2>1. PICK f : Upto(m - 1, f)
    BY <1>3
  <2> DEFINE g == [i \in 0 .. m |-> IF i = m THEN f[m - 1] + s[m] ELSE f[i]]
  <2>2. Upto(m, g)
    <3>1. m \in Nat /\ m - 1 \in 0 .. m - 1 /\ f[m - 1] \in Nat /\ s[m] \in Nat
      BY <1>1, <2>1
    <3>2. g \in [0 .. m -> Nat]
      BY <2>1, <3>1
    <3>3. g[0] = 0
      BY <2>1, <3>1
    <3>4. ASSUME NEW i \in 1 .. m PROVE g[i] = g[i - 1] + s[i]
      <4>1. CASE i = m
        BY <3>1, <4>1
      <4>2. CASE i # m
        BY <2>1, <3>1, <4>2
      <4> QED
        BY <4>1, <4>2
    <3> QED
      BY <3>2, <3>3, <3>4
  <2> HIDE DEF g, Upto
  <2> QED
    BY <2>2
<1> HIDE DEF S
<1>4. 0 .. Len(s) \subseteq S
  BY <1>1, <1>2, <1>3, IntervalInduction
<1>5. PICK f : Upto(Len(s), f)
  <2>1. Len(s) \in S
    BY <1>1, <1>4
  <2> HIDE DEF Upto
  <2> QED
    BY <2>1 DEF S
<1> QED
  BY <1>5 DEF Sums

(* Two lists that begin alike have the same sums for as long.              *)
LEMMA SumsAgree ==
  ASSUME NEW s \in Seq(Nat), NEW t \in Seq(Nat), NEW m \in Nat, m <= Len(s), m <= Len(t),
         \A i \in 1 .. m : s[i] = t[i], NEW f, NEW g, Sums(s, f), Sums(t, g)
  PROVE  \A i \in 0 .. m : f[i] = g[i]
<1> DEFINE S == {i \in 0 .. m : f[i] = g[i]}
<1>1. 0 \in S
  BY DEF Sums
<1>2. ASSUME NEW i \in 1 .. m, i - 1 \in S PROVE i \in S
  BY <1>2 DEF Sums
<1> HIDE DEF S
<1>3. 0 .. m \subseteq S
  BY <1>1, <1>2, IntervalInduction
<1> QED
  BY <1>3 DEF S

LEMMA SumsGrowing ==
  ASSUME NEW s \in Seq(Nat), NEW f, Sums(s, f), NEW i \in 0 .. Len(s), NEW j \in i .. Len(s)
  PROVE  f[i] <= f[j]
<1> DEFINE S == {k \in 0 .. Len(s) : i <= k => f[i] <= f[k]}
<1>0. Len(s) \in Nat /\ \A k \in 1 .. Len(s) : s[k] \in Nat
  OBVIOUS
<1>1. 0 \in S
  BY <1>0 DEF Sums
<1>2. ASSUME NEW k \in 1 .. Len(s), k - 1 \in S PROVE k \in S
  <2>1. k \in 0 .. Len(s) /\ k - 1 \in 0 .. Len(s)
    BY <1>0
  <2>2. f[k] = f[k - 1] + s[k] /\ s[k] \in Nat /\ f[k] \in Nat /\ f[k - 1] \in Nat /\ f[i] \in Nat
    BY <1>0, <2>1 DEF Sums
  <2> DEFINE a == f[k - 1]
             b == f[k]
             c == f[i]
  <2>3. a <= b /\ a \in Nat /\ b \in Nat /\ c \in Nat
    BY <2>2
  <2>4. i <= k - 1 => c <= a
    BY <1>2
  <2> HIDE DEF a, b, c
  <2>5. i <= k - 1 => c <= b
    BY <2>3, <2>4
  <2>6. i <= k => i <= k - 1 \/ i = k
    BY <1>0, <2>1
  <2>7. i <= k => f[i] <= f[k]
    BY <2>3, <2>5, <2>6 DEF b, c
  <2> QED
    BY <2>1, <2>7
<1> HIDE DEF S
<1>3. 0 .. Len(s) \subseteq S
  BY <1>0, <1>1, <1>2, IntervalInduction
<1> QED
  BY <1>3 DEF S

(* The sums cut the numbers below the last of them into intervals.         *)
LEMMA SumsPartition ==
  ASSUME NEW s \in Seq(Nat), NEW f, Sums(s, f), NEW p \in 0 .. f[Len(s)] - 1
  PROVE  \E i \in 1 .. Len(s) :
           /\ p \in f[i - 1] .. f[i] - 1
           /\ \A j \in 1 .. Len(s) : p \in f[j - 1] .. f[j] - 1 => j = i
<1> DEFINE S == {k \in 0 .. Len(s) : p < f[k] => \E i \in 1 .. Len(s) : p \in f[i - 1] .. f[i] - 1}
<1>1. /\ Len(s) \in Nat /\ \A i \in 0 .. Len(s) : f[i] \in Nat
      /\ p \in Nat /\ p < f[Len(s)] /\ f[0] = 0
  <2>1. Len(s) \in Nat
    OBVIOUS
  <2>2. f[0] = 0 /\ \A i \in 0 .. Len(s) : f[i] \in Nat
    BY DEF Sums
  <2>3. Len(s) \in 0 .. Len(s)
    BY <2>1
  <2>4. f[Len(s)] \in Nat
    BY <2>2, <2>3
  <2> QED
    BY <2>1, <2>2, <2>4
<1>2. 0 \in S
  BY <1>1
<1>3. ASSUME NEW k \in 1 .. Len(s), k - 1 \in S PROVE k \in S
  BY <1>1, <1>3, SMTT(30)
<1> HIDE DEF S
<1>4. 0 .. Len(s) \subseteq S
  BY <1>1, <1>2, <1>3, IntervalInduction
<1>5. PICK i \in 1 .. Len(s) : p \in f[i - 1] .. f[i] - 1
  BY <1>1, <1>4 DEF S
<1>6. ASSUME NEW j \in 1 .. Len(s), p \in f[j - 1] .. f[j] - 1 PROVE j = i
  <2>1. CASE j < i
    <3>1. f[j] <= f[i - 1]
      <4>1. j \in 0 .. Len(s) /\ i - 1 \in j .. Len(s)
        BY <1>1, <2>1
      <4> QED
        BY <4>1, SumsGrowing
    <3>2. f[j] \in Nat /\ f[i - 1] \in Nat
      BY <1>1
    <3> QED
      BY <1>5, <1>6, <3>1, <3>2
  <2>2. CASE i < j
    <3>1. f[i] <= f[j - 1]
      <4>1. i \in 0 .. Len(s) /\ j - 1 \in i .. Len(s)
        BY <1>1, <2>2
      <4> QED
        BY <4>1, SumsGrowing
    <3>2. f[i] \in Nat /\ f[j - 1] \in Nat
      BY <1>1
    <3> QED
      BY <1>5, <1>6, <3>1, <3>2
  <2> QED
    BY <1>1, <2>1, <2>2
<1> QED
  BY <1>5, <1>6
=============================================================================
