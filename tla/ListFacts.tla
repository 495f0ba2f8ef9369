----------------------------- MODULE ListFacts -----------------------------
(***************************************************************************)
(* Lemmas about the lists of waiting threads: what putting a thread into a *)
(* list or taking it out does to the threads in the list and their order;  *)
(* about the numbers that are counted modulo a width; and about induction  *)
(* over numbers and the functions that are defined by it.                  *)
(***************************************************************************)
EXTENDS Integers, SequencesExt, TLAPS, SequenceTheorems, WellFoundedInduction

NoDup(s) == \A i, j \in 1 .. Len(s) : s[i] = s[j] => i = j

\* An element put into a list moves those behind it by one place.
LEMMA InsertElements ==
  ASSUME NEW S, NEW s \in Seq(S), NEW e \in S, NEW i \in 1 .. Len(s) + 1
  PROVE  /\ InsertAt(s, i, e) \in Seq(S)
         /\ Len(InsertAt(s, i, e)) = Len(s) + 1
         /\ \A k \in 1 .. Len(s) + 1 :
              InsertAt(s, i, e)[k] = IF k < i THEN s[k] ELSE IF k = i THEN e ELSE s[k - 1]
<1> DEFINE f == SubSeq(s, 1, i - 1)
           g == SubSeq(s, i, Len(s))
           r == InsertAt(s, i, e)
<1>1. /\ f \in Seq(S) /\ Len(f) = i - 1
      /\ \A k \in 1 .. i - 1 : f[k] = s[k]
  BY SMT
<1>2. /\ g \in Seq(S) /\ Len(g) = Len(s) - i + 1
      /\ \A k \in 1 .. Len(s) - i + 1 : g[k] = s[k + i - 1]
  BY SMT
<1>3. <<e>> \in Seq(S) /\ Len(<<e>>) = 1 /\ <<e>>[1] = e
  OBVIOUS
<1> HIDE DEF f, g
<1> DEFINE h == f \o <<e>>
<1>4. /\ h \in Seq(S) /\ Len(h) = i
      /\ \A k \in 1 .. i - 1 : h[k] = s[k]
      /\ h[i] = e
  BY <1>1, <1>3, SMT
<1> HIDE DEF h
<1>5. r = h \o g
  BY DEF InsertAt, f, g, h
<1> HIDE DEF r
<1>6. /\ r \in Seq(S) /\ Len(r) = Len(s) + 1
      /\ \A k \in 1 .. Len(s) + 1 :
           r[k] = IF k < i THEN s[k] ELSE IF k = i THEN e ELSE s[k - 1]
  <2>1. r \in Seq(S) /\ Len(r) = Len(h) + Len(g)
    BY <1>2, <1>4, <1>5, ConcatProperties
  <2>2. \A k \in 1 .. Len(h) + Len(g) : r[k] = IF k <= Len(h) THEN h[k] ELSE g[k - Len(h)]
    BY <1>2, <1>4, <1>5, ConcatProperties
  <2>3. ASSUME NEW k \in 1 .. Len(s) + 1
        PROVE  r[k] = IF k < i THEN s[k] ELSE IF k = i THEN e ELSE s[k - 1]
    <3>1. CASE k <= i
      BY <3>1, <2>2, <1>2, <1>4
    <3>2. CASE k > i
      <4>1. k - i \in 1 .. Len(s) - i + 1 /\ k - i + i - 1 = k - 1
        BY <3>2
      <4>2. r[k] = g[k - i]
        BY <3>2, <2>2, <1>2, <1>4
      <4>3. g[k - i] = s[k - 1]
        BY <4>1, <1>2
      <4> QED BY <3>2, <4>2, <4>3
    <3> QED BY <3>1, <3>2
  <2>4. Len(r) = Len(s) + 1
    BY <2>1, <1>2, <1>4
  <2> QED BY <2>1, <2>3, <2>4
<1> QED BY <1>6 DEF r

\* A thread put anywhere into a list is in it, once, beside those before.
LEMMA InsertFacts ==
  ASSUME NEW S, NEW s \in Seq(S), NEW e \in S, NEW i \in 1 .. Len(s) + 1
  PROVE  /\ InsertAt(s, i, e) \in Seq(S)
         /\ ToSet(InsertAt(s, i, e)) = ToSet(s) \cup {e}
         /\ NoDup(s) /\ e \notin ToSet(s) => NoDup(InsertAt(s, i, e))
<1> DEFINE r == InsertAt(s, i, e)
<1>1. /\ r \in Seq(S) /\ Len(r) = Len(s) + 1
      /\ \A k \in 1 .. Len(s) + 1 :
           r[k] = IF k < i THEN s[k] ELSE IF k = i THEN e ELSE s[k - 1]
  BY InsertElements
<1> HIDE DEF r
<1>2. ToSet(r) = ToSet(s) \cup {e}
  <2>1. \A x \in ToSet(r) : x \in ToSet(s) \cup {e}
    BY <1>1 DEF ToSet
  <2>2. \A k \in 1 .. Len(s) : s[k] \in ToSet(r)
    <3> TAKE k \in 1 .. Len(s)
    <3>1. CASE k < i
      BY <3>1, <1>1 DEF ToSet
    <3>2. CASE k >= i
      <4>1. k + 1 \in 1 .. Len(s) + 1 /\ ~(k + 1 < i) /\ k + 1 # i /\ k + 1 - 1 = k
        BY <3>2
      <4>2. r[k + 1] = s[k]
        BY <4>1, <1>1
      <4>3. k + 1 \in DOMAIN r
        BY <4>1, <1>1
      <4> QED BY <4>2, <4>3 DEF ToSet
    <3> QED BY <3>1, <3>2
  <2>3. e \in ToSet(r)
    BY <1>1 DEF ToSet
  <2> QED BY <2>1, <2>2, <2>3 DEF ToSet
<1>3. ASSUME NoDup(s), e \notin ToSet(s) PROVE NoDup(r)
  <2>1. \A k \in 1 .. Len(s) : s[k] # e
    BY <1>3 DEF ToSet
  <2>2. ASSUME NEW j \in 1 .. Len(s) + 1, NEW k \in 1 .. Len(s) + 1, r[j] = r[k]
        PROVE  j = k
    <3>1. /\ j < i => j \in 1 .. Len(s)
          /\ j > i => j - 1 \in 1 .. Len(s)
          /\ k < i => k \in 1 .. Len(s)
          /\ k > i => k - 1 \in 1 .. Len(s)
      OBVIOUS
    <3>2. /\ r[j] = IF j < i THEN s[j] ELSE IF j = i THEN e ELSE s[j - 1]
          /\ r[k] = IF k < i THEN s[k] ELSE IF k = i THEN e ELSE s[k - 1]
      BY <1>1
    <3>3. CASE j = i \/ k = i
      BY <3>3, <3>1, <3>2, <2>2, <2>1
    <3>4. CASE j < i /\ k < i
      BY <3>4, <3>1, <3>2, <2>2, <1>3 DEF NoDup
    <3>5. CASE j < i /\ k > i
      <4>1. j = k - 1
        BY <3>5, <3>1, <3>2, <2>2, <1>3 DEF NoDup
      <4> QED BY <4>1, <3>5
    <3>6. CASE j > i /\ k < i
      <4>1. j - 1 = k
        BY <3>6, <3>1, <3>2, <2>2, <1>3 DEF NoDup
      <4> QED BY <4>1, <3>6
    <3>7. CASE j > i /\ k > i
      <4>1. j - 1 = k - 1
        BY <3>7, <3>1, <3>2, <2>2, <1>3 DEF NoDup
      <4> QED BY <4>1
    <3> QED BY <3>3, <3>4, <3>5, <3>6, <3>7
  <2> QED BY <2>2, <1>1 DEF NoDup
<1> QED BY <1>1, <1>2, <1>3 DEF r

\* An element taken out of a list lets those behind it move up.
LEMMA RemoveElements ==
  ASSUME NEW S, NEW s \in Seq(S), NEW i \in 1 .. Len(s)
  PROVE  /\ RemoveAt(s, i) \in Seq(S)
         /\ Len(RemoveAt(s, i)) = Len(s) - 1
         /\ \A k \in 1 .. Len(s) - 1 :
              RemoveAt(s, i)[k] = IF k < i THEN s[k] ELSE s[k + 1]
<1> DEFINE f == SubSeq(s, 1, i - 1)
           g == SubSeq(s, i + 1, Len(s))
           r == RemoveAt(s, i)
<1>1. /\ f \in Seq(S) /\ Len(f) = i - 1
      /\ \A k \in 1 .. i - 1 : f[k] = s[k]
  BY SMT
<1>2. /\ g \in Seq(S) /\ Len(g) = Len(s) - i
      /\ \A k \in 1 .. Len(s) - i : g[k] = s[k + i]
  BY SMT
<1> HIDE DEF f, g
<1>3. r = f \o g
  BY DEF RemoveAt, f, g
<1> HIDE DEF r
<1>4. /\ r \in Seq(S) /\ Len(r) = Len(s) - 1
      /\ \A k \in 1 .. Len(s) - 1 : r[k] = IF k < i THEN s[k] ELSE s[k + 1]
  <2>1. r \in Seq(S) /\ Len(r) = Len(f) + Len(g)
    BY <1>1, <1>2, <1>3, ConcatProperties
  <2>2. \A k \in 1 .. Len(f) + Len(g) : r[k] = IF k <= Len(f) THEN f[k] ELSE g[k - Len(f)]
    BY <1>1, <1>2, <1>3, ConcatProperties
  <2>3. Len(r) = Len(s) - 1
    BY <2>1, <1>1, <1>2
  <2>4. ASSUME NEW k \in 1 .. Len(s) - 1
        PROVE  r[k] = IF k < i THEN s[k] ELSE s[k + 1]
    <3>0. /\ k \in 1 .. Len(f) + Len(g) /\ Len(f) = i - 1
          /\ k <= Len(f) <=> k < i
          /\ k < i => k \in 1 .. i - 1
      BY <1>1, <1>2
    <3>1. CASE k < i
      <4>1. r[k] = f[k]
        BY <3>1, <3>0, <2>2
      <4> QED BY <4>1, <3>1, <3>0, <1>1
    <3>2. CASE k >= i
      <4>1. k - (i - 1) \in 1 .. Len(s) - i /\ k - (i - 1) + i = k + 1
        BY <3>2
      <4>2. r[k] = g[k - (i - 1)]
        BY <3>2, <3>0, <2>2
      <4>3. g[k - (i - 1)] = s[k + 1]
        BY <4>1, <1>2
      <4> QED BY <3>2, <4>2, <4>3
    <3> QED BY <3>1, <3>2
  <2> QED BY <2>1, <2>3, <2>4
<1> QED BY <1>4 DEF r

\* A thread taken out of a list without duplicates is no longer in it.
LEMMA RemoveFacts ==
  ASSUME NEW S, NEW s \in Seq(S), NEW i \in 1 .. Len(s), NoDup(s)
  PROVE  /\ RemoveAt(s, i) \in Seq(S)
         /\ ToSet(RemoveAt(s, i)) = ToSet(s) \ {s[i]}
         /\ NoDup(RemoveAt(s, i))
<1> DEFINE r == RemoveAt(s, i)
<1>1. /\ r \in Seq(S) /\ Len(r) = Len(s) - 1
      /\ \A k \in 1 .. Len(s) - 1 : r[k] = IF k < i THEN s[k] ELSE s[k + 1]
  BY RemoveElements
<1> HIDE DEF r
<1>2. ToSet(r) = ToSet(s) \ {s[i]}
  <2>1. \A x \in ToSet(r) : x \in ToSet(s) \ {s[i]}
    BY <1>1 DEF ToSet, NoDup
  <2>2. ASSUME NEW k \in 1 .. Len(s), k # i PROVE s[k] \in ToSet(r)
    <3>1. CASE k < i
      BY <3>1, <1>1 DEF ToSet
    <3>2. CASE k > i
      <4>1. k - 1 \in 1 .. Len(s) - 1 /\ r[k - 1] = s[k]
        BY <3>2, <1>1
      <4> QED BY <4>1, <1>1 DEF ToSet
    <3> QED BY <2>2, <3>1, <3>2
  <2> QED BY <2>1, <2>2 DEF ToSet
<1>3. NoDup(r)
  BY <1>1 DEF NoDup
<1> QED BY <1>1, <1>2, <1>3 DEF r

\* The same for the first thread of a list.
LEMMA TailFacts ==
  ASSUME NEW S, NEW s \in Seq(S), s # <<>>, NoDup(s)
  PROVE  /\ Head(s) \in ToSet(s)
         /\ Tail(s) \in Seq(S)
         /\ ToSet(Tail(s)) = ToSet(s) \ {Head(s)}
         /\ NoDup(Tail(s))
<1> DEFINE r == Tail(s)
<1>1. Len(s) \in Nat \ {0} /\ Head(s) = s[1]
  OBVIOUS
<1>2. /\ r \in Seq(S) /\ Len(r) = Len(s) - 1
      /\ \A k \in 1 .. Len(s) - 1 : r[k] = s[k + 1]
  BY HeadTailProperties
<1> HIDE DEF r
<1>3. ToSet(r) = ToSet(s) \ {s[1]}
  <2>1. \A x \in ToSet(r) : x \in ToSet(s) \ {s[1]}
    BY <1>1, <1>2 DEF ToSet, NoDup
  <2>2. ASSUME NEW k \in 1 .. Len(s), k # 1 PROVE s[k] \in ToSet(r)
    <3>1. k - 1 \in 1 .. Len(s) - 1 /\ r[k - 1] = s[k]
      BY <2>2, <1>2
    <3> QED BY <3>1, <1>2 DEF ToSet
  <2>3. \A x \in ToSet(s) : x = s[1] \/ x \in ToSet(r)
    BY <2>2 DEF ToSet
  <2> QED BY <2>1, <2>3
<1>4. NoDup(r)
  BY <1>1, <1>2 DEF NoDup
<1>5. s[1] \in ToSet(s)
  BY <1>1 DEF ToSet
<1> QED BY <1>1, <1>2, <1>3, <1>4, <1>5 DEF r

-----------------------------------------------------------------------------
(* Counting modulo a width.                                                *)

LEMMA DivFacts ==
  ASSUME NEW w \in Nat \ {0}, NEW x \in Int
  PROVE  x % w \in 0 .. w - 1 /\ x \div w \in Int /\ x = w * (x \div w) + (x % w)
OBVIOUS

LEMMA RemainderUnique ==
  ASSUME NEW w \in Nat \ {0}, NEW q \in Int, NEW r \in 0 .. w - 1
  PROVE  (w * q + r) % w = r
<1> DEFINE x == w * q + r
<1>1. x \in Int
  OBVIOUS
<1>2. x % w \in 0 .. w - 1 /\ x \div w \in Int /\ x = w * (x \div w) + (x % w)
  BY <1>1, DivFacts
<1>3. \A p, s \in Int : w * p + s = w * q + r /\ s \in 0 .. w - 1 => s = r
  <2> TAKE p, s \in Int
  <2> HAVE w * p + s = w * q + r /\ s \in 0 .. w - 1
  <2>1. w * (p - q) = r - s
    OBVIOUS
  <2>2. p - q >= 1 => w * (p - q) >= w
    OBVIOUS
  <2>3. p - q <= -1 => w * (p - q) <= -w
    OBVIOUS
  <2>4. ~(p - q >= 1) /\ ~(p - q <= -1)
    BY <2>1, <2>2, <2>3
  <2>5. p = q
    BY <2>4
  <2> QED BY <2>1, <2>5
<1> QED BY <1>2, <1>3

\* A sum may be cut to its width before or after.
LEMMA CutEarly ==
  ASSUME NEW w \in Nat \ {0}, NEW x \in Int, NEW n \in Int
  PROVE  ((x % w) + n) % w = (x + n) % w
<1> DEFINE r == x % w
           y == r + n
           d == x \div w
           e == y \div w
<1>1. r \in 0 .. w - 1 /\ d \in Int /\ x = w * d + r
  BY DivFacts
<1>2. y \in Int
  BY <1>1
<1>3. y % w \in 0 .. w - 1 /\ e \in Int /\ y = w * e + (y % w)
  BY <1>2, DivFacts
<1> HIDE DEF r, d, e
<1>4. x + n = w * (d + e) + (y % w)
  <2>1. w * (d + e) = w * d + w * e /\ w * d \in Int /\ w * e \in Int
    BY <1>1, <1>3
  <2> QED BY <1>1, <1>3, <2>1
<1>5. (w * (d + e) + (y % w)) % w = y % w
  <2> DEFINE q == d + e
             s == y % w
  <2>1. q \in Int /\ s \in 0 .. w - 1
    BY <1>1, <1>3
  <2> HIDE DEF q, s
  <2>2. (w * q + s) % w = s
    BY <2>1, RemainderUnique
  <2> QED BY <2>2 DEF q, s
<1> QED BY <1>4, <1>5 DEF r

LEMMA AddWidth ==
  ASSUME NEW w \in Nat \ {0}, NEW x \in Int
  PROVE  (x + w) % w = x % w
<1> DEFINE r == x % w
           d == x \div w
<1>1. r \in 0 .. w - 1 /\ d \in Int /\ x = w * d + r
  BY DivFacts
<1> HIDE DEF r, d
<1>2. x + w = w * (d + 1) + r
  BY <1>1
<1>3. (w * (d + 1) + r) % w = r
  <2> DEFINE q == d + 1
  <2>1. q \in Int
    BY <1>1
  <2> HIDE DEF q
  <2>2. (w * q + r) % w = r
    BY <1>1, <2>1, RemainderUnique
  <2> QED BY <2>2 DEF q
<1> QED BY <1>2, <1>3 DEF r

\* Numbers within a width of the range of the remainders.
LEMMA NearRemainder ==
  ASSUME NEW w \in Nat \ {0}, NEW x \in Int, -w <= x, x < 2 * w
  PROVE  x % w = IF x < 0 THEN x + w ELSE IF x < w THEN x ELSE x - w
<1>1. CASE x < 0
  <2> DEFINE r == x + w
  <2>1. r \in 0 .. w - 1 /\ x = w * (-1) + r
    BY <1>1
  <2> HIDE DEF r
  <2>2. (w * (-1) + r) % w = r
    BY <2>1, RemainderUnique
  <2> QED BY <1>1, <2>1, <2>2 DEF r
<1>2. CASE 0 <= x /\ x < w
  <2>1. x \in 0 .. w - 1 /\ x = w * 0 + x
    BY <1>2
  <2>2. (w * 0 + x) % w = x
    BY <2>1, RemainderUnique
  <2> QED BY <1>2, <2>1, <2>2
<1>3. CASE x >= w
  <2> DEFINE r == x - w
  <2>1. r \in 0 .. w - 1 /\ x = w * 1 + r
    BY <1>3
  <2> HIDE DEF r
  <2>2. (w * 1 + r) % w = r
    BY <2>1, RemainderUnique
  <2> QED BY <1>3, <2>1, <2>2 DEF r
<1> QED BY <1>1, <1>2, <1>3
-----------------------------------------------------------------------------
(* Induction.  A property is the set of the numbers that have it, and a      *)
(* recursive definition a function for each of its steps.                    *)

LEMMA Least ==
  ASSUME NEW S \in SUBSET Nat, S # {}
  PROVE  \E p \in S : \A q \in S : p <= q
<1> DEFINE R == OpToRel(<, Nat)
<1>1. \E x \in S : \A y \in S : ~(<<y, x>> \in R)
  BY NatLessThanWellFounded, WFMin
<1>2. ASSUME NEW x \in Nat, NEW y \in Nat, x < y PROVE <<x, y>> \in R
  BY <1>2 DEF OpToRel
<1> HIDE DEF R
<1>3. PICK x \in S : \A y \in S : ~(<<y, x>> \in R)
  BY <1>1
<1>4. ASSUME NEW y \in S PROVE x <= y
  <2>1. ~(y < x)
    BY <1>2, <1>3
  <2> QED BY <2>1
<1> QED BY <1>4

LEMMA Induct ==
  ASSUME NEW S, 0 \in S, \A n \in Nat : n \in S => n + 1 \in S
  PROVE  Nat \subseteq S
<1>1. SUFFICES ASSUME Nat \ S # {} PROVE FALSE
  OBVIOUS
<1>2. PICK p \in Nat \ S : \A q \in Nat \ S : p <= q
  BY <1>1, Least
<1>3. p # 0 /\ p - 1 \in Nat /\ ~(p <= p - 1)
  BY <1>2
<1>4. p - 1 \in S
  BY <1>2, <1>3
<1>5. (p - 1) + 1 \in S /\ (p - 1) + 1 = p
  BY <1>2, <1>3, <1>4
<1> QED BY <1>5

\* The values of a recursive function are what its steps make of its first one.
Unrolls(f, s, n, step) ==
  f[0] = s /\ \A k \in 1 .. n : f[k] = step[k][f[k - 1]]

LEMMA Recursion ==
  ASSUME NEW D, NEW s \in D, NEW n \in Nat, NEW step \in [1 .. n -> [D -> D]]
  PROVE  \E f \in [0 .. n -> D] : Unrolls(f, s, n, step)
<1> DEFINE S == {m \in Nat : m <= n => \E f \in [0 .. m -> D] : Unrolls(f, s, m, step)}
<1>1. 0 \in S
  <2> DEFINE f == [k \in 0 .. 0 |-> s]
  <2>1. f \in [0 .. 0 -> D] /\ f[0] = s /\ \A k \in 1 .. 0 : FALSE
    OBVIOUS
  <2> HIDE DEF f
  <2>2. Unrolls(f, s, 0, step)
    BY <2>1 DEF Unrolls
  <2> QED BY <2>1, <2>2
<1>2. ASSUME NEW m \in Nat, m \in S, m + 1 <= n
      PROVE  \E f \in [0 .. m + 1 -> D] : Unrolls(f, s, m + 1, step)
  <2>1. PICK f \in [0 .. m -> D] : Unrolls(f, s, m, step)
    BY <1>2
  <2> DEFINE g == [k \in 0 .. m + 1 |-> IF k = m + 1 THEN step[m + 1][f[m]] ELSE f[k]]
  <2>2. step[m + 1] \in [D -> D] /\ f[m] \in D
    BY <1>2
  <2>3. g \in [0 .. m + 1 -> D]
    BY <2>2
  <2>4. \A k \in 0 .. m : g[k] = f[k]
    OBVIOUS
  <2>5. g[m + 1] = step[m + 1][f[m]]
    OBVIOUS
  <2> HIDE DEF g
  <2>6. g[0] = s
    BY <2>1, <2>4 DEF Unrolls
  <2>7. ASSUME NEW k \in 1 .. m + 1 PROVE g[k] = step[k][g[k - 1]]
    <3>1. CASE k = m + 1
      BY <2>4, <2>5, <3>1
    <3>2. CASE k # m + 1
      <4>1. k \in 1 .. m /\ k \in 0 .. m /\ k - 1 \in 0 .. m
        BY <3>2
      <4> QED BY <2>1, <2>4, <4>1 DEF Unrolls
    <3> QED BY <3>1, <3>2
  <2>8. Unrolls(g, s, m + 1, step)
    BY <2>6, <2>7 DEF Unrolls
  <2> QED BY <2>3, <2>8
<1>3. \A m \in Nat : m \in S => m + 1 \in S
  BY <1>2
<1> HIDE DEF S
<1>4. n \in S
  BY <1>1, <1>3, Induct
<1> QED BY <1>4 DEF S

=============================================================================
