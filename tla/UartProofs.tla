----------------------------- MODULE UartProofs -----------------------------
(***************************************************************************)
(* Theorems about Uart, for every size of the rings and of the buffer of a *)
(* line, and for every number of bytes that come.                          *)
(***************************************************************************)
EXTENDS Uart, ListFacts

-----------------------------------------------------------------------------
(* Rings of w places.                                                      *)

\* Where the i-th entry from place g on is; the first n of them; and how many
\* there are up to place p.
RingType(w, S) == [0 .. w - 1 -> S]
Place(g, i, w) == (g + i - 1) % w
Content(buf, g, n, w) == [i \in 1 .. n |-> buf[Place(g, i, w)]]
Distance(g, p, w) == (p - g + w) % w

LEMMA RingIndex ==
  ASSUME NEW w \in Nat \ {0}, NEW g \in 0 .. w - 1, NEW k \in 0 .. w
  PROVE  /\ (g + k) % w \in 0 .. w - 1
         /\ (g + k) % w = IF g + k < w THEN g + k ELSE g + k - w
<1> DEFINE x == g + k
<1>1. x \in Int /\ -w <= x /\ x < 2 * w /\ ~(x < 0)
  OBVIOUS
<1>2. x % w = IF x < w THEN x ELSE x - w
  <2> HIDE DEF x
  <2> QED BY <1>1, NearRemainder
<1> QED BY <1>1, <1>2

LEMMA DistanceFacts ==
  ASSUME NEW w \in Nat \ {0}, NEW g \in 0 .. w - 1, NEW p \in 0 .. w - 1
  PROVE  /\ Distance(g, p, w) \in 0 .. w - 1
         /\ Distance(g, p, w) = IF p >= g THEN p - g ELSE p - g + w
         /\ (g + Distance(g, p, w)) % w = p
<1> DEFINE d == Distance(g, p, w)
           x == p - g + w
<1>1. x \in Int /\ -w <= x /\ x < 2 * w /\ ~(x < 0)
  OBVIOUS
<1>2. x % w = IF x < w THEN x ELSE x - w
  <2> HIDE DEF x
  <2> QED BY <1>1, NearRemainder
<1>3. d = IF p >= g THEN p - g ELSE p - g + w
  BY <1>2 DEF Distance
<1> HIDE DEF d, x
<1>4. d \in 0 .. w - 1 /\ d \in 0 .. w
  BY <1>3
<1>5. (g + d) % w = IF g + d < w THEN g + d ELSE g + d - w
  BY <1>4, RingIndex
<1> QED BY <1>3, <1>4, <1>5 DEF d

\* Where the next entry goes, and how it counts.
LEMMA DistanceGrows ==
  ASSUME NEW w \in Nat \ {0}, NEW g \in 0 .. w - 1, NEW p \in 0 .. w - 1
  PROVE  /\ (p + 1) % w \in 0 .. w - 1
         /\ (p + 1) % w # g => Distance(g, (p + 1) % w, w) = Distance(g, p, w) + 1
         /\ (p + 1) % w = g <=> Distance(g, p, w) = w - 1
<1> DEFINE q == (p + 1) % w
<1>1. q \in 0 .. w - 1 /\ q = IF p + 1 < w THEN p + 1 ELSE p + 1 - w
  <2>1. 1 \in 0 .. w
    OBVIOUS
  <2> QED BY <2>1, RingIndex
<1> HIDE DEF q
<1>2. Distance(g, p, w) = IF p >= g THEN p - g ELSE p - g + w
  BY DistanceFacts
<1>3. Distance(g, q, w) = IF q >= g THEN q - g ELSE q - g + w
  BY <1>1, DistanceFacts
<1> QED BY <1>1, <1>2, <1>3 DEF q

LEMMA DistanceShrinks ==
  ASSUME NEW w \in Nat \ {0}, NEW g \in 0 .. w - 1, NEW p \in 0 .. w - 1,
         NEW k \in 0 .. Distance(g, p, w)
  PROVE  /\ (g + k) % w \in 0 .. w - 1
         /\ Distance((g + k) % w, p, w) = Distance(g, p, w) - k
<1> DEFINE h == (g + k) % w
<1>1. /\ Distance(g, p, w) \in 0 .. w - 1
      /\ Distance(g, p, w) = IF p >= g THEN p - g ELSE p - g + w
  BY DistanceFacts
<1>2. k \in 0 .. w
  BY <1>1
<1>3. h \in 0 .. w - 1 /\ h = IF g + k < w THEN g + k ELSE g + k - w
  BY <1>2, RingIndex
<1> HIDE DEF h
<1>4. Distance(h, p, w) = IF p >= h THEN p - h ELSE p - h + w
  BY <1>3, DistanceFacts
<1> QED BY <1>1, <1>3, <1>4 DEF h

LEMMA PlaceFacts ==
  ASSUME NEW w \in Nat \ {0}, NEW g \in 0 .. w - 1, NEW i \in 1 .. w + 1
  PROVE  /\ Place(g, i, w) \in 0 .. w - 1
         /\ Place(g, i, w) = IF g + i - 1 < w THEN g + i - 1 ELSE g + i - 1 - w
<1> DEFINE k == i - 1
<1>1. k \in 0 .. w /\ g + i - 1 = g + k
  OBVIOUS
<1> HIDE DEF k
<1>2. (g + k) % w \in 0 .. w - 1 /\ (g + k) % w = IF g + k < w THEN g + k ELSE g + k - w
  BY <1>1, RingIndex
<1> QED BY <1>1, <1>2 DEF Place

LEMMA ContentFacts ==
  ASSUME NEW w \in Nat \ {0}, NEW g \in 0 .. w - 1, NEW n \in 0 .. w, NEW S,
         NEW buf \in RingType(w, S)
  PROVE  /\ Content(buf, g, n, w) \in Seq(S)
         /\ Len(Content(buf, g, n, w)) = n
         /\ \A i \in 1 .. n : Content(buf, g, n, w)[i] = buf[Place(g, i, w)]
<1> DEFINE c == Content(buf, g, n, w)
<1>1. \A i \in 1 .. n : Place(g, i, w) \in 0 .. w - 1
  BY PlaceFacts
<1>2. \A i \in 1 .. n : c[i] = buf[Place(g, i, w)] /\ c[i] \in S
  BY <1>1 DEF Content, RingType
<1>3. c = [i \in 1 .. n |-> c[i]]
  BY DEF Content
<1> HIDE DEF c
<1>4. c \in Seq(S) /\ Len(c) = n
  BY <1>2, <1>3
<1> QED BY <1>2, <1>4 DEF c

\* Putting an entry behind the last one.
LEMMA ContentPut ==
  ASSUME NEW w \in Nat \ {0}, NEW g \in 0 .. w - 1, NEW n \in 0 .. w - 1, NEW S,
         NEW buf \in RingType(w, S), NEW e \in S, NEW p, p = (g + n) % w,
         NEW new \in RingType(w, S), new[p] = e,
         \A q \in 0 .. w - 1 : q # p => new[q] = buf[q]
  PROVE  Content(new, g, n + 1, w) = Append(Content(buf, g, n, w), e)
<1> DEFINE c   == Content(buf, g, n, w)
           m   == n + 1
           d   == Content(new, g, m, w)
           a   == Append(c, e)
<1>1. /\ p \in 0 .. w - 1 /\ p = IF g + n < w THEN g + n ELSE g + n - w
  <2>1. n \in 0 .. w
    OBVIOUS
  <2> QED BY <2>1, RingIndex
<1>2. new[p] = e /\ \A q \in 0 .. w - 1 : q # p => new[q] = buf[q]
  OBVIOUS
<1>3. /\ c \in Seq(S) /\ Len(c) = n
      /\ \A i \in 1 .. n : c[i] = buf[Place(g, i, w)]
  <2>1. n \in 0 .. w
    OBVIOUS
  <2> QED BY <2>1, ContentFacts
<1>4. /\ d \in Seq(S) /\ Len(d) = m
      /\ \A i \in 1 .. m : d[i] = new[Place(g, i, w)]
  <2>1. m \in 0 .. w
    OBVIOUS
  <2> HIDE DEF m
  <2> QED BY <2>1, ContentFacts
<1> HIDE DEF c, d
<1>5. /\ a \in Seq(S) /\ Len(a) = m /\ a[m] = e
      /\ \A i \in 1 .. n : a[i] = c[i]
  BY <1>3, AppendProperties
<1> HIDE DEF a
<1>6. ASSUME NEW i \in 1 .. m PROVE d[i] = a[i]
  <2>1. /\ Place(g, i, w) \in 0 .. w - 1
        /\ Place(g, i, w) = IF g + i - 1 < w THEN g + i - 1 ELSE g + i - 1 - w
    <3>1. i \in 1 .. w + 1
      OBVIOUS
    <3> QED BY <3>1, PlaceFacts
  <2>2. CASE i = m
    BY <1>1, <1>2, <1>4, <1>5, <2>1, <2>2
  <2>3. CASE i # m
    <3>1. i \in 1 .. n /\ Place(g, i, w) # p
      BY <1>1, <2>1, <2>3
    <3> QED BY <1>2, <1>3, <1>4, <1>5, <2>1, <3>1
  <2> QED BY <2>2, <2>3
<1>7. d = a
  BY <1>4, <1>5, <1>6, SeqEqual
<1> QED BY <1>7 DEF c, d, a

\* Taking the first entries away.
LEMMA ContentTake ==
  ASSUME NEW w \in Nat \ {0}, NEW g \in 0 .. w - 1, NEW n \in 0 .. w, NEW S,
         NEW buf \in RingType(w, S), NEW k \in 0 .. n
  PROVE  Content(buf, (g + k) % w, n - k, w) = SubSeq(Content(buf, g, n, w), k + 1, n)
<1> DEFINE h == (g + k) % w
           c == Content(buf, g, n, w)
           m == n - k
           d == Content(buf, h, m, w)
           s == SubSeq(c, k + 1, n)
<1>1. h \in 0 .. w - 1 /\ h = IF g + k < w THEN g + k ELSE g + k - w
  <2>1. k \in 0 .. w
    OBVIOUS
  <2> QED BY <2>1, RingIndex
<1> HIDE DEF h
<1>2. /\ c \in Seq(S) /\ Len(c) = n
      /\ \A i \in 1 .. n : c[i] = buf[Place(g, i, w)]
  <2>1. n \in 0 .. w
    OBVIOUS
  <2> QED BY <2>1, ContentFacts
<1>3. /\ d \in Seq(S) /\ Len(d) = m
      /\ \A i \in 1 .. m : d[i] = buf[Place(h, i, w)]
  <2>1. m \in 0 .. w
    OBVIOUS
  <2>2. h \in 0 .. w - 1
    BY <1>1
  <2> HIDE DEF m
  <2> QED BY <2>1, <2>2, ContentFacts
<1> HIDE DEF c, d
<1>4. /\ s \in Seq(S) /\ Len(s) = m
      /\ \A i \in 1 .. m : s[i] = c[k + i]
  <2>1. k + 1 \in Int /\ n \in Int /\ \A i \in k + 1 .. n : c[i] \in S
    BY <1>2
  <2>2. /\ s \in Seq(S) /\ Len(s) = (IF k + 1 <= n THEN n - (k + 1) + 1 ELSE 0)
        /\ \A i \in 1 .. n - (k + 1) + 1 : s[i] = c[k + 1 + i - 1]
    BY <2>1, SubSeqProperties
  <2> HIDE DEF s
  <2>3. ASSUME NEW i \in 1 .. m PROVE s[i] = c[k + i]
    <3>1. i \in 1 .. n - (k + 1) + 1 /\ k + 1 + i - 1 = k + i
      OBVIOUS
    <3> QED BY <2>2, <3>1
  <2> QED BY <2>2, <2>3
<1> HIDE DEF s
<1>5. ASSUME NEW i \in 1 .. m PROVE d[i] = s[i]
  <2> DEFINE j == k + i
  <2>1. i \in 1 .. w + 1 /\ j \in 1 .. n /\ j \in 1 .. w + 1
    OBVIOUS
  <2>2. Place(h, i, w) = IF h + i - 1 < w THEN h + i - 1 ELSE h + i - 1 - w
    BY <1>1, <2>1, PlaceFacts
  <2> HIDE DEF j
  <2>3. Place(g, j, w) = IF g + j - 1 < w THEN g + j - 1 ELSE g + j - 1 - w
    BY <2>1, PlaceFacts
  <2>4. Place(h, i, w) = Place(g, j, w)
    BY <1>1, <2>1, <2>2, <2>3 DEF j
  <2>5. d[i] = buf[Place(h, i, w)] /\ s[i] = c[j] /\ c[j] = buf[Place(g, j, w)]
    BY <1>2, <1>3, <1>4, <2>1 DEF j
  <2> QED BY <2>4, <2>5
<1>6. d = s
  BY <1>3, <1>4, <1>5, SeqEqual
<1> QED BY <1>6 DEF c, d, s, h

LEMMA WiderSeq ==
  ASSUME NEW S, NEW T, S \subseteq T, NEW s \in Seq(S)
  PROVE  s \in Seq(T)
<1>1. s = [i \in 1 .. Len(s) |-> s[i]] /\ Len(s) \in Nat /\ \A i \in 1 .. Len(s) : s[i] \in T
  OBVIOUS
<1> QED BY <1>1

-----------------------------------------------------------------------------
(* The console.                                                            *)

\* The receiver holds the byte that came last; what is unread are bytes that
\* came; a ring that is full is not empty.
ConsoleInv ==
  /\ ConsoleTypeOK
  /\ rdr # 0 => rdr = came
  /\ Unread \in Seq(1 .. came)
  /\ is_full => get_index # put_index

LEMMA ConsoleFacts ==
  ASSUME ConsoleInv
  PROVE  /\ BufSize \in Nat \ {0} /\ BufSize > 1 /\ MaxBytes \in Nat /\ SemWidth \in Nat \ {0}
         /\ put_index \in 0 .. BufSize - 1 /\ get_index \in 0 .. BufSize - 1
         /\ buffer \in RingType(BufSize, 0 .. MaxBytes)
         /\ RxLength = Distance(get_index, put_index, BufSize)
         /\ RxLength \in 0 .. BufSize - 1 /\ RxLength \in 0 .. BufSize
         /\ Unread = Content(buffer, get_index, RxLength, BufSize)
         /\ Len(Unread) = RxLength
         /\ came \in Nat /\ rdr \in Nat /\ rdr <= came
<1>1. BufSize \in Nat \ {0} /\ BufSize > 1 /\ MaxBytes \in Nat /\ SemWidth \in Nat \ {0}
  BY ConsoleAssumption
<1>2. put_index \in 0 .. BufSize - 1 /\ get_index \in 0 .. BufSize - 1
  BY DEF ConsoleInv, ConsoleTypeOK, Slot
<1>3. buffer \in RingType(BufSize, 0 .. MaxBytes)
  BY DEF ConsoleInv, ConsoleTypeOK, Slot, RingType
<1>4. /\ Distance(get_index, put_index, BufSize) \in 0 .. BufSize - 1
      /\ Distance(get_index, put_index, BufSize) =
           IF put_index >= get_index THEN put_index - get_index
                                     ELSE put_index - get_index + BufSize
  BY <1>1, <1>2, DistanceFacts
<1>5. RxLength = Distance(get_index, put_index, BufSize)
  BY <1>1, <1>2, <1>4 DEF RxLength
<1>6. RxLength \in 0 .. BufSize - 1 /\ RxLength \in 0 .. BufSize
  BY <1>1, <1>4, <1>5
<1>7. Unread = Content(buffer, get_index, RxLength, BufSize)
  BY DEF Unread, Content, Place
<1>8. Len(Unread) = RxLength
  BY <1>1, <1>2, <1>3, <1>6, <1>7, ContentFacts
<1>9. came \in Nat /\ rdr \in Nat /\ rdr <= came
  BY <1>1 DEF ConsoleInv, ConsoleTypeOK
<1> QED BY <1>1, <1>2, <1>3, <1>5, <1>6, <1>7, <1>8, <1>9

\* A byte is stored: behind the unread ones, the oldest of which is given up when
\* there is no room.
LEMMA StoreEffect ==
  ASSUME ConsoleInv, IsrStore
  PROVE  /\ ConsoleInv'
         /\ \/ Len(Unread) # BufSize - 1 /\ Unread' = Append(Unread, rdr)
            \/ Len(Unread) = BufSize - 1 /\ Unread' = Append(Tail(Unread), rdr)
<1> DEFINE w == BufSize
           g == get_index
           n == RxLength
           q == After(put_index)
           S == 0 .. MaxBytes
           U == Unread
<1>1. /\ isr /\ rdr # 0 /\ rdr' = 0
      /\ buffer' = [buffer EXCEPT ![put_index] = rdr] /\ put_index' = q
      /\ UNCHANGED <<came, isr, rx_sem, shell, typed>>
      /\ \/ q = g /\ get_index' = After(g) /\ is_full' = TRUE
         \/ q # g /\ get_index' = g /\ is_full' = is_full
  BY DEF IsrStore, StoreByte
<1>2. /\ w \in Nat \ {0} /\ w > 1 /\ MaxBytes \in Nat
      /\ put_index \in 0 .. w - 1 /\ g \in 0 .. w - 1
      /\ buffer \in RingType(w, S)
      /\ n = Distance(g, put_index, w) /\ n \in 0 .. w - 1
      /\ U = Content(buffer, g, n, w) /\ Len(U) = n
      /\ came \in Nat /\ rdr \in Nat /\ rdr <= came
  BY ConsoleFacts
<1>3. rdr = came /\ rdr \in 1 .. came /\ rdr \in S /\ came \in 0 .. MaxBytes /\ U \in Seq(1 .. came)
  BY <1>1, <1>2 DEF ConsoleInv, ConsoleTypeOK
<1> HIDE DEF g, n, q, w, S
<1>4. /\ q \in 0 .. w - 1
      /\ q # g => Distance(g, q, w) = n + 1
      /\ q = g <=> n = w - 1
  <2>1. q = (put_index + 1) % w
    BY DEF q, w, After
  <2>2. /\ (put_index + 1) % w \in 0 .. w - 1
        /\ (put_index + 1) % w # g => Distance(g, (put_index + 1) % w, w) = Distance(g, put_index, w) + 1
        /\ (put_index + 1) % w = g <=> Distance(g, put_index, w) = w - 1
    BY <1>2, DistanceGrows
  <2> QED BY <1>2, <2>1, <2>2
<1>5. Content(buffer', g, n + 1, w) = Append(U, rdr)
  <2>1. put_index = (g + n) % w
    BY <1>2, DistanceFacts
  <2>2. Content(buffer', g, n + 1, w) = Append(Content(buffer, g, n, w), rdr)
    <3>1. w \in Nat \ {0} /\ g \in 0 .. w - 1 /\ n \in 0 .. w - 1
      BY <1>2
    <3>2. buffer \in RingType(w, S) /\ rdr \in S
      BY <1>2, <1>3
    <3>3. PICK new : new = buffer'
      OBVIOUS
    <3>4. new = [buffer EXCEPT ![put_index] = rdr]
      BY <1>1, <3>3
    <3>5. PICK p : p = (g + n) % w
      OBVIOUS
    <3>6. /\ new \in RingType(w, S) /\ new[p] = rdr
          /\ \A r \in 0 .. w - 1 : r # p => new[r] = buffer[r]
      BY <1>2, <2>1, <3>2, <3>4, <3>5 DEF RingType
    <3>7. w \in Nat \ {0}
      BY <3>1
    <3>8. g \in 0 .. w - 1
      BY <3>1
    <3>9. n \in 0 .. w - 1
      BY <3>1
    <3>10. buffer \in RingType(w, S)
      BY <3>2
    <3>11. rdr \in S
      BY <3>2
    <3>12. Content(new, g, n + 1, w) = Append(Content(buffer, g, n, w), rdr)
      BY <3>5, <3>6, <3>7, <3>8, <3>9, <3>10, <3>11, ContentPut
    <3> QED BY <3>3, <3>12
  <2> QED BY <1>1, <1>2, <2>2
<1>6. buffer' \in RingType(w, S)
  BY <1>1, <1>2, <1>3 DEF RingType
<1>7. Unread' = Content(buffer', get_index', RxLength', w)
  BY DEF Unread, Content, Place, w
<1>8. ASSUME get_index' \in 0 .. w - 1
      PROVE  RxLength' = Distance(get_index', q, w)
  <2>1. Distance(get_index', q, w) = IF q >= get_index' THEN q - get_index' ELSE q - get_index' + w
    BY <1>2, <1>4, <1>8, DistanceFacts
  <2>2. RxLength' = IF q >= get_index' THEN q - get_index' ELSE w - (get_index' - q)
    BY <1>1 DEF RxLength, w
  <2> QED BY <1>2, <1>4, <1>8, <2>1, <2>2
<1>9. CASE q # g
  <2>1. get_index' = g /\ RxLength' = n + 1
    BY <1>1, <1>2, <1>4, <1>8, <1>9
  <2>2. Unread' = Append(U, rdr) /\ Len(U) # w - 1
    BY <1>2, <1>4, <1>5, <1>7, <1>9, <2>1
  <2>3. Unread' \in Seq(1 .. came)
    BY <1>3, <2>2, AppendProperties
  <2>4. ConsoleTypeOK'
    <3>1. buffer' \in [Slot -> 0 .. MaxBytes]
      BY <1>6 DEF RingType, Slot, w, S
    <3>2. put_index' \in Slot /\ get_index' \in Slot
      BY <1>1, <1>2, <1>4, <2>1 DEF Slot, w
    <3>3. rdr' \in 0 .. came'
      BY <1>1, <1>2
    <3> QED BY <1>1, <1>9, <3>1, <3>2, <3>3 DEF ConsoleInv, ConsoleTypeOK
  <2>5. is_full' => get_index' # put_index'
    BY <1>1, <1>9, <2>1
  <2> QED BY <1>1, <2>2, <2>3, <2>4, <2>5 DEF ConsoleInv, U, w
<1>10. CASE q = g
  <2> DEFINE h == (g + 1) % w
  <2>1. get_index' = h /\ n = w - 1 /\ n + 1 = w
    BY <1>1, <1>2, <1>4, <1>10 DEF After, w
  <2>2. 1 \in 0 .. w
    BY <1>2
  <2>3. h \in 0 .. w - 1 /\ h = IF g + 1 < w THEN g + 1 ELSE g + 1 - w
    BY <1>2, <2>2, RingIndex
  <2> HIDE DEF h
  <2>4. h # g
    BY <1>2, <2>3
  <2>5. RxLength' = w - 1
    <3>1. RxLength' = Distance(h, g, w)
      BY <1>8, <1>10, <2>1, <2>3
    <3>2. Distance(h, g, w) = IF g >= h THEN g - h ELSE g - h + w
      BY <1>2, <2>3, DistanceFacts
    <3> QED BY <1>2, <2>3, <3>1, <3>2
  <2> DEFINE A == Append(U, rdr)
  <2>6. Content(buffer', h, w - 1, w) = SubSeq(Content(buffer', g, w, w), 2, w)
    <3>1. w \in 0 .. w /\ 1 \in 0 .. w
      BY <1>2
    <3> QED BY <1>2, <1>6, <3>1, ContentTake DEF h
  <2>7. /\ A \in Seq(1 .. came) /\ A # <<>> /\ Len(A) = w
        /\ Tail(A) = Append(Tail(U), rdr)
    <3>1. U # <<>>
      BY <1>2, <2>1
    <3>2. A \in Seq(1 .. came) /\ A # <<>> /\ Len(A) = Len(U) + 1
      BY <1>3, AppendProperties
    <3>3. Tail(A) = Append(Tail(U), rdr)
      BY <1>3, <3>1, HeadTailAppend
    <3> QED BY <1>2, <2>1, <3>2, <3>3
  <2>8. Content(buffer', g, w, w) = A
    BY <1>5, <2>1
  <2> HIDE DEF A
  <2>9. Unread' = Tail(A)
    <3>1. Tail(A) = SubSeq(A, 2, w)
      BY <2>7, TailIsSubSeq
    <3>2. Unread' = SubSeq(A, 2, w)
      BY <1>7, <2>1, <2>5, <2>6, <2>8
    <3> QED BY <3>1, <3>2
  <2>10. Unread' \in Seq(1 .. came)
    BY <2>7, <2>9, HeadTailProperties
  <2>11. ConsoleTypeOK'
    <3>1. buffer' \in [Slot -> 0 .. MaxBytes]
      BY <1>6 DEF RingType, Slot, w, S
    <3>2. put_index' \in Slot /\ get_index' \in Slot
      BY <1>1, <1>4, <2>1, <2>3 DEF Slot, w
    <3>3. rdr' \in 0 .. came'
      BY <1>1, <1>2
    <3> QED BY <1>1, <1>10, <3>1, <3>2, <3>3 DEF ConsoleInv, ConsoleTypeOK
  <2>12. is_full' => get_index' # put_index'
    BY <1>1, <1>10, <2>1, <2>4
  <2>13. Len(Unread) = BufSize - 1 /\ Unread' = Append(Tail(Unread), rdr)
    BY <1>2, <2>1, <2>7, <2>9 DEF U, w
  <2> QED BY <1>1, <2>10, <2>11, <2>12, <2>13 DEF ConsoleInv
<1> QED BY <1>9, <1>10

\* A byte is read: the oldest of the unread ones.
LEMMA ReadEffect ==
  ASSUME ConsoleInv, ReadByte
  PROVE  /\ ConsoleInv'
         /\ Unread # <<>>
         /\ typed' = Append(typed, Head(Unread))
         /\ Unread' = Tail(Unread)
<1> DEFINE w == BufSize
           g == get_index
           n == RxLength
           h == After(get_index)
           S == 0 .. MaxBytes
           U == Unread
<1>1. /\ g # put_index \/ is_full
      /\ typed' = Append(typed, buffer[g]) /\ get_index' = h /\ is_full' = FALSE
      /\ UNCHANGED <<put_index, buffer, came, rdr, isr, rx_sem, shell>>
  BY DEF ReadByte, Empty
<1>2. /\ w \in Nat \ {0} /\ w > 1
      /\ put_index \in 0 .. w - 1 /\ g \in 0 .. w - 1
      /\ buffer \in RingType(w, S)
      /\ n = Distance(g, put_index, w) /\ n \in 0 .. w - 1 /\ n \in 0 .. w
      /\ U = Content(buffer, g, n, w) /\ Len(U) = n
  BY ConsoleFacts
<1>3. U \in Seq(1 .. came) /\ ConsoleTypeOK /\ g # put_index
  BY <1>1 DEF ConsoleInv
<1>4. RxLength' = IF put_index >= h THEN put_index - h ELSE w - (h - put_index)
  BY <1>1 DEF RxLength
<1>5. Unread' = Content(buffer, h, RxLength', w)
  BY <1>1 DEF Unread, Content, Place
<1>6. h = (g + 1) % w
  BY DEF After
<1>7. ConsoleTypeOK => buffer[g] \in 0 .. MaxBytes /\ typed \in Seq(1 .. came)
  BY <1>2 DEF ConsoleTypeOK, RingType
<1> HIDE DEF g, n, h, w, S, U
<1>8. n > 0
  BY <1>2, <1>3, DistanceFacts
<1>9. h \in 0 .. w - 1 /\ Distance(h, put_index, w) = n - 1
  <2>1. 1 \in 0 .. Distance(g, put_index, w)
    BY <1>2, <1>8
  <2> QED BY <1>2, <1>6, <2>1, DistanceShrinks
<1>10. RxLength' = n - 1
  <2>1. Distance(h, put_index, w) = IF put_index >= h THEN put_index - h ELSE put_index - h + w
    BY <1>2, <1>9, DistanceFacts
  <2> QED BY <1>2, <1>4, <1>9, <2>1
<1>11. U # <<>>
  BY <1>2, <1>3, <1>8
<1>12. Unread' = Tail(U)
  <2>1. 1 \in 0 .. n
    BY <1>2, <1>8
  <2>2. Content(buffer, (g + 1) % w, n - 1, w) = SubSeq(Content(buffer, g, n, w), 1 + 1, n)
    <3>1. w \in Nat \ {0} /\ g \in 0 .. w - 1 /\ n \in 0 .. w
      BY <1>2
    <3>2. buffer \in RingType(w, S)
      BY <1>2
    <3> QED BY <2>1, <3>1, <3>2, ContentTake
  <2>3. Unread' = SubSeq(U, 1 + 1, n)
    <3>1. Unread' = Content(buffer, (g + 1) % w, n - 1, w)
      BY <1>5, <1>6, <1>10
    <3>2. U = Content(buffer, g, n, w)
      BY <1>2
    <3> QED BY <2>2, <3>1, <3>2
  <2>4. Tail(U) = SubSeq(U, 2, Len(U))
    BY <1>3, <1>11, TailIsSubSeq
  <2> QED BY <1>2, <2>3, <2>4
<1>13. Head(U) = buffer[g]
  <2>1. \A i \in 1 .. n : Content(buffer, g, n, w)[i] = buffer[Place(g, i, w)]
    <3>1. w \in Nat \ {0} /\ g \in 0 .. w - 1 /\ n \in 0 .. w
      BY <1>2
    <3>2. buffer \in RingType(w, S)
      BY <1>2
    <3> QED BY <3>1, <3>2, ContentFacts
  <2>2. Place(g, 1, w) = g
    <3>1. 1 \in 1 .. w + 1
      BY <1>2
    <3> QED BY <1>2, <3>1, PlaceFacts
  <2> QED BY <1>2, <1>3, <1>8, <1>11, <2>1, <2>2
<1>14. Head(U) \in 1 .. came /\ Tail(U) \in Seq(1 .. came)
  BY <1>3, <1>11, HeadTailProperties
<1>15. typed' \in Seq(1 .. came)
  BY <1>1, <1>3, <1>7, <1>13, <1>14, AppendProperties
<1>16. ConsoleTypeOK'
  <2>1. get_index' \in Slot /\ is_full' \in BOOLEAN
    BY <1>1, <1>9 DEF Slot, w
  <2> QED BY <1>1, <1>3, <1>15, <2>1 DEF ConsoleTypeOK
<1>17. ConsoleInv'
  BY <1>1, <1>12, <1>14, <1>16 DEF ConsoleInv
<1> QED BY <1>1, <1>11, <1>12, <1>13, <1>17 DEF U

\* The other steps leave the ring alone.
LEMMA RingAlone ==
  ASSUME ConsoleInv, UNCHANGED fifo, ConsoleTypeOK',
         came' \in Nat, came' >= came, rdr' # 0 => rdr' = came'
  PROVE  ConsoleInv' /\ Unread' = Unread
<1>1. Unread' = Unread
  BY DEF fifo, Unread, RxLength
<1>2. Unread \in Seq(1 .. came) /\ came \in Nat
  BY ConsoleFacts DEF ConsoleInv
<1>3. Unread \in Seq(1 .. came')
  <2>1. 1 .. came \subseteq 1 .. came'
    BY <1>2
  <2> QED BY <1>2, <2>1, WiderSeq
<1> QED BY <1>1, <1>3 DEF ConsoleInv, fifo

LEMMA ConsoleOther ==
  ASSUME ConsoleInv, Receive \/ IsrEnter \/ IsrIndicate \/ ReadNothing \/ TakeSem
  PROVE  /\ ConsoleInv'
         /\ UNCHANGED typed /\ Unread' = Unread
         /\ Stored' = Stored
<1>1. /\ came \in Nat /\ rdr \in Nat /\ rdr <= came /\ MaxBytes \in Nat
      /\ SemWidth \in Nat \ {0} /\ ConsoleTypeOK /\ (rdr # 0 => rdr = came)
  BY ConsoleFacts DEF ConsoleInv
<1>2. UNCHANGED fifo
  BY DEF Receive, IsrEnter, IsrIndicate, ReadNothing, TakeSem
<1>3. UNCHANGED typed
  BY DEF Receive, IsrEnter, IsrIndicate, ReadNothing, TakeSem
<1>4. CASE Receive
  <2>1. /\ came < MaxBytes /\ rdr = 0 /\ came' = came + 1 /\ rdr' = came + 1
        /\ UNCHANGED <<isr, rx_sem, shell>>
    BY <1>4 DEF Receive
  <2>2. typed' \in Seq(1 .. came')
    <3>1. 1 .. came \subseteq 1 .. came' /\ typed \in Seq(1 .. came)
      BY <1>1, <2>1 DEF ConsoleTypeOK
    <3> QED BY <1>3, <3>1, WiderSeq
  <2>3. ConsoleTypeOK'
    BY <1>1, <1>2, <2>1, <2>2 DEF ConsoleTypeOK, fifo
  <2> QED BY <1>1, <1>2, <1>3, <2>1, <2>3, RingAlone DEF Stored
<1>5. CASE IsrEnter \/ IsrIndicate \/ ReadNothing \/ TakeSem
  <2>1. UNCHANGED <<came, rdr>>
    BY <1>5 DEF IsrEnter, IsrIndicate, ReadNothing, TakeSem
  <2>2. (rx_sem + 1) % SemWidth \in 0 .. SemWidth - 1
    <3>1. rx_sem + 1 \in Int
      BY <1>1 DEF ConsoleTypeOK
    <3> QED BY <1>1, <3>1, DivFacts
  <2>3. rx_sem' \in 0 .. SemWidth - 1
    BY <1>1, <1>5, <2>2 DEF ConsoleTypeOK, IsrEnter, IsrIndicate, ReadNothing, TakeSem, Release
  <2>4. shell' \in {"read", "take", "wait"} /\ isr' \in BOOLEAN
    BY <1>1, <1>5 DEF ConsoleTypeOK, IsrEnter, IsrIndicate, ReadNothing, TakeSem, Release
  <2>5. ConsoleTypeOK'
    BY <1>1, <1>2, <1>3, <2>1, <2>3, <2>4 DEF ConsoleTypeOK, fifo
  <2> QED BY <1>1, <1>2, <1>3, <2>1, <2>5, RingAlone DEF Stored
<1> QED BY <1>4, <1>5

LEMMA ConsoleStart == ConsoleInit => ConsoleInv /\ Unread = <<>>
<1> SUFFICES ASSUME ConsoleInit PROVE ConsoleInv /\ Unread = <<>>
  OBVIOUS
<1>1. ConsoleTypeOK
  <2>1. 0 \in Slot /\ 0 \in 0 .. MaxBytes /\ 0 \in 0 .. SemWidth - 1 /\ came = 0 /\ 0 \in 0 .. 0
    BY ConsoleAssumption DEF ConsoleInit, Slot
  <2>2. buffer \in [Slot -> 0 .. MaxBytes]
    BY <2>1 DEF ConsoleInit
  <2>3. typed \in Seq(1 .. came)
    BY DEF ConsoleInit
  <2> QED BY <2>1, <2>2, <2>3 DEF ConsoleInit, ConsoleTypeOK
<1>2. Unread = <<>>
  BY DEF ConsoleInit, Unread, RxLength
<1> QED BY <1>1, <1>2 DEF ConsoleInit, ConsoleInv

-----------------------------------------------------------------------------
(* The interrupt-driven output.                                            *)

LEMMA WriteStart == WriteInit => WriteTypeOK
<1> SUFFICES ASSUME WriteInit PROVE WriteTypeOK
  OBVIOUS
<1>1. length \in 0 .. MaxLength
  BY WriteAssumption DEF WriteInit
<1>2. flag \in BOOLEAN /\ asleep \in BOOLEAN /\ busy \in BOOLEAN /\ done \in BOOLEAN
  BY DEF WriteInit
<1> QED BY <1>1, <1>2 DEF WriteInit, WriteTypeOK

LEMMA WriteKeepsType ==
  ASSUME WriteTypeOK, WriteStep
  PROVE  WriteTypeOK'
<1>1. MaxLength \in Nat /\ length \in 0 .. MaxLength
  BY WriteAssumption DEF WriteTypeOK
<1>2. length' \in 0 .. MaxLength
  BY <1>1 DEF WriteStep, Writer, WriteBegin, PutByte, PutRefused, WriteEnd, Wait, WaitNot,
              WaitSuspend, Resumed, Sent, TxDone
<1>3. writer' \in {"idle", "put", "wait", "asleep"}
  BY DEF WriteTypeOK, WriteStep, Writer, WriteBegin, PutByte, PutRefused, WriteEnd, Wait,
         WaitNot, WaitSuspend, Resumed, Sent, TxDone
<1>4. {flag', asleep', busy', done'} \subseteq BOOLEAN
  <2>1. flag \in BOOLEAN /\ asleep \in BOOLEAN /\ busy \in BOOLEAN /\ done \in BOOLEAN
    BY DEF WriteTypeOK
  <2>2. flag' \in BOOLEAN
    BY <2>1 DEF WriteStep, Writer, WriteBegin, PutByte, PutRefused, WriteEnd, Wait,
                WaitNot, WaitSuspend, Resumed, Sent, TxDone
  <2>3. busy' \in BOOLEAN
    BY <2>1 DEF WriteStep, Writer, WriteBegin, PutByte, PutRefused, WriteEnd, Wait,
                WaitNot, WaitSuspend, Resumed, Sent, TxDone
  <2>4. done' \in BOOLEAN
    BY <2>1 DEF WriteStep, Writer, WriteBegin, PutByte, PutRefused, WriteEnd, Wait,
                WaitNot, WaitSuspend, Resumed, Sent, TxDone
  <2>5. asleep' \in BOOLEAN
    BY <2>1, Zenon DEF WriteStep, Writer, WriteBegin, PutByte, PutRefused, WriteEnd, Wait,
                WaitNot, WaitSuspend, Resumed, Sent, TxDone
  <2> QED BY <2>2, <2>3, <2>4, <2>5
<1> QED BY <1>2, <1>3, <1>4 DEF WriteTypeOK

-----------------------------------------------------------------------------
(* The line reader.                                                        *)

Looked == {"ahead", "room", "wrapped", "room_wrapped", "end"}

\* poc_task is at an unread byte, unless there is none, and no byte before it ends
\* a line; while it moves read_p back only the handler moves write_p, and not past
\* read_p; the line it has copied is the text before the first end.
LineInv ==
  /\ LineTypeOK
  /\ Unhandled \in Seq(1 .. chars)
  /\ At("reset") => read_p = 0 \/ write_p < read_p
  /\ ~At("reset") => cmp_cnt < Len(Unhandled) \/ (cmp_cnt = 0 /\ Unhandled = <<>> /\ At("while"))
  /\ ~At("reset") => \A i \in 1 .. cmp_cnt : Unhandled[i] \notin seps
  /\ task \in Looked => Unhandled[cmp_cnt + 1] \notin seps
  /\ At("room_wrapped") => read_p > write_p
  /\ At("advance") =>
       /\ Unhandled[cmp_cnt + 1] \in seps
       /\ cmp_cnt < DealLen
       /\ deal = IF cmp_cnt >= 2 THEN SubSeq(Unhandled, 1, cmp_cnt) ELSE <<>>
  /\ ~At("advance") => deal = <<>>

LEMMA LineFacts ==
  ASSUME LineTypeOK
  PROVE  /\ RxLen \in Nat \ {0} /\ DealLen \in Nat \ {0} /\ RxLen > DealLen /\ MaxChars \in Nat
         /\ First \in 0 .. RxLen - 1
         /\ write_p \in 0 .. RxLen - 1 /\ read_p \in 0 .. RxLen - 1
         /\ cmp_cnt \in 0 .. RxLen - 1 /\ chars \in Nat
         /\ recv_buf \in RingType(RxLen, 0 .. chars)
         /\ Len(Unhandled) = Distance(First, write_p, RxLen)
         /\ Len(Unhandled) \in 0 .. RxLen - 1 /\ Len(Unhandled) \in 0 .. RxLen
         /\ Len(Unhandled) = IF write_p >= First THEN write_p - First ELSE write_p - First + RxLen
         /\ Unhandled = Content(recv_buf, First, Len(Unhandled), RxLen)
         /\ \A i \in 1 .. Len(Unhandled) : Unhandled[i] = recv_buf[Place(First, i, RxLen)]
<1>1. RxLen \in Nat \ {0} /\ DealLen \in Nat \ {0} /\ RxLen > DealLen /\ MaxChars \in Nat
  BY UartAssumption
<1>2. write_p \in 0 .. RxLen - 1 /\ read_p \in 0 .. RxLen - 1
      /\ cmp_cnt \in 0 .. RxLen - 1 /\ chars \in Nat
  BY <1>1 DEF LineTypeOK
<1>3. First \in 0 .. RxLen - 1
  BY <1>1, <1>2 DEF First
<1>4. recv_buf \in RingType(RxLen, 0 .. chars)
  BY DEF LineTypeOK, RingType
<1> DEFINE n == Distance(First, write_p, RxLen)
<1>5. /\ n \in 0 .. RxLen - 1
      /\ n = IF write_p >= First THEN write_p - First ELSE write_p - First + RxLen
  BY <1>1, <1>2, <1>3, DistanceFacts
<1>6. Unhandled = Content(recv_buf, First, n, RxLen)
  BY DEF Unhandled, Content, Place, Distance
<1> HIDE DEF n
<1>7. n \in 0 .. RxLen
  BY <1>1, <1>5
<1>8. /\ Len(Content(recv_buf, First, n, RxLen)) = n
      /\ \A i \in 1 .. n : Content(recv_buf, First, n, RxLen)[i] = recv_buf[Place(First, i, RxLen)]
  <2>1. RxLen \in Nat \ {0}
    BY <1>1
  <2>2. PICK w, g, S : w = RxLen /\ g = First /\ S = 0 .. chars
    OBVIOUS
  <2>3. w \in Nat \ {0} /\ g \in 0 .. w - 1 /\ n \in 0 .. w
    BY <1>3, <1>7, <2>1, <2>2
  <2>4. recv_buf \in RingType(w, S)
    BY <1>4, <2>2
  <2>5. /\ Len(Content(recv_buf, g, n, w)) = n
        /\ \A i \in 1 .. n : Content(recv_buf, g, n, w)[i] = recv_buf[Place(g, i, w)]
    <3> SUFFICES ASSUME NEW buf \in RingType(w, S)
                 PROVE  /\ Len(Content(buf, g, n, w)) = n
                        /\ \A i \in 1 .. n : Content(buf, g, n, w)[i] = buf[Place(g, i, w)]
      BY <2>4
    <3> QED BY <2>3, ContentFacts
  <2> QED BY <2>2, <2>5
<1>9. /\ Len(Unhandled) = n
      /\ \A i \in 1 .. n : Unhandled[i] = recv_buf[Place(First, i, RxLen)]
  BY <1>6, <1>8
<1> QED BY <1>1, <1>2, <1>3, <1>4, <1>5, <1>6, <1>7, <1>9 DEF n

\* The steps of poc_task that leave the ring and read_p alone.
LEMMA LineAlone ==
  ASSUME LineInv, ~At("reset"), task' # "reset", UNCHANGED <<recv_buf, write_p, chars, seps, read_p>>
  PROVE  Unhandled' = Unhandled
<1>1. First = read_p /\ First' = read_p'
  BY DEF First, At
<1> QED BY <1>1 DEF Unhandled

LEMMA LineEnd ==
  ASSUME LineInv, task # "reset", cmp_cnt < Len(Unhandled)
  PROVE  IsEnd <=> Unhandled[cmp_cnt + 1] \in seps
<1>1. cmp_cnt + 1 \in 1 .. Len(Unhandled)
  BY LineFacts DEF LineInv
<1>2. Unhandled[cmp_cnt + 1] = recv_buf[Place(First, cmp_cnt + 1, RxLen)]
  BY <1>1, LineFacts DEF LineInv
<1>3. First = read_p
  BY DEF First, At
<1>4. Place(First, cmp_cnt + 1, RxLen) = (read_p + cmp_cnt) % RxLen
  <2>1. read_p + (cmp_cnt + 1) - 1 = read_p + cmp_cnt
    BY LineFacts DEF LineInv
  <2> QED BY <1>3, <2>1 DEF Place
<1> QED BY <1>2, <1>4 DEF IsEnd

\* The steps that only look.
LEMMA LineLook ==
  ASSUME LineInv, Loop \/ DealTooLong \/ LookOn \/ Ahead \/ Room \/ Wrapped \/ RoomWrapped \/ GiveUp
  PROVE  LineInv' /\ UNCHANGED <<chars, seps, handled>> /\ Unhandled' = Unhandled /\ ~At("reset") /\ ~At("reset")'
<1> USE DEF At, Goto
<1> DEFINE U == Unhandled
           N == Len(Unhandled)
<1>1. /\ UNCHANGED <<recv_buf, write_p, chars, seps, read_p, handled, deal>>
      /\ task \in {"while", "look", "ahead", "room", "wrapped", "room_wrapped", "end"}
      /\ task' \in {"while", "look", "ahead", "room", "wrapped", "room_wrapped", "end", "halt"}
  BY DEF Loop, DealTooLong, LookOn, Ahead, Room, Wrapped, RoomWrapped, GiveUp, Ring
<1>2. task # "reset" /\ task' # "reset" /\ task # "advance" /\ task' # "advance"
  BY <1>1
<1>3. Unhandled' = U
  BY <1>1, <1>2, LineAlone
<1>4. /\ LineTypeOK /\ U \in Seq(1 .. chars)
      /\ cmp_cnt < N \/ (cmp_cnt = 0 /\ U = <<>> /\ task = "while")
      /\ \A i \in 1 .. cmp_cnt : U[i] \notin seps
      /\ task \in Looked => U[cmp_cnt + 1] \notin seps
      /\ task = "room_wrapped" => read_p > write_p
      /\ deal = <<>>
  BY <1>2 DEF LineInv
<1>5. /\ RxLen \in Nat \ {0}
      /\ write_p \in 0 .. RxLen - 1 /\ read_p \in 0 .. RxLen - 1
      /\ cmp_cnt \in 0 .. RxLen - 1 /\ N \in 0 .. RxLen - 1
      /\ N = IF write_p >= read_p THEN write_p - read_p ELSE write_p - read_p + RxLen
  <2>1. First = read_p
    BY <1>2 DEF First
  <2> QED BY <1>4, <2>1, LineFacts
<1>6. U = <<>> => N = 0
  BY <1>4
<1>7. cmp_cnt < N /\ task # "reset" => (IsEnd <=> U[cmp_cnt + 1] \in seps)
  BY LineEnd
<1> HIDE DEF U, N
<1>8. /\ cmp_cnt' \in 0 .. RxLen - 1
      /\ cmp_cnt' < N \/ (cmp_cnt' = 0 /\ U = <<>> /\ task' = "while")
      /\ \A i \in 1 .. cmp_cnt' : U[i] \notin seps
      /\ task' \in Looked => U[cmp_cnt' + 1] \notin seps
      /\ task' = "room_wrapped" => read_p > write_p
  <2>1. CASE Loop
    BY <1>4, <1>5, <1>6, <2>1 DEF Loop, Looked
  <2>2. CASE DealTooLong
    BY <1>4, <1>5, <1>6, <2>2 DEF DealTooLong, Looked
  <2>3. CASE LookOn
    BY <1>4, <1>5, <1>6, <1>7, <2>3 DEF LookOn, Looked
  <2>4. CASE Ahead
    BY <1>4, <1>5, <1>6, <2>4 DEF Ahead, Looked
  <2>5. CASE Room
    <3>1. CASE cmp_cnt + 1 < write_p - read_p
      <4>1. cmp_cnt' = cmp_cnt + 1 /\ task' = "while" /\ U[cmp_cnt + 1] \notin seps
        BY <1>4, <2>5, <3>1 DEF Room, Looked
      <4>2. cmp_cnt' < N /\ cmp_cnt' \in 0 .. RxLen - 1
        BY <1>5, <3>1, <4>1
      <4>3. \A i \in 1 .. cmp_cnt' : i \in 1 .. cmp_cnt \/ i = cmp_cnt + 1
        BY <1>5, <4>1
      <4> QED BY <1>4, <4>1, <4>2, <4>3 DEF Looked
    <3>2. CASE ~(cmp_cnt + 1 < write_p - read_p)
      BY <1>4, <1>5, <1>6, <2>5, <3>2 DEF Room, Looked
    <3> QED BY <3>1, <3>2
  <2>6. CASE Wrapped
    BY <1>4, <1>5, <1>6, <2>6 DEF Wrapped, Looked
  <2>7. CASE RoomWrapped
    <3>1. CASE cmp_cnt + 1 < RxLen - read_p + write_p
      <4>1. /\ cmp_cnt' = cmp_cnt + 1 /\ task' = "while" /\ U[cmp_cnt + 1] \notin seps
            /\ read_p > write_p
        BY <1>4, <2>7, <3>1 DEF RoomWrapped, Looked
      <4>2. cmp_cnt' < N /\ cmp_cnt' \in 0 .. RxLen - 1
        BY <1>5, <3>1, <4>1
      <4>3. \A i \in 1 .. cmp_cnt' : i \in 1 .. cmp_cnt \/ i = cmp_cnt + 1
        BY <1>5, <4>1
      <4> QED BY <1>4, <4>1, <4>2, <4>3 DEF Looked
    <3>2. CASE ~(cmp_cnt + 1 < RxLen - read_p + write_p)
      BY <1>4, <1>5, <1>6, <2>7, <3>2 DEF RoomWrapped, Looked
    <3> QED BY <3>1, <3>2
  <2>8. CASE GiveUp
    BY <1>4, <1>5, <1>6, <2>8 DEF GiveUp, Looked
  <2> QED BY <2>1, <2>2, <2>3, <2>4, <2>5, <2>6, <2>7, <2>8
<1>9. LineTypeOK'
  BY <1>1, <1>4, <1>8 DEF LineTypeOK, Steps
<1>10. LineInv'
  <2>1. task' \in Looked => Unhandled'[cmp_cnt' + 1] \notin seps'
    BY <1>1, <1>3, <1>8
  <2>2. \A i \in 1 .. cmp_cnt' : Unhandled'[i] \notin seps'
    BY <1>1, <1>3, <1>8
  <2>3. Unhandled' \in Seq(1 .. chars') /\ deal' = <<>>
    BY <1>1, <1>3, <1>4
  <2>4. cmp_cnt' < Len(Unhandled') \/ (cmp_cnt' = 0 /\ Unhandled' = <<>> /\ task' = "while")
    BY <1>3, <1>8 DEF U, N
  <2>5. task' = "room_wrapped" => read_p' > write_p'
    BY <1>1, <1>8
  <2> QED BY <1>2, <1>9, <2>1, <2>2, <2>3, <2>4, <2>5 DEF LineInv
<1> QED BY <1>1, <1>2, <1>3, <1>10 DEF U

\* The line that is copied out is the text before its end.
LEMMA CopiedLine ==
  ASSUME LineInv, ~At("reset"), cmp_cnt < Len(Unhandled), cmp_cnt < DealLen
  PROVE  Copied = SubSeq(Unhandled, 1, cmp_cnt)
<1> DEFINE U == Unhandled
           c == cmp_cnt
           w == RxLen
           g == read_p
           s == SubSeq(U, 1, c)
<1>1. /\ w \in Nat \ {0} /\ DealLen \in Nat \ {0} /\ w > DealLen
      /\ g \in 0 .. w - 1 /\ c \in 0 .. w - 1
      /\ Len(U) \in 0 .. w - 1
      /\ \A i \in 1 .. Len(U) : U[i] = recv_buf[Place(g, i, w)]
  BY LineFacts DEF LineInv, First
<1>2. U \in Seq(1 .. chars) /\ c < Len(U) /\ c < DealLen
  BY DEF LineInv
<1>3. /\ s \in Seq(1 .. chars) /\ Len(s) = c
      /\ \A i \in 1 .. c : s[i] = U[i]
  <2>1. 1 \in Int /\ c \in Int /\ \A i \in 1 .. c : U[i] \in 1 .. chars
    <3>1. c \in Int /\ Len(U) \in Int /\ \A i \in 1 .. c : i \in 1 .. Len(U)
      BY <1>1, <1>2
    <3>2. \A i \in 1 .. Len(U) : U[i] \in 1 .. chars
      BY <1>2, ElementOfSeq
    <3> QED BY <3>1, <3>2
  <2> HIDE DEF U
  <2>2. /\ s \in Seq(1 .. chars) /\ Len(s) = (IF 1 <= c THEN c - 1 + 1 ELSE 0)
        /\ \A i \in 1 .. c - 1 + 1 : s[i] = U[1 + i - 1]
    BY <2>1, SubSeqProperties
  <2> HIDE DEF s
  <2>3. c - 1 + 1 = c /\ \A i \in 1 .. c : 1 + i - 1 = i
    BY <1>1
  <2> QED BY <1>1, <2>2, <2>3
<1>4. ASSUME NEW i \in 1 .. c
      PROVE  s[i] = recv_buf[IF g + i - 1 < w THEN g + i - 1 ELSE g + i - 1 - w]
  <2>1. i \in 1 .. w + 1 /\ i \in 1 .. Len(U)
    BY <1>1, <1>2
  <2>2. Place(g, i, w) = IF g + i - 1 < w THEN g + i - 1 ELSE g + i - 1 - w
    BY <1>1, <2>1, PlaceFacts
  <2> QED BY <1>1, <1>3, <2>1, <2>2
<1>5. s = [i \in 1 .. c |-> s[i]]
  BY <1>1, <1>3
<1> HIDE DEF U, s
<1>6. CASE g + c < w
  <2>1. Copied = Bytes(g, c)
    BY <1>6 DEF Copied
  <2>2. Bytes(g, c) = [i \in 1 .. c |-> recv_buf[g + i - 1]]
    BY DEF Bytes
  <2>3. \A i \in 1 .. c : s[i] = recv_buf[g + i - 1]
    BY <1>1, <1>4, <1>6
  <2> QED BY <1>5, <2>1, <2>2, <2>3 DEF U, s
<1>7. CASE ~(g + c < w)
  <2> DEFINE f == w - g
             r == c - f
             A == Bytes(g, f)
             B == Bytes(0, r)
  <2>1. /\ f \in 1 .. DealLen - 1 /\ r \in 0 .. DealLen - f - 1 /\ r \in 0 .. w - 1
        /\ f + r = c /\ DealLen - f \in Nat \ {0}
    BY <1>1, <1>2, <1>7
  <2>2. (w - g) % DealLen = f
    <3>1. f \in Int /\ -DealLen <= f /\ f < 2 * DealLen /\ ~(f < 0) /\ f < DealLen
      BY <1>1, <2>1
    <3> HIDE DEF f
    <3>2. f % DealLen = f
      BY <1>1, <3>1, NearRemainder
    <3> QED BY <3>2 DEF f
  <2>3. (g + c) % w = r
    <3>1. c \in 0 .. w
      BY <1>1
    <3>2. (g + c) % w = IF g + c < w THEN g + c ELSE g + c - w
      BY <1>1, <3>1, RingIndex
    <3> QED BY <1>1, <1>7, <3>2
  <2>4. r % (DealLen - f) = r
    <3> DEFINE d == DealLen - f
    <3>1. d \in Nat \ {0} /\ r \in Int /\ -d <= r /\ r < 2 * d /\ ~(r < 0) /\ r < d
      BY <1>1, <2>1
    <3> HIDE DEF d, r
    <3>2. r % d = r
      BY <3>1, NearRemainder
    <3> QED BY <3>2 DEF d
  <2> HIDE DEF f, r
  <2>5. Copied = A \o B
    BY <1>7, <2>2, <2>3, <2>4 DEF Copied
  <2>6. A \o B = [i \in 1 .. f + r |-> IF i <= f THEN A[i] ELSE B[i - f]]
    <3>1. /\ A \in Seq(0 .. chars) /\ Len(A) = f
          /\ B \in Seq(0 .. chars) /\ Len(B) = r
      <4>1. /\ \A i \in 1 .. f : recv_buf[g + i - 1] \in 0 .. chars
            /\ \A i \in 1 .. r : recv_buf[0 + i - 1] \in 0 .. chars
        <5>1. \A i \in 1 .. f : g + i - 1 \in 0 .. w - 1
          BY <1>1, <2>1 DEF f
        <5>2. \A i \in 1 .. r : 0 + i - 1 \in 0 .. w - 1
          BY <1>1, <2>1
        <5>3. recv_buf \in [0 .. w - 1 -> 0 .. chars]
          BY DEF LineInv, LineTypeOK
        <5> QED BY <5>1, <5>2, <5>3
      <4> QED BY <2>1, <4>1 DEF Bytes
    <3> DEFINE C == A \o B
    <3> HIDE DEF A, B
    <3>2. /\ C \in Seq(0 .. chars) /\ Len(C) = f + r
          /\ \A i \in 1 .. f + r : C[i] = IF i <= f THEN A[i] ELSE B[i - f]
      BY <3>1, ConcatProperties
    <3> HIDE DEF C
    <3>3. C = [i \in 1 .. Len(C) |-> C[i]]
      BY <3>2
    <3>4. C = [i \in 1 .. f + r |-> IF i <= f THEN A[i] ELSE B[i - f]]
      BY <3>2, <3>3
    <3> QED BY <3>4 DEF C
  <2>7. ASSUME NEW i \in 1 .. c
        PROVE  s[i] = IF i <= f THEN A[i] ELSE B[i - f]
    <3>1. CASE i <= f
      <4>1. A[i] = recv_buf[g + i - 1]
        BY <2>1, <3>1 DEF Bytes
      <4>2. g + i - 1 < w
        BY <1>1, <2>1, <3>1 DEF f
      <4> QED BY <1>4, <3>1, <4>1, <4>2
    <3>2. CASE ~(i <= f)
      <4> DEFINE k == i - f
      <4>1. k \in 1 .. r /\ 0 + k - 1 = g + i - 1 - w /\ ~(g + i - 1 < w)
        BY <1>1, <2>1, <3>2 DEF f
      <4> HIDE DEF k
      <4>2. B[k] = recv_buf[0 + k - 1]
        BY <4>1 DEF Bytes
      <4>3. s[i] = recv_buf[g + i - 1 - w]
        BY <1>4, <4>1
      <4> QED BY <3>2, <4>1, <4>2, <4>3 DEF k
    <3> QED BY <3>1, <3>2
  <2> QED BY <1>5, <2>1, <2>5, <2>6, <2>7 DEF U, s
<1> QED BY <1>6, <1>7

LEMMA LineDeal ==
  ASSUME LineInv, Deal
  PROVE  LineInv' /\ UNCHANGED <<chars, seps, handled>> /\ Unhandled' = Unhandled /\ ~At("reset") /\ ~At("reset")'
<1> USE DEF At, Goto
<1> DEFINE U == Unhandled
           N == Len(Unhandled)
<1>1. /\ UNCHANGED <<recv_buf, write_p, chars, seps, read_p, handled, cmp_cnt>>
      /\ task = "look" /\ task' = "advance" /\ IsEnd /\ cmp_cnt < DealLen
      /\ deal' = IF cmp_cnt >= 2 THEN Copied ELSE <<>>
  BY DEF Deal, Ring
<1>2. Unhandled' = U
  BY <1>1, LineAlone
<1>3. /\ LineTypeOK /\ U \in Seq(1 .. chars)
      /\ cmp_cnt < N
      /\ \A i \in 1 .. cmp_cnt : U[i] \notin seps
  BY <1>1 DEF LineInv
<1>4. U[cmp_cnt + 1] \in seps
  BY <1>1, <1>3, LineEnd
<1>5. Copied = SubSeq(U, 1, cmp_cnt)
  BY <1>1, <1>3, CopiedLine
<1>6. SubSeq(U, 1, cmp_cnt) \in Seq(1 .. chars)
  <2>1. cmp_cnt \in Int /\ 1 \in Int /\ N \in Int /\ \A i \in 1 .. cmp_cnt : i \in 1 .. N
    BY <1>3, LineFacts
  <2>2. \A i \in 1 .. N : U[i] \in 1 .. chars
    BY <1>3, ElementOfSeq
  <2> HIDE DEF U, N
  <2>3. \A i \in 1 .. cmp_cnt : U[i] \in 1 .. chars
    BY <2>1, <2>2
  <2> QED BY <2>1, <2>3, SubSeqProperties
<1> HIDE DEF U, N
<1>7. deal' = IF cmp_cnt >= 2 THEN SubSeq(U, 1, cmp_cnt) ELSE <<>>
  BY <1>1, <1>5
<1>8. deal' \in Seq(1 .. chars)
  <2>1. <<>> \in Seq(1 .. chars)
    OBVIOUS
  <2>2. CASE cmp_cnt >= 2
    BY <1>6, <1>7, <2>2
  <2>3. CASE ~(cmp_cnt >= 2)
    BY <1>7, <2>1, <2>3
  <2> QED BY <2>2, <2>3
<1>9. LineTypeOK'
  BY <1>1, <1>3, <1>8 DEF LineTypeOK, Steps
<1>10. LineInv'
  <2>1. Unhandled' \in Seq(1 .. chars') /\ cmp_cnt' < Len(Unhandled')
    BY <1>1, <1>2, <1>3 DEF U, N
  <2>2. \A i \in 1 .. cmp_cnt' : Unhandled'[i] \notin seps'
    BY <1>1, <1>2, <1>3
  <2>3. Unhandled'[cmp_cnt' + 1] \in seps'
    BY <1>1, <1>2, <1>4
  <2>4. deal' = IF cmp_cnt' >= 2 THEN SubSeq(Unhandled', 1, cmp_cnt') ELSE <<>>
    BY <1>1, <1>2, <1>7
  <2> QED BY <1>1, <1>9, <2>1, <2>2, <2>3, <2>4 DEF LineInv, Looked
<1> QED BY <1>1, <1>2, <1>10 DEF U

\* The line and its end leave the ring.
LEMMA LineAdvance ==
  ASSUME LineInv, Advance
  PROVE  /\ LineInv'
         /\ UNCHANGED <<chars, seps>> /\ ~At("reset") /\ ~At("reset")'
         /\ \E n \in 1 .. Len(Unhandled) :
              /\ Unhandled[n] \in seps
              /\ \A i \in 1 .. n - 1 : Unhandled[i] \notin seps
              /\ handled' = IF n > 2 THEN handled \o SubSeq(Unhandled, 1, n - 1) ELSE handled
              /\ Unhandled' = SubSeq(Unhandled, n + 1, Len(Unhandled))
<1> USE DEF At, Goto
<1> DEFINE U == Unhandled
           N == Len(Unhandled)
           n == cmp_cnt + 1
           w == RxLen
           g == read_p
           S == 0 .. chars
<1>1. /\ UNCHANGED <<recv_buf, write_p, chars, seps>>
      /\ task = "advance" /\ task' = "while" /\ cmp_cnt' = 0 /\ deal' = <<>>
      /\ handled' = handled \o deal
      /\ read_p' = (read_p + cmp_cnt + 1) % RxLen
  BY DEF Advance, LineOver, Ring
<1>2. /\ LineTypeOK /\ U \in Seq(1 .. chars)
      /\ cmp_cnt < N
      /\ \A i \in 1 .. cmp_cnt : U[i] \notin seps
      /\ U[cmp_cnt + 1] \in seps
      /\ deal = IF cmp_cnt >= 2 THEN SubSeq(U, 1, cmp_cnt) ELSE <<>>
  BY <1>1 DEF LineInv
<1>3. First = read_p /\ First' = read_p'
  BY <1>1 DEF First
<1>4. /\ w \in Nat \ {0} /\ g \in 0 .. w - 1 /\ write_p \in 0 .. w - 1
      /\ cmp_cnt \in 0 .. w - 1
      /\ recv_buf \in RingType(w, S)
      /\ N = Distance(g, write_p, w) /\ N \in 0 .. w - 1 /\ N \in 0 .. w
      /\ U = Content(recv_buf, g, N, w)
  BY <1>2, <1>3, LineFacts
<1>5. read_p' = (g + n) % w
  <2>1. read_p + cmp_cnt + 1 = g + n
    BY <1>4
  <2> HIDE DEF n, g
  <2> QED BY <1>1, <2>1
<1>6. Unhandled' = Content(recv_buf, read_p', Distance(read_p', write_p, w), w)
  BY <1>1, <1>3 DEF Unhandled, Content, Place, Distance
<1>7. n \in 1 .. N /\ n \in 0 .. N /\ n - 1 = cmp_cnt /\ n \in Int
  BY <1>2, <1>4
<1>8. U[n] \in seps
  BY <1>2
<1>9. (cmp_cnt >= 2 <=> n > 2) /\ N + 1 > n
  BY <1>2, <1>4
<1> HIDE DEF n, U, N, g, w, S
<1>10. (g + n) % w \in 0 .. w - 1 /\ Distance((g + n) % w, write_p, w) = N - n
  <2>1. n \in 0 .. Distance(g, write_p, w)
    BY <1>4, <1>7
  <2> QED BY <1>4, <2>1, DistanceShrinks
<1>11. Unhandled' = SubSeq(U, n + 1, N)
  <2>1. Content(recv_buf, (g + n) % w, N - n, w) = SubSeq(Content(recv_buf, g, N, w), n + 1, N)
    <3>1. w \in Nat \ {0}
      BY <1>4
    <3>2. g \in 0 .. w - 1 /\ N \in 0 .. w /\ n \in 0 .. N
      BY <1>4, <1>7
    <3>3. recv_buf \in RingType(w, S)
      BY <1>4
    <3> QED BY <3>1, <3>2, <3>3, ContentTake
  <2> QED BY <1>4, <1>5, <1>6, <1>10, <2>1
<1>12. \A k, l \in Int : 1 <= k /\ l <= N => SubSeq(U, k, l) \in Seq(1 .. chars)
  <2> TAKE k, l \in Int
  <2> HAVE 1 <= k /\ l <= N
  <2>1. \A i \in k .. l : i \in 1 .. N
    BY <1>4
  <2>2. \A i \in 1 .. N : U[i] \in 1 .. chars
    BY <1>2, ElementOfSeq DEF U, N
  <2>3. \A i \in k .. l : U[i] \in 1 .. chars
    BY <2>1, <2>2
  <2> QED BY <2>3, SubSeqProperties
<1>13. SubSeq(U, n + 1, N) \in Seq(1 .. chars)
  <2>1. n + 1 \in Int /\ N \in Int /\ 1 <= n + 1 /\ N <= N
    BY <1>4, <1>7
  <2> QED BY <1>12, <2>1
<1>14. handled \in Seq(1 .. chars) /\ deal \in Seq(1 .. chars)
  BY <1>2 DEF LineTypeOK
<1>15. handled' \in Seq(1 .. chars)
  BY <1>1, <1>14, ConcatProperties
<1>16. handled' = IF n > 2 THEN handled \o SubSeq(U, 1, n - 1) ELSE handled
  <2>1. handled \o <<>> = handled
    BY <1>14, ConcatEmptySeq
  <2>2. CASE n > 2
    BY <1>1, <1>2, <1>7, <1>9, <2>2
  <2>3. CASE ~(n > 2)
    BY <1>1, <1>2, <1>9, <2>1, <2>3
  <2> QED BY <2>2, <2>3
<1>17. LineTypeOK'
  <2>1. read_p' \in 0 .. RxLen - 1 /\ cmp_cnt' \in 0 .. RxLen - 1
    BY <1>1, <1>4, <1>5, <1>10 DEF w
  <2>2. deal' \in Seq(1 .. chars)
    BY <1>1
  <2> QED BY <1>1, <1>2, <1>15, <2>1, <2>2 DEF LineTypeOK, Steps
<1>18. LineInv'
  <2>1. Unhandled' \in Seq(1 .. chars')
    BY <1>1, <1>11, <1>13
  <2>2. cmp_cnt' < Len(Unhandled') \/ Unhandled' = <<>>
    <3> HIDE DEF LineInv
    <3>1. PICK V : V = Unhandled'
      OBVIOUS
    <3>2. V \in Seq(1 .. chars)
      BY <1>11, <1>13, <3>1
    <3>3. V = <<>> \/ Len(V) > 0
      BY <3>2
    <3> QED BY <1>1, <3>1, <3>3
  <2>3. \A i \in 1 .. cmp_cnt' : FALSE
    BY <1>1
  <2> QED BY <1>1, <1>17, <2>1, <2>2, <2>3 DEF LineInv, Looked
<1>19. \A i \in 1 .. n - 1 : U[i] \notin seps
  BY <1>2, <1>7
<1>20. /\ U[n] \in seps
       /\ \A i \in 1 .. n - 1 : U[i] \notin seps
       /\ handled' = IF n > 2 THEN handled \o SubSeq(U, 1, n - 1) ELSE handled
       /\ Unhandled' = SubSeq(U, n + 1, Len(U))
  BY <1>8, <1>11, <1>16, <1>19 DEF U, N
<1>21. n \in 1 .. Len(U)
  BY <1>7 DEF U, N
<1> QED BY <1>1, <1>18, <1>20, <1>21 DEF U

\* A text that fills the buffer of the line is thrown away.
LEMMA LineReset ==
  ASSUME LineInv, Reset
  PROVE  /\ LineInv'
         /\ UNCHANGED <<chars, seps, handled>> /\ ~At("reset") /\ At("reset")'
         /\ Len(Unhandled) > DealLen
         /\ \A i \in 1 .. DealLen + 1 : Unhandled[i] \notin seps
         /\ Unhandled' = <<>>
<1> USE DEF At, Goto
<1> DEFINE U == Unhandled
           N == Len(Unhandled)
<1>1. /\ UNCHANGED <<recv_buf, chars, seps, read_p, cmp_cnt, handled, deal>>
      /\ task = "end" /\ task' = "reset" /\ cmp_cnt >= DealLen /\ write_p' = 0
  BY DEF Reset
<1>2. /\ LineTypeOK /\ U \in Seq(1 .. chars)
      /\ cmp_cnt < N
      /\ \A i \in 1 .. cmp_cnt : U[i] \notin seps
      /\ U[cmp_cnt + 1] \notin seps
      /\ deal = <<>>
  BY <1>1 DEF LineInv, Looked
<1>3. /\ RxLen \in Nat \ {0} /\ DealLen \in Nat \ {0}
      /\ cmp_cnt \in 0 .. RxLen - 1 /\ N \in 0 .. RxLen - 1 /\ read_p \in 0 .. RxLen - 1
  BY <1>2, LineFacts
<1> HIDE DEF U, N
<1>4. N > DealLen /\ \A i \in 1 .. DealLen + 1 : U[i] \notin seps
  BY <1>1, <1>2, <1>3
<1>5. LineTypeOK'
  BY <1>1, <1>2, <1>3 DEF LineTypeOK, Steps
<1>6. Unhandled' = <<>>
  <2>1. First' = 0
    BY <1>1 DEF First
  <2>2. (0 - 0 + RxLen) % RxLen = 0
    <3>1. /\ Distance(0, 0, RxLen) = IF 0 >= 0 THEN 0 - 0 ELSE 0 - 0 + RxLen
      BY <1>3, DistanceFacts
    <3> QED BY <3>1 DEF Distance
  <2> QED BY <1>1, <2>1, <2>2 DEF Unhandled
<1>7. LineInv'
  <2>1. read_p' = 0 \/ write_p' < read_p'
    BY <1>1, <1>3
  <2> QED BY <1>1, <1>2, <1>5, <1>6, <2>1 DEF LineInv, Looked
<1> QED BY <1>1, <1>4, <1>6, <1>7 DEF U, N

LEMMA LineResetEnd ==
  ASSUME LineInv, ResetEnd
  PROVE  LineInv' /\ UNCHANGED <<chars, seps, handled>> /\ Unhandled' = Unhandled /\ At("reset") /\ ~At("reset")'
<1> USE DEF At, Goto
<1>1. /\ UNCHANGED <<recv_buf, write_p, chars, seps, handled, deal>>
      /\ task = "reset" /\ task' = "while" /\ read_p' = 0 /\ cmp_cnt' = 0
  BY DEF ResetEnd, Ring
<1>2. First = 0 /\ First' = 0
  BY <1>1 DEF First
<1>3. Unhandled' = Unhandled
  BY <1>1, <1>2 DEF Unhandled
<1>4. LineTypeOK /\ Unhandled \in Seq(1 .. chars) /\ deal = <<>>
  BY <1>1 DEF LineInv
<1>5. LineTypeOK'
  <2>1. 0 \in 0 .. RxLen - 1
    BY UartAssumption
  <2> QED BY <1>1, <1>4, <2>1 DEF LineTypeOK, Steps
<1>6. 0 < Len(Unhandled) \/ Unhandled = <<>>
  <2>1. PICK V : V = Unhandled
    OBVIOUS
  <2>2. V \in Seq(1 .. chars)
    BY <1>4, <2>1
  <2>3. V = <<>> \/ Len(V) > 0
    BY <2>2
  <2> QED BY <2>1, <2>3
<1>7. LineInv'
  BY <1>1, <1>3, <1>4, <1>5, <1>6 DEF LineInv, Looked
<1> QED BY <1>1, <1>3, <1>7

\* The handler of the receiver: a byte is put behind the unread ones, or dropped
\* when the ring is full or read_p still has to move back.
LEMMA LineArrives ==
  ASSUME LineInv, Usart2
  PROVE  /\ LineInv'
         /\ chars' = chars + 1
         /\ seps' = seps \/ seps' = seps \cup {chars + 1}
         /\ UNCHANGED handled /\ (At("reset")' <=> At("reset"))
         /\ \/ Len(Unhandled) # RxLen - 1 /\ Unhandled' = Append(Unhandled, chars + 1)
            \/ (Len(Unhandled) = RxLen - 1 \/ At("reset")) /\ Unhandled' = Unhandled
<1> USE DEF At
<1> DEFINE w == RxLen
           g == First
           q == (write_p + 1) % RxLen
           U == Unhandled
           N == Len(Unhandled)
           e == chars + 1
           S == 0 .. chars'
<1>1. /\ chars < MaxChars /\ chars' = e
      /\ seps' = seps \/ seps' = seps \cup {e}
      /\ UNCHANGED <<read_p, cmp_cnt, task, deal, handled>>
      /\ \/ q # read_p /\ recv_buf' = [recv_buf EXCEPT ![write_p] = e] /\ write_p' = q
         \/ q = read_p /\ UNCHANGED <<recv_buf, write_p>>
  BY DEF Usart2, Arrive, StoreChar
<1>2. LineTypeOK /\ U \in Seq(1 .. chars)
  BY DEF LineInv
<1>3. /\ w \in Nat \ {0} /\ w > 1 /\ MaxChars \in Nat
      /\ g \in 0 .. w - 1 /\ write_p \in 0 .. w - 1 /\ read_p \in 0 .. w - 1
      /\ chars \in Nat /\ recv_buf \in RingType(w, 0 .. chars)
      /\ N = Distance(g, write_p, w) /\ N \in 0 .. w - 1 /\ N \in 0 .. w
      /\ N = IF write_p >= g THEN write_p - g ELSE write_p - g + w
      /\ U = Content(recv_buf, g, N, w)
  BY <1>2, LineFacts
<1>4. First' = g /\ g = IF task = "reset" THEN 0 ELSE read_p
  BY <1>1 DEF First
<1>5. Unhandled' = Content(recv_buf', g, Distance(g, write_p', w), w)
  BY <1>4 DEF Unhandled, Content, Place, Distance
<1>6. task = "reset" => read_p = 0 \/ write_p < read_p
  BY DEF LineInv
<1>7. /\ q \in 0 .. w - 1 /\ q = IF write_p + 1 < w THEN write_p + 1 ELSE write_p + 1 - w
  <2>1. 1 \in 0 .. w
    BY <1>3
  <2> QED BY <1>3, <2>1, RingIndex
<1>8. /\ q # g => Distance(g, q, w) = N + 1
      /\ q = g <=> N = w - 1
  <2>1. w \in Nat \ {0} /\ g \in 0 .. w - 1 /\ write_p \in 0 .. w - 1
    BY <1>3
  <2>2. N = Distance(g, write_p, w)
    BY <1>3
  <2>3. q = (write_p + 1) % w
    OBVIOUS
  <2> HIDE DEF w, g, q, N
  <2>4. /\ (write_p + 1) % w # g => Distance(g, (write_p + 1) % w, w) = Distance(g, write_p, w) + 1
        /\ (write_p + 1) % w = g <=> Distance(g, write_p, w) = w - 1
    BY <2>1, DistanceGrows
  <2> QED BY <2>2, <2>3, <2>4
<1>9. 0 .. chars \subseteq S /\ e \in S /\ 1 .. chars \subseteq 1 .. chars' /\ e \in 1 .. chars'
      /\ chars' \in 0 .. MaxChars
  BY <1>1, <1>3
<1>10. U \in Seq(1 .. chars')
  BY <1>2, <1>9, WiderSeq
<1>11. \A i \in 1 .. N : U[i] \in 1 .. chars /\ U[i] # e
  <2>1. \A i \in 1 .. N : U[i] \in 1 .. chars
    BY <1>2, ElementOfSeq
  <2>2. e \notin 1 .. chars
    BY <1>3
  <2> QED BY <2>1, <2>2
<1> HIDE DEF w, g, q, U, N, e, S
<1>12. deal' \in Seq(1 .. chars') /\ handled' \in Seq(1 .. chars') /\ seps' \subseteq 1 .. chars'
  <2>1. deal \in Seq(1 .. chars) /\ handled \in Seq(1 .. chars) /\ seps \subseteq 1 .. chars
    BY <1>2 DEF LineTypeOK
  <2>2. deal \in Seq(1 .. chars') /\ handled \in Seq(1 .. chars')
    BY <1>9, <2>1, WiderSeq
  <2> QED BY <1>1, <1>9, <2>1, <2>2
<1>13. recv_buf' \in RingType(w, S) /\ write_p' \in 0 .. w - 1
  <2>1. recv_buf \in [0 .. w - 1 -> S]
    BY <1>3, <1>9 DEF RingType
  <2> QED BY <1>1, <1>3, <1>7, <1>9, <2>1 DEF RingType
<1>14. LineTypeOK'
  <2>1. recv_buf' \in [0 .. RxLen - 1 -> 0 .. chars'] /\ write_p' \in 0 .. RxLen - 1
    BY <1>13 DEF RingType, w, S
  <2> QED BY <1>1, <1>2, <1>9, <1>12, <2>1 DEF LineTypeOK
<1>15. \/ N # w - 1 /\ Unhandled' = Append(U, e)
       \/ (N = w - 1 \/ task = "reset") /\ Unhandled' = U
  <2>1. CASE q # read_p
    <3>1. q # g
      BY <1>3, <1>4, <1>6, <1>7, <2>1
    <3>2. N # w - 1 /\ Distance(g, write_p', w) = N + 1 /\ N \in 0 .. w - 1
      BY <1>1, <1>3, <1>8, <2>1, <3>1
    <3>3. Content(recv_buf', g, N + 1, w) = Append(Content(recv_buf, g, N, w), e)
      <4>1. PICK p : p = (g + N) % w
        OBVIOUS
      <4>2. p = write_p
        <5>1. w \in Nat \ {0} /\ g \in 0 .. w - 1 /\ write_p \in 0 .. w - 1
          BY <1>3
        <5>2. (g + Distance(g, write_p, w)) % w = write_p
          BY <5>1, DistanceFacts
        <5> QED BY <1>3, <4>1, <5>2
      <4>3. PICK new : new = recv_buf'
        OBVIOUS
      <4>4. recv_buf \in [0 .. w - 1 -> S]
        BY <1>3, <1>9 DEF RingType
      <4>5. new = [recv_buf EXCEPT ![p] = e]
        BY <1>1, <2>1, <4>2, <4>3
      <4>6. p \in 0 .. w - 1
        BY <1>3, <4>2
      <4>7. new \in RingType(w, S)
        BY <1>13, <4>3
      <4>8. new[p] = e /\ \A r \in 0 .. w - 1 : r # p => new[r] = recv_buf[r]
        BY <4>4, <4>5, <4>6
      <4>9. w \in Nat \ {0}
        BY <1>3
      <4>10. g \in 0 .. w - 1
        BY <1>3
      <4>11. N \in 0 .. w - 1
        BY <1>3
      <4>12. recv_buf \in RingType(w, S)
        BY <4>4 DEF RingType
      <4>13. e \in S
        BY <1>9
      <4>14. Content(new, g, N + 1, w) = Append(Content(recv_buf, g, N, w), e)
        <5>1. new[p] = e
          BY <4>8
        <5>2. \A r \in 0 .. w - 1 : r # p => new[r] = recv_buf[r]
          BY <4>8
        <5> QED BY <4>1, <4>7, <4>9, <4>10, <4>11, <4>12, <4>13, <5>1, <5>2, ContentPut
      <4> QED BY <4>3, <4>14
    <3>4. N # w - 1
      BY <3>2
    <3>5. Unhandled' = Append(U, e)
      BY <1>3, <1>5, <3>2, <3>3
    <3> QED BY <3>4, <3>5
  <2>2. CASE q = read_p
    <3>1. N = w - 1 \/ task = "reset"
      BY <1>4, <1>8, <2>2
    <3>2. Unhandled' = U
      BY <1>1, <1>3, <1>5, <2>2
    <3> QED BY <3>1, <3>2
  <2> QED BY <2>1, <2>2
<1>16. PICK V : V = Unhandled'
  OBVIOUS
<1>17. /\ V \in Seq(1 .. chars') /\ Len(V) >= N
       /\ \A i \in 1 .. N : V[i] = U[i]
       /\ N = Len(U)
  <2>1. N = Len(U) /\ N \in Nat
    BY <1>3 DEF N, U
  <2>2. CASE V = U
    BY <1>10, <2>1, <2>2
  <2>3. CASE V = Append(U, e)
    BY <1>9, <1>10, <2>1, <2>3, AppendProperties
  <2> QED BY <1>15, <1>16, <2>2, <2>3
<1>18. /\ task # "reset" => cmp_cnt < N \/ (cmp_cnt = 0 /\ U = <<>> /\ task = "while")
       /\ task # "reset" => \A i \in 1 .. cmp_cnt : U[i] \notin seps
       /\ task \in Looked => U[cmp_cnt + 1] \notin seps
       /\ task = "room_wrapped" => read_p > write_p
       /\ task = "advance" =>
            /\ U[cmp_cnt + 1] \in seps
            /\ cmp_cnt < DealLen
            /\ deal = IF cmp_cnt >= 2 THEN SubSeq(U, 1, cmp_cnt) ELSE <<>>
       /\ task # "advance" => deal = <<>>
       /\ cmp_cnt \in Nat
  BY <1>2, LineFacts DEF LineInv, U, N
<1>19. \A i \in 1 .. N : V[i] = U[i] /\ (V[i] \in seps' <=> U[i] \in seps)
  BY <1>1, <1>11, <1>17
<1>20. \/ cmp_cnt < N /\ cmp_cnt + 1 \in 1 .. N /\ \A i \in 1 .. cmp_cnt : i \in 1 .. N
       \/ cmp_cnt = 0 /\ task = "while"
       \/ task = "reset"
  BY <1>3, <1>18
<1>21. SubSeq(V, 1, cmp_cnt) = SubSeq(U, 1, cmp_cnt) \/ task # "advance"
  <2>1. SUFFICES ASSUME task = "advance" PROVE SubSeq(V, 1, cmp_cnt) = SubSeq(U, 1, cmp_cnt)
    OBVIOUS
  <2>2. \A i \in 1 .. cmp_cnt : V[i] = U[i]
    BY <1>17, <1>20, <2>1
  <2>3. \A i \in 1 .. cmp_cnt : V[i] \in 1 .. chars' /\ U[i] \in 1 .. chars'
    <3>1. \A i \in 1 .. cmp_cnt : i \in 1 .. N
      BY <1>20, <2>1
    <3>2. \A i \in 1 .. N : U[i] \in 1 .. chars'
      BY <1>9, <1>11
    <3> QED BY <2>2, <3>1, <3>2
  <2> DEFINE s == SubSeq(V, 1, cmp_cnt)
             t == SubSeq(U, 1, cmp_cnt)
  <2>4. /\ s \in Seq(1 .. chars') /\ Len(s) = (IF 1 <= cmp_cnt THEN cmp_cnt - 1 + 1 ELSE 0)
        /\ \A i \in 1 .. cmp_cnt - 1 + 1 : s[i] = V[1 + i - 1]
    BY <1>18, <2>3, SubSeqProperties
  <2>5. /\ t \in Seq(1 .. chars') /\ Len(t) = (IF 1 <= cmp_cnt THEN cmp_cnt - 1 + 1 ELSE 0)
        /\ \A i \in 1 .. cmp_cnt - 1 + 1 : t[i] = U[1 + i - 1]
    BY <1>18, <2>3, SubSeqProperties
  <2> HIDE DEF s, t
  <2>6. cmp_cnt - 1 + 1 = cmp_cnt /\ \A i \in 1 .. cmp_cnt : 1 + i - 1 = i
    BY <1>18
  <2>7. Len(s) = Len(t) /\ \A i \in 1 .. Len(s) : s[i] = t[i]
    BY <1>18, <2>2, <2>4, <2>5, <2>6
  <2>8. s = t
    BY <2>4, <2>5, <2>7, SeqEqual
  <2> QED BY <2>8 DEF s, t
<1>22. /\ task # "reset" => cmp_cnt < Len(V) \/ (cmp_cnt = 0 /\ V = <<>> /\ task = "while")
       /\ task # "reset" => \A i \in 1 .. cmp_cnt : V[i] \notin seps'
       /\ task \in Looked => V[cmp_cnt + 1] \notin seps'
       /\ task = "advance" =>
            /\ V[cmp_cnt + 1] \in seps'
            /\ cmp_cnt < DealLen
            /\ deal = IF cmp_cnt >= 2 THEN SubSeq(V, 1, cmp_cnt) ELSE <<>>
  <2>1. V = <<>> \/ Len(V) > 0
    BY <1>17
  <2>2. task # "reset" => cmp_cnt < Len(V) \/ (cmp_cnt = 0 /\ V = <<>> /\ task = "while")
    BY <1>3, <1>17, <1>18, <2>1
  <2>3. task # "reset" => \A i \in 1 .. cmp_cnt : V[i] \notin seps'
    BY <1>18, <1>19, <1>20
  <2>4. task \in Looked => V[cmp_cnt + 1] \notin seps'
    BY <1>18, <1>19, <1>20 DEF Looked
  <2>5. task = "advance" => V[cmp_cnt + 1] \in seps'
    BY <1>18, <1>19, <1>20
  <2> QED BY <1>18, <1>21, <2>2, <2>3, <2>4, <2>5
<1>23. /\ task = "reset" => read_p = 0 \/ write_p' < read_p
       /\ task = "room_wrapped" => read_p > write_p'
  BY <1>1, <1>3, <1>6, <1>7, <1>18
<1>24. LineInv'
  <2>1. Unhandled' \in Seq(1 .. chars')
    BY <1>16, <1>17
  <2> QED BY <1>1, <1>14, <1>16, <1>18, <1>22, <1>23, <2>1 DEF LineInv
<1> QED BY <1>1, <1>15, <1>24 DEF U, N, w, e

LEMMA LineStart == LineInit => LineInv /\ Unhandled = <<>>
<1> SUFFICES ASSUME LineInit PROVE LineInv /\ Unhandled = <<>>
  OBVIOUS
<1>1. LineTypeOK
  <2>1. 0 \in 0 .. RxLen - 1 /\ 0 \in 0 .. MaxChars /\ 0 \in 0 .. 0
    BY UartAssumption
  <2>2. recv_buf \in [0 .. RxLen - 1 -> 0 .. chars]
    BY <2>1 DEF LineInit
  <2>3. deal \in Seq(1 .. chars) /\ handled \in Seq(1 .. chars) /\ seps \subseteq 1 .. chars
    BY DEF LineInit
  <2> QED BY <2>1, <2>2, <2>3 DEF LineInit, LineTypeOK, Steps
<1>2. Unhandled = <<>>
  <2>1. RxLen \in Nat \ {0} /\ 0 \in 0 .. RxLen - 1
    BY UartAssumption
  <2>2. Distance(0, 0, RxLen) = IF 0 >= 0 THEN 0 - 0 ELSE 0 - 0 + RxLen
    BY <2>1, DistanceFacts
  <2>3. (0 - 0 + RxLen) % RxLen = 0
    BY <2>2 DEF Distance
  <2> QED BY <2>3 DEF LineInit, Unhandled, First, At
<1> QED BY <1>1, <1>2 DEF LineInit, LineInv, At, Looked

-----------------------------------------------------------------------------
(* The three ends together.                                                *)

UartInv ==
  /\ ConsoleInv /\ WriteTypeOK /\ LineInv
  /\ scene \in {"console", "write", "line"}

LEMMA UartStart == Init => UartInv
BY ConsoleStart, WriteStart, LineStart DEF Init, UartInv

LEMMA ConsoleKept == ConsoleInv /\ UNCHANGED consoleVars => ConsoleInv'
BY DEF ConsoleInv, ConsoleTypeOK, Unread, RxLength, consoleVars, fifo

LEMMA WriteKept == WriteTypeOK /\ UNCHANGED writeVars => WriteTypeOK'
BY DEF WriteTypeOK, writeVars

LEMMA LineKept == LineInv /\ UNCHANGED lineVars => LineInv'
<1> SUFFICES ASSUME LineInv, UNCHANGED lineVars PROVE LineInv'
  OBVIOUS
<1>1. UNCHANGED <<recv_buf, write_p, read_p, cmp_cnt, task, deal, handled, chars, seps>>
  BY DEF lineVars
<1>2. Unhandled' = Unhandled
  BY <1>1 DEF Unhandled, First, At
<1>3. LineTypeOK'
  BY <1>1 DEF LineInv, LineTypeOK
<1> QED BY <1>1, <1>2, <1>3 DEF LineInv, At

LEMMA UartStep == UartInv /\ [Next]_vars => UartInv'
<1> SUFFICES ASSUME UartInv, [Next]_vars PROVE UartInv'
  OBVIOUS
<1>1. ConsoleInv /\ WriteTypeOK /\ LineInv
  BY DEF UartInv
<1>2. UNCHANGED scene
  BY DEF Next, vars, Console, Write, LineIn
<1>3. ConsoleInv'
  <2>1. CASE UNCHANGED consoleVars
    BY <1>1, <2>1, ConsoleKept
  <2>2. CASE ConsoleStep
    BY <1>1, <2>2, StoreEffect, ReadEffect, ConsoleOther DEF ConsoleStep, Interrupt, Shell
  <2> QED BY <2>1, <2>2 DEF Next, vars, Console, Write, LineIn
<1>4. WriteTypeOK'
  <2>1. CASE UNCHANGED writeVars
    BY <1>1, <2>1, WriteKept
  <2>2. CASE WriteStep
    BY <1>1, <2>2, WriteKeepsType
  <2> QED BY <2>1, <2>2 DEF Next, vars, Console, Write, LineIn
<1>5. LineInv'
  <2>1. CASE UNCHANGED lineVars
    BY <1>1, <2>1, LineKept
  <2>2. CASE LineStep
    BY <1>1, <2>2, LineLook, LineDeal, LineAdvance, LineReset, LineResetEnd, LineArrives
       DEF LineStep, PocTask
  <2> QED BY <2>1, <2>2 DEF Next, vars, Console, Write, LineIn
<1> QED BY <1>2, <1>3, <1>4, <1>5 DEF UartInv

\* What holds of the rings and of poc_task between any two steps, for every size
\* of the rings and of the buffer of a line.
THEOREM UartInvariance == FairSpec => []UartInv
BY UartStart, UartStep, PTL DEF FairSpec

\* Every variable has its type; the indices of both rings stay inside them and
\* what is read out of them are bytes that came.
THEOREM UartType == FairSpec => []TypeOK
<1>1. UartInv => TypeOK
  BY DEF UartInv, ConsoleInv, LineInv, TypeOK
<1> QED BY <1>1, UartInvariance, PTL

-----------------------------------------------------------------------------
(* The promise of ByteQueue is kept.                                       *)

LEMMA StartImplements == Init => Promise!Init
<1> SUFFICES ASSUME Init PROVE Promise!Init
  OBVIOUS
<1>1. Unread = <<>> /\ Unhandled = <<>>
  BY ConsoleStart, LineStart DEF Init
<1>2. Stored = 0 /\ chars = 0 /\ seps = {} /\ typed = <<>> /\ handled = <<>> /\ ~At("reset")
  BY DEF Init, ConsoleInit, LineInit, Stored, At
<1> QED BY <1>1, <1>2 DEF Promise!Init

LEMMA SizeFacts ==
  /\ [k \in {"console", "line"} |-> IF k = "line" THEN RxLen - 1 ELSE BufSize - 1]["console"] = BufSize - 1
  /\ [k \in {"console", "line"} |-> IF k = "line" THEN RxLen - 1 ELSE BufSize - 1]["line"] = RxLen - 1
OBVIOUS

\* What the promise sees, one variable at a time.
LEMMA SeenAlone ==
  ASSUME Line' <=> Line, At("reset")' <=> At("reset"), UNCHANGED seps,
         Line => UNCHANGED <<Unhandled, chars, handled>>,
         ~Line => UNCHANGED <<Unread, Stored, typed>>
  PROVE  UNCHANGED Promise!vars
<1>1. (IF Line THEN "line" ELSE "console")' = (IF Line THEN "line" ELSE "console")
  OBVIOUS
<1>2. (IF Line THEN Unhandled ELSE Unread)' = (IF Line THEN Unhandled ELSE Unread)
  OBVIOUS
<1>3. (IF Line THEN chars ELSE Stored)' = (IF Line THEN chars ELSE Stored)
  OBVIOUS
<1>4. (IF Line THEN handled ELSE typed)' = (IF Line THEN handled ELSE typed)
  OBVIOUS
<1>5. At("reset")' = At("reset")
  BY DEF At
<1>6. seps' = seps
  OBVIOUS
<1> QED BY <1>1, <1>2, <1>3, <1>4, <1>5, <1>6 DEF Promise!vars

LEMMA ConsoleImplements ==
  ASSUME UartInv, Console(ConsoleStep)
  PROVE  [Promise!Next]_(Promise!vars)
<1>1. ConsoleInv /\ ~Line /\ ~Line' /\ UNCHANGED <<lineVars, scene>> /\ ConsoleStep
  BY DEF Console, UartInv, Line
<1>2. UNCHANGED seps /\ (At("reset")' <=> At("reset"))
  BY <1>1 DEF lineVars, At
<1>3. CASE Receive \/ IsrEnter \/ IsrIndicate \/ ReadNothing \/ TakeSem
  <2>1. UNCHANGED <<typed, Unread, Stored>>
    BY <1>1, <1>3, ConsoleOther
  <2>2. UNCHANGED Promise!vars
    BY <1>1, <1>2, <2>1, SeenAlone
  <2> QED BY <2>2
<1>4. CASE IsrStore
  <2>1. rdr # 0 /\ rdr' = 0 /\ UNCHANGED <<came, typed>>
    BY <1>4 DEF IsrStore, StoreByte
  <2>2. rdr = came /\ came \in Nat
    BY <1>1, <2>1, ConsoleFacts DEF ConsoleInv
  <2>3. Stored + 1 = rdr /\ Stored' = Stored + 1
    BY <2>1, <2>2 DEF Stored
  <2>4. Promise!Come
    BY <1>1, <1>2, <2>1, <2>3 DEF Promise!Come, At
  <2>5. CASE Len(Unread) # BufSize - 1 /\ Unread' = Append(Unread, rdr)
    <3>1. Promise!Put
      BY <1>1, <2>3, <2>4, <2>5, SizeFacts DEF Promise!Put, Promise!Full
    <3> QED BY <3>1 DEF Promise!Next
  <2>6. CASE Len(Unread) = BufSize - 1 /\ Unread' = Append(Tail(Unread), rdr)
    <3>1. Promise!LoseOldest
      BY <1>1, <2>3, <2>4, <2>6, SizeFacts DEF Promise!LoseOldest, Promise!Full
    <3> QED BY <3>1 DEF Promise!Next
  <2> QED BY <1>1, <1>4, <2>5, <2>6, StoreEffect
<1>5. CASE ReadByte
  <2>1. Unread # <<>> /\ typed' = Append(typed, Head(Unread)) /\ Unread' = Tail(Unread)
    BY <1>1, <1>5, ReadEffect
  <2>2. UNCHANGED Stored
    BY <1>5 DEF ReadByte, Stored
  <2>3. Promise!TakeByte
    BY <1>1, <1>2, <2>1, <2>2 DEF Promise!TakeByte, At
  <2> QED BY <2>3 DEF Promise!Next
<1> QED BY <1>1, <1>3, <1>4, <1>5 DEF ConsoleStep, Interrupt, Shell

LEMMA LineImplements ==
  ASSUME UartInv, LineIn(LineStep)
  PROVE  [Promise!Next]_(Promise!vars)
<1>1. LineInv /\ Line /\ Line' /\ LineStep
  BY DEF LineIn, UartInv, Line
<1>2. CASE Usart2
  <2>1. /\ chars' = chars + 1
        /\ seps' = seps \/ seps' = seps \cup {chars + 1}
        /\ UNCHANGED handled /\ (At("reset")' <=> At("reset"))
    BY <1>1, <1>2, LineArrives
  <2>2. Promise!Come
    BY <1>1, <2>1 DEF Promise!Come, At
  <2>3. CASE Len(Unhandled) # RxLen - 1 /\ Unhandled' = Append(Unhandled, chars + 1)
    <3>1. Promise!Put
      BY <1>1, <2>2, <2>3, SizeFacts DEF Promise!Put, Promise!Full
    <3> QED BY <3>1 DEF Promise!Next
  <2>4. CASE (Len(Unhandled) = RxLen - 1 \/ At("reset")) /\ Unhandled' = Unhandled
    <3>1. Promise!LoseNewest
      BY <1>1, <2>2, <2>4, SizeFacts DEF Promise!LoseNewest, Promise!Full
    <3> QED BY <3>1 DEF Promise!Next
  <2> QED BY <1>1, <1>2, <2>3, <2>4, LineArrives
<1>3. CASE Loop \/ DealTooLong \/ LookOn \/ Ahead \/ Room \/ Wrapped \/ RoomWrapped \/ GiveUp \/ Deal
  <2>1. UNCHANGED <<chars, seps, handled>> /\ Unhandled' = Unhandled /\ ~At("reset") /\ ~At("reset")'
    BY <1>1, <1>3, LineLook, LineDeal
  <2>2. UNCHANGED Promise!vars
    BY <1>1, <2>1, SeenAlone
  <2> QED BY <2>2
<1>4. CASE Advance
  <2>1. /\ UNCHANGED <<chars, seps>> /\ ~At("reset") /\ ~At("reset")'
        /\ \E n \in 1 .. Len(Unhandled) :
             /\ Unhandled[n] \in seps
             /\ \A i \in 1 .. n - 1 : Unhandled[i] \notin seps
             /\ handled' = IF n > 2 THEN handled \o SubSeq(Unhandled, 1, n - 1) ELSE handled
             /\ Unhandled' = SubSeq(Unhandled, n + 1, Len(Unhandled))
    BY <1>1, <1>4, LineAdvance
  <2>2. Promise!TakeLine
    BY <1>1, <2>1 DEF Promise!TakeLine, At
  <2> QED BY <2>2 DEF Promise!Next
<1>5. CASE Reset
  <2>1. /\ UNCHANGED <<chars, seps, handled>> /\ At("reset")'
        /\ Len(Unhandled) > DealLen
        /\ \A i \in 1 .. DealLen + 1 : Unhandled[i] \notin seps
        /\ Unhandled' = <<>>
    BY <1>1, <1>5, LineReset
  <2>2. Promise!Flush
    BY <1>1, <2>1 DEF Promise!Flush
  <2> QED BY <2>2 DEF Promise!Next
<1>6. CASE ResetEnd
  <2>1. UNCHANGED <<chars, seps, handled>> /\ Unhandled' = Unhandled /\ At("reset") /\ ~At("reset")'
    BY <1>1, <1>6, LineResetEnd
  <2>2. Promise!Flushed
    BY <1>1, <2>1 DEF Promise!Flushed
  <2> QED BY <2>2 DEF Promise!Next
<1> QED BY <1>1, <1>2, <1>3, <1>4, <1>5, <1>6 DEF LineStep, PocTask

\* Nothing the writer, or nobody, does is seen by a reader.
LEMMA OtherImplements ==
  ASSUME UNCHANGED <<consoleVars, lineVars, scene>>
  PROVE  UNCHANGED Promise!vars
<1>1. UNCHANGED <<Unread, Stored, typed>>
  BY DEF consoleVars, fifo, Unread, RxLength, Stored
<1>2. UNCHANGED <<Unhandled, chars, seps, handled>> /\ (At("reset")' <=> At("reset"))
  BY DEF lineVars, Unhandled, First, At
<1>3. Line' <=> Line
  BY DEF Line
<1> QED BY <1>1, <1>2, <1>3, SeenAlone

\* Every behaviour of the two rings is one of the queue of bytes that their
\* readers are promised, for every size of the rings and of the buffer of a line
\* and wherever the interrupt comes in finsh_getchar and in poc_task.
THEOREM UartImplementsByteQueue == FairSpec => ImplementsByteQueue
<1>1. UartInv /\ [Next]_vars => [Promise!Next]_(Promise!vars)
  <2> SUFFICES ASSUME UartInv, [Next]_vars PROVE [Promise!Next]_(Promise!vars)
    OBVIOUS
  <2>1. CASE Console(ConsoleStep)
    BY <2>1, ConsoleImplements
  <2>2. CASE LineIn(LineStep)
    BY <2>2, LineImplements
  <2>3. CASE Write(WriteStep) \/ UNCHANGED vars
    <3>1. UNCHANGED <<consoleVars, lineVars, scene>>
      BY <2>3 DEF Write, vars
    <3> QED BY <3>1, OtherImplements
  <2> QED BY <2>1, <2>2, <2>3 DEF Next
<1>2. FairSpec => Promise!Init /\ [][Promise!Next]_(Promise!vars)
  BY <1>1, StartImplements, UartInvariance, PTL DEF FairSpec
<1> QED BY <1>2 DEF ImplementsByteQueue, Promise!Spec
=============================================================================
