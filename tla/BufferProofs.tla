---------------------------- MODULE BufferProofs -----------------------------
(***************************************************************************)
(* Proofs about the operators of CircularBuffer, for sequences of any      *)
(* length, any capacity, and any offset and count a client may ask for.    *)
(* Those about Console and the events API rest on them.                    *)
(***************************************************************************)
EXTENDS CircularBuffer, SequenceTheorems, TLAPS

\* Trimming keeps the newest entries.
LEMMA TrimFacts ==
    ASSUME NEW S, NEW s \in Seq(S), NEW capacity \in Nat \ {0}
    PROVE  /\ Trim(s, capacity) \in Seq(S)
           /\ Len(Trim(s, capacity)) = IF Len(s) > capacity THEN capacity ELSE Len(s)
           /\ \A i \in 1 .. Len(Trim(s, capacity)) :
                /\ Len(s) - Len(Trim(s, capacity)) + i \in 1 .. Len(s)
                /\ Trim(s, capacity)[i] = s[Len(s) - Len(Trim(s, capacity)) + i]
<1>1. Len(s) \in Nat /\ \A i \in 1 .. Len(s) : s[i] \in S
  OBVIOUS
<1>2. CASE Len(s) > capacity
  <2> DEFINE first == Len(s) - capacity + 1
  <2>1. first \in 1 .. Len(s)
    BY <1>1, <1>2
  <2>2. Trim(s, capacity) = SubSeq(s, first, Len(s))
    BY <1>2 DEF Trim
  <2>3. /\ SubSeq(s, first, Len(s)) = [i \in 1 .. capacity |-> s[first + i - 1]]
        /\ \A i \in 1 .. capacity : first + i - 1 \in 1 .. Len(s)
    BY <1>1, <1>2, <2>1
  <2>4. SubSeq(s, first, Len(s)) \in Seq(S) /\ Len(SubSeq(s, first, Len(s))) = capacity
    BY <1>1, <2>1, <2>3
  <2> QED BY <1>1, <1>2, <2>2, <2>3, <2>4
<1>3. CASE ~(Len(s) > capacity)
  <2>1. Trim(s, capacity) = s
    BY <1>3 DEF Trim
  <2> QED BY <1>1, <1>3, <2>1
<1> QED BY <1>2, <1>3

\* An entry that is pushed is the last one; what was there stays in order.
LEMMA PushFacts ==
    ASSUME NEW S, NEW s \in Seq(S), NEW x \in S, NEW capacity \in Nat \ {0}, Len(s) <= capacity
    PROVE  /\ PushTrimmed(s, x, capacity) \in Seq(S)
           /\ Len(s) <= Len(PushTrimmed(s, x, capacity))
           /\ Len(PushTrimmed(s, x, capacity)) <= capacity
           /\ \A i \in 1 .. Len(PushTrimmed(s, x, capacity)) : \E k \in 1 .. Len(s) + 1 :
                /\ k = Len(s) + 1 - Len(PushTrimmed(s, x, capacity)) + i
                /\ PushTrimmed(s, x, capacity)[i] = IF k = Len(s) + 1 THEN x ELSE s[k]
<1> DEFINE t == Append(s, x)
<1>1. t \in Seq(S) /\ Len(t) = Len(s) + 1 /\ Len(s) \in Nat
  OBVIOUS
<1>2. \A k \in 1 .. Len(s) + 1 : t[k] = IF k = Len(s) + 1 THEN x ELSE s[k]
  OBVIOUS
<1> DEFINE u == Trim(t, capacity)
<1> HIDE DEF t
<1>3. /\ u \in Seq(S)
      /\ Len(u) = IF Len(t) > capacity THEN capacity ELSE Len(t)
      /\ \A i \in 1 .. Len(u) : Len(t) - Len(u) + i \in 1 .. Len(t) /\ u[i] = t[Len(t) - Len(u) + i]
  BY <1>1, TrimFacts
<1>4. PushTrimmed(s, x, capacity) = u
  BY DEF PushTrimmed, t
<1> HIDE DEF u
<1>5. Len(u) \in Nat /\ Len(s) <= Len(u) /\ Len(u) <= capacity
  BY <1>1, <1>3
<1>6. ASSUME NEW i \in 1 .. Len(u)
      PROVE  \E k \in 1 .. Len(s) + 1 : /\ k = Len(s) + 1 - Len(u) + i
                                         /\ u[i] = IF k = Len(s) + 1 THEN x ELSE s[k]
  <2> DEFINE k == Len(s) + 1 - Len(u) + i
  <2>1. k = Len(t) - Len(u) + i
    BY <1>1, <1>5
  <2>2. k \in 1 .. Len(s) + 1 /\ u[i] = t[k]
    BY <1>1, <1>3, <2>1
  <2> HIDE DEF k
  <2>3. u[i] = IF k = Len(s) + 1 THEN x ELSE s[k]
    BY <1>2, <2>2
  <2> QED BY <2>2, <2>3 DEF k
<1> QED BY <1>3, <1>4, <1>5, <1>6

-----------------------------------------------------------------------------
\* Trimming twice is trimming once, to the smaller capacity: what
\* setMaxSize() drops does not depend on the limits in force before.
THEOREM TrimTwice ==
    ASSUME NEW S, NEW s \in Seq(S), NEW a \in Nat \ {0}, NEW b \in Nat \ {0}
    PROVE  Trim(Trim(s, a), b) = Trim(s, Least(a, b))
<1> DEFINE t == Trim(s, a)
           u == Trim(t, b)
           v == Trim(s, Least(a, b))
<1>1. Least(a, b) \in Nat \ {0} /\ Least(a, b) <= a /\ Least(a, b) <= b
      /\ (Least(a, b) = a \/ Least(a, b) = b)
  BY DEF Least
<1>2. /\ t \in Seq(S)
      /\ Len(t) = IF Len(s) > a THEN a ELSE Len(s)
      /\ \A i \in 1 .. Len(t) : Len(s) - Len(t) + i \in 1 .. Len(s) /\ t[i] = s[Len(s) - Len(t) + i]
  BY TrimFacts
<1>3. /\ v \in Seq(S)
      /\ Len(v) = IF Len(s) > Least(a, b) THEN Least(a, b) ELSE Len(s)
      /\ \A i \in 1 .. Len(v) : v[i] = s[Len(s) - Len(v) + i]
  BY <1>1, TrimFacts
<1> HIDE DEF t, v
<1>4. /\ u \in Seq(S)
      /\ Len(u) = IF Len(t) > b THEN b ELSE Len(t)
      /\ \A i \in 1 .. Len(u) : Len(t) - Len(u) + i \in 1 .. Len(t) /\ u[i] = t[Len(t) - Len(u) + i]
  BY <1>2, TrimFacts
<1> HIDE DEF u
<1>5. Len(s) \in Nat /\ Len(t) \in Nat /\ Len(u) \in Nat /\ Len(v) \in Nat
  BY <1>2, <1>3, <1>4
<1>6. Len(u) = Len(v)
  BY <1>1, <1>2, <1>3, <1>4, <1>5
<1>7. ASSUME NEW i \in 1 .. Len(u)
      PROVE  u[i] = v[i]
  <2>1. u[i] = t[Len(t) - Len(u) + i] /\ Len(t) - Len(u) + i \in 1 .. Len(t)
    BY <1>4
  <2>2. t[Len(t) - Len(u) + i] = s[Len(s) - Len(t) + (Len(t) - Len(u) + i)]
    BY <1>2, <2>1
  <2>3. Len(s) - Len(t) + (Len(t) - Len(u) + i) = Len(s) - Len(v) + i
    BY <1>5, <1>6
  <2> QED BY <1>3, <1>6, <2>1, <2>2, <2>3
<1>8. u = v
  BY <1>3, <1>4, <1>6, <1>7, SeqEqual
<1> QED BY <1>8 DEF t, u, v

-----------------------------------------------------------------------------
\* Where a page starts, and how many entries it has.
First(offset) == IF offset < 0 THEN 0 ELSE offset

PageSize(s, offset, count) ==
    IF First(offset) >= Len(s) THEN 0
    ELSE IF count <= 0 THEN Len(s) - First(offset)
         ELSE Least(count, Len(s) - First(offset))

\* GetRange returns the entries from First on that are there.
LEMMA GetRangeFacts ==
    ASSUME NEW S, NEW s \in Seq(S), NEW offset \in Int, NEW count \in Int
    PROVE  /\ GetRange(s, offset, count) \in Seq(S)
           /\ Len(GetRange(s, offset, count)) = PageSize(s, offset, count)
           /\ \A i \in 1 .. PageSize(s, offset, count) :
                GetRange(s, offset, count)[i] = s[First(offset) + i]
           /\ GetRange(s, offset, count) # <<>> =>
                (IF offset < 0 THEN 0 ELSE offset) + Len(GetRange(s, offset, count)) <= Len(s)
<1> DEFINE first == First(offset)
           wanted == IF count <= 0 THEN Len(s) - first ELSE Least(count, Len(s) - first)
<1>1. CASE first >= Len(s)
  <2>1. GetRange(s, offset, count) = <<>> /\ PageSize(s, offset, count) = 0
    BY <1>1 DEF GetRange, PageSize, First
  <2> QED BY <2>1
<1>2. CASE ~(first >= Len(s))
  <2>1. /\ GetRange(s, offset, count) = SubSeq(s, first + 1, first + wanted)
        /\ PageSize(s, offset, count) = wanted
    BY <1>2 DEF GetRange, PageSize, First
  <2>2. Len(s) \in Nat /\ first \in Nat /\ Len(s) - first \in Nat
    BY <1>2 DEF First
  <2>3. wanted \in Nat /\ wanted <= Len(s) - first
    <3> HIDE DEF first
    <3> QED BY <2>2 DEF Least
  <2>4. first = IF offset < 0 THEN 0 ELSE offset
    BY DEF First
  <2> HIDE DEF first, wanted
  <2>5. SubSeq(s, first + 1, first + wanted) \in Seq(S)
        /\ Len(SubSeq(s, first + 1, first + wanted)) = wanted
        /\ \A i \in 1 .. wanted : SubSeq(s, first + 1, first + wanted)[i] = s[first + i]
    BY <2>2, <2>3
  <2> QED BY <2>1, <2>2, <2>3, <2>4, <2>5 DEF first
<1> QED BY <1>1, <1>2

\* A client that asks for a page of c entries, and for the next one where
\* that page ended, misses no entry and gets none twice: the two pages are
\* what one larger request answers, as long as nothing is pushed in between.
THEOREM PagesJoin ==
    ASSUME NEW S, NEW s \in Seq(S), NEW offset \in Nat, NEW c \in Nat \ {0}, NEW d \in Int
    PROVE  GetRange(s, offset, c) \o GetRange(s, offset + c, d)
             = GetRange(s, offset, IF d <= 0 THEN 0 ELSE c + d)
<1> DEFINE both == IF d <= 0 THEN 0 ELSE c + d
           p == GetRange(s, offset, c)
           q == GetRange(s, offset + c, d)
           r == GetRange(s, offset, both)
           m == PageSize(s, offset, c)
           n == PageSize(s, offset + c, d)
           k == PageSize(s, offset, both)
<1>1. both \in Int /\ offset + c \in Nat /\ offset \in Int /\ c \in Int
  OBVIOUS
<1>2. First(offset) = offset /\ First(offset + c) = offset + c
  BY DEF First
<1>3. p \in Seq(S) /\ Len(p) = m /\ \A i \in 1 .. m : p[i] = s[offset + i]
  BY <1>1, <1>2, GetRangeFacts
<1>4. q \in Seq(S) /\ Len(q) = n /\ \A i \in 1 .. n : q[i] = s[offset + c + i]
  BY <1>1, <1>2, GetRangeFacts
<1>5. r \in Seq(S) /\ Len(r) = k /\ \A i \in 1 .. k : r[i] = s[offset + i]
  BY <1>1, <1>2, GetRangeFacts
<1>6. m \in Nat /\ n \in Nat /\ m + n = k /\ (n # 0 => m = c)
  BY <1>1, <1>2 DEF PageSize, Least
<1> HIDE DEF p, q, r, m, n, k, both
<1>7. /\ p \o q \in Seq(S)
      /\ Len(p \o q) = k
      /\ \A i \in 1 .. k : (p \o q)[i] = IF i <= m THEN p[i] ELSE q[i - m]
  BY <1>3, <1>4, <1>6, ConcatProperties
<1>8. ASSUME NEW i \in 1 .. k
      PROVE  (p \o q)[i] = r[i]
  <2>1. CASE i <= m
    <3>1. i \in 1 .. m
      BY <1>6, <2>1
    <3> QED BY <1>3, <1>5, <1>7, <2>1, <3>1
  <2>2. CASE ~(i <= m)
    <3>1. i - m \in 1 .. n /\ m = c /\ offset + c + (i - m) = offset + i
      BY <1>6, <2>2
    <3> QED BY <1>4, <1>5, <1>7, <2>2, <3>1
  <2> QED BY <2>1, <2>2
<1>9. p \o q = r
  BY <1>5, <1>7, <1>8, SeqEqual
<1> QED BY <1>9 DEF p, q, r, both
=============================================================================
