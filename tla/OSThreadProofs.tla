--------------------------- MODULE OSThreadProofs ---------------------------
(* The guest kernel's queues, states and fibers never contradict each      *)
(* other, for every set of threads, priorities and wait queues, whatever   *)
(* the guest program calls and however many of its fibers are switched out *)
(* in the middle of a call.                                                *)
EXTENDS OSThread, FiniteSetTheorems, SequenceTheorems, WellFoundedInduction, TLAPS

-----------------------------------------------------------------------------
(* The least natural number, and induction for a set of naturals            *)

LEMMA NatMin ==
  ASSUME NEW T, T \subseteq Nat, T # {}
  PROVE  \E n \in T : \A m \in T : n <= m
<1>1. \A x, y \in Nat : x < y => <<x, y>> \in OpToRel(<,Nat)
  BY ZenonT(30) DEF OpToRel
<1>2. \E n \in T : \A m \in T : ~ (<<m,n>> \in OpToRel(<,Nat))
  BY NatLessThanWellFounded, WFMin, Zenon
<1>3. \E n \in T : \A m \in T : ~ (m < n)
  BY <1>1, <1>2, ZenonT(30)
<1> QED BY <1>3

LEMMA Induct ==
  ASSUME NEW T, 0 \in T, \A n \in Nat : n \in T => n + 1 \in T
  PROVE  Nat \subseteq T
<1> SUFFICES ASSUME Nat \ T # {} PROVE FALSE OBVIOUS
<1>1. PICK n \in Nat \ T : \A m \in Nat \ T : n <= m
  <2> Nat \ T \subseteq Nat OBVIOUS
  <2> QED BY NatMin, Zenon
<1>2. n # 0 OBVIOUS
<1>3. n - 1 \in Nat BY <1>2
<1> QED BY <1>1, <1>3

-----------------------------------------------------------------------------
(* What Kept keeps of a list: its members in S, in the order they had.      *)
(* KeptBy is the equation of its recursive function on 0..n.                *)

KeptBy(h, s, S, n) ==
    h = [i \in 0..n |-> IF i = 0 THEN <<>>
                        ELSE IF s[i] \in S THEN Append(h[i - 1], s[i]) ELSE h[i - 1]]

LEMMA KeptIsKeptBy ==
  ASSUME NEW s, NEW S
  PROVE  Kept(s, S) = (CHOOSE h : KeptBy(h, s, S, Len(s)))[Len(s)]
  BY DEF Kept, KeptBy

LEMMA KeptDefined ==
  ASSUME NEW s, NEW S
  PROVE  \A n \in Nat : \E h : KeptBy(h, s, S, n)
<1> DEFINE N == {n \in Nat : \E h : KeptBy(h, s, S, n)}
<1>1. 0 \in N
  <2>1. KeptBy([i \in 0..0 |-> <<>>], s, S, 0)
    BY DEF KeptBy
  <2> QED BY <2>1
<1>2. ASSUME NEW n \in Nat, n \in N PROVE n + 1 \in N
  <2>1. PICK h : KeptBy(h, s, S, n)
    BY <1>2
  <2> DEFINE k == [i \in 0..n + 1 |->
                     IF i <= n THEN h[i]
                     ELSE IF s[i] \in S THEN Append(h[n], s[i]) ELSE h[n]]
  <2>2. ASSUME NEW i \in 0..n + 1
        PROVE  k[i] = IF i = 0 THEN <<>>
                      ELSE IF s[i] \in S THEN Append(k[i - 1], s[i]) ELSE k[i - 1]
    <3>1. \A j \in 0..n : k[j] = h[j]
      OBVIOUS
    <3>2. CASE i \in 0..n
      <4>1. i # 0 => i - 1 \in 0..n
        BY <3>2
      <4>2. h[i] = IF i = 0 THEN <<>>
                   ELSE IF s[i] \in S THEN Append(h[i - 1], s[i]) ELSE h[i - 1]
        BY <2>1, <3>2 DEF KeptBy
      <4> HIDE DEF k
      <4> QED BY <3>1, <3>2, <4>1, <4>2
    <3>3. CASE i = n + 1
      BY <3>3
    <3> QED BY <3>2, <3>3
  <2>3. KeptBy(k, s, S, n + 1)
    <3>1. k = [i \in 0..n + 1 |-> k[i]]
      OBVIOUS
    <3> HIDE DEF k
    <3> QED BY <2>2, <3>1 DEF KeptBy
  <2> HIDE DEF k
  <2> QED BY <2>3
<1> HIDE DEF N
<1>3. Nat \subseteq N
  BY <1>1, <1>2, Induct
<1> QED BY <1>3 DEF N

\* k is what S keeps of the first n members of s
Keeping(k, s, S, n) ==
    /\ \A i \in 1..Len(k) : \E a \in 1..n : k[i] = s[a] /\ s[a] \in S
    /\ \A a \in 1..n : s[a] \in S => \E i \in 1..Len(k) : k[i] = s[a]
    /\ \A i, j \in 1..Len(k) : i < j =>
         \E a, b \in 1..n : a < b /\ k[i] = s[a] /\ k[j] = s[b]

LEMMA KeptKeeps ==
  ASSUME NEW T, NEW s \in Seq(T), NEW S
  PROVE  Kept(s, S) \in Seq(T) /\ Keeping(Kept(s, S), s, S, Len(s))
<1> DEFINE h == CHOOSE h : KeptBy(h, s, S, Len(s))
<1>1. Len(s) \in Nat /\ \A i \in 1..Len(s) : s[i] \in T
  BY LenProperties
<1>2. KeptBy(h, s, S, Len(s)) /\ Kept(s, S) = h[Len(s)]
  BY <1>1, KeptDefined, KeptIsKeptBy
<1> HIDE DEF h
<1> DEFINE N == {n \in Nat : n <= Len(s) => h[n] \in Seq(T) /\ Keeping(h[n], s, S, n)}
<1>3. 0 \in N
  <2>1. h[0] = <<>>
    <3>1. 0 \in 0..Len(s)
      BY <1>1
    <3> QED BY <1>2, <3>1 DEF KeptBy
  <2>2. Keeping(<<>>, s, S, 0) /\ <<>> \in Seq(T)
    BY EmptySeq DEF Keeping
  <2> QED BY <2>1, <2>2
<1>4. ASSUME NEW n \in Nat, n \in N PROVE n + 1 \in N
  <2> SUFFICES ASSUME n + 1 <= Len(s)
               PROVE  h[n + 1] \in Seq(T) /\ Keeping(h[n + 1], s, S, n + 1)
    OBVIOUS
  <2>1. h[n] \in Seq(T) /\ Keeping(h[n], s, S, n)
    BY <1>1, <1>4
  <2>2. h[n + 1] = IF s[n + 1] \in S THEN Append(h[n], s[n + 1]) ELSE h[n]
    <3>1. n + 1 \in 0..Len(s) /\ n + 1 # 0 /\ (n + 1) - 1 = n
      BY <1>1
    <3>2. \A i \in 0..Len(s) : h[i] = IF i = 0 THEN <<>>
                   ELSE IF s[i] \in S THEN Append(h[i - 1], s[i]) ELSE h[i - 1]
      BY <1>2, Zenon DEF KeptBy
    <3>3. h[n + 1] = IF s[n + 1] \in S THEN Append(h[(n + 1) - 1], s[n + 1]) ELSE h[(n + 1) - 1]
      BY <3>1, <3>2, Zenon
    <3> QED BY <3>1, <3>3, Zenon
  <2>3. CASE s[n + 1] \notin S
    <3> DEFINE k == h[n]
    <3>1. k \in Seq(T) /\ Keeping(k, s, S, n) /\ h[n + 1] = k /\ Len(k) \in Nat
      BY <2>1, <2>2, <2>3, LenProperties
    <3> HIDE DEF k
    <3>2. Keeping(k, s, S, n + 1)
      <4>1. 1..n \subseteq 1..n + 1 /\ \A a \in 1..n + 1 : s[a] \in S => a \in 1..n
        BY <2>3
      <4> QED BY <3>1, <4>1 DEF Keeping
    <3> QED BY <3>1, <3>2
  <2>4. CASE s[n + 1] \in S
    <3> DEFINE k == h[n]
               m == Append(k, s[n + 1])
    <3>1. s[n + 1] \in T
      BY <1>1
    <3>2. /\ m \in Seq(T) /\ Len(m) = Len(k) + 1 /\ Len(k) \in Nat
          /\ \A i \in 1..Len(k) : m[i] = k[i]
          /\ m[Len(k) + 1] = s[n + 1]
      BY <2>1, <3>1, AppendProperties, LenProperties
    <3>3. h[n + 1] = m
      BY <2>2, <2>4
    <3> HIDE DEF k, m
    <3>4. Keeping(k, s, S, n)
      BY <2>1 DEF k
    <3>k. /\ \A i \in 1..Len(k) : \E a \in 1..n : k[i] = s[a] /\ s[a] \in S
          /\ \A a \in 1..n : s[a] \in S => \E i \in 1..Len(k) : k[i] = s[a]
          /\ \A i, j \in 1..Len(k) : i < j =>
               \E a, b \in 1..n : a < b /\ k[i] = s[a] /\ k[j] = s[b]
      BY <3>4 DEF Keeping
    <3>l. /\ \A i \in 1..Len(m) : i = Len(k) + 1 \/ i \in 1..Len(k)
          /\ \A a \in 1..n : a \in 1..n + 1 /\ a < n + 1
          /\ n + 1 \in 1..n + 1
      BY <3>2
    <3>5. \A i \in 1..Len(m) : \E a \in 1..n + 1 : m[i] = s[a] /\ s[a] \in S
      <4> TAKE i \in 1..Len(m)
      <4>1. CASE i = Len(k) + 1
        BY <2>4, <3>2, <4>1
      <4>2. CASE i \in 1..Len(k)
        <5>1. PICK a \in 1..n : k[i] = s[a] /\ s[a] \in S
          BY <3>k, <4>2, Zenon
        <5> QED BY <3>2, <3>l, <4>2, <5>1
      <4> QED BY <3>l, <4>1, <4>2
    <3>6. \A a \in 1..n + 1 : s[a] \in S => \E i \in 1..Len(m) : m[i] = s[a]
      <4> TAKE a \in 1..n + 1
      <4>1. CASE a = n + 1
        BY <3>2, <4>1
      <4>2. CASE a \in 1..n
        BY <3>2, <3>k, <4>2
      <4> QED BY <4>1, <4>2
    <3>7. ASSUME NEW i \in 1..Len(m), NEW j \in 1..Len(m), i < j
          PROVE  \E a, b \in 1..n + 1 : a < b /\ m[i] = s[a] /\ m[j] = s[b]
      <4>1. CASE j = Len(k) + 1
        <5>1. PICK a \in 1..n : k[i] = s[a]
          <6>1. i \in 1..Len(k)
            BY <3>2, <3>7, <4>1
          <6> QED BY <3>k, <6>1
        <5>2. i \in 1..Len(k)
          BY <3>2, <3>7, <4>1
        <5>3. m[i] = s[a] /\ m[j] = s[n + 1]
          BY <3>2, <4>1, <5>1, <5>2
        <5> QED BY <3>l, <5>3
      <4>2. CASE j \in 1..Len(k)
        <5>1. PICK a \in 1..n, b \in 1..n : a < b /\ k[i] = s[a] /\ k[j] = s[b]
          <6>1. i \in 1..Len(k)
            BY <3>2, <3>7, <4>2
          <6> QED BY <3>k, <3>7, <4>2, <6>1, Zenon
        <5>2. m[i] = k[i] /\ m[j] = k[j]
          BY <3>2, <3>7, <4>2
        <5> QED BY <3>l, <5>1, <5>2, Zenon
      <4> QED BY <3>l, <4>1, <4>2
    <3>8. Keeping(m, s, S, n + 1)
      BY <3>5, <3>6, <3>7 DEF Keeping
    <3> QED BY <3>2, <3>3, <3>8
  <2> QED BY <2>3, <2>4
<1> HIDE DEF N
<1>5. Nat \subseteq N
  BY <1>3, <1>4, Induct
<1> QED BY <1>1, <1>2, <1>5 DEF N

-----------------------------------------------------------------------------
(* Lists of threads: who is in them, and in which order.                    *)

\* No thread twice, and none behind a less urgent one.
InOrder(s, prio) ==
    \A i, j \in 1..Len(s) : i < j => s[i] # s[j] /\ prio[s[i]] <= prio[s[j]]

Priorities == [Thread -> 0..Lowest]

LEMMA KeptFits ==
  ASSUME NEW s \in Seq(Thread), NEW S
  PROVE  /\ Kept(s, S) \in Seq(Thread)
         /\ \A t : Contains(Kept(s, S), t) <=> Contains(s, t) /\ t \in S
         /\ \A prio : InOrder(s, prio) => InOrder(Kept(s, S), prio)
<1> DEFINE k == Kept(s, S)
<1>1. k \in Seq(Thread) /\ Keeping(k, s, S, Len(s))
  BY KeptKeeps
<1> HIDE DEF k
<1>2. /\ \A i \in 1..Len(k) : \E a \in 1..Len(s) : k[i] = s[a] /\ s[a] \in S
      /\ \A a \in 1..Len(s) : s[a] \in S => \E i \in 1..Len(k) : k[i] = s[a]
      /\ \A i, j \in 1..Len(k) : i < j =>
           \E a, b \in 1..Len(s) : a < b /\ k[i] = s[a] /\ k[j] = s[b]
  BY <1>1 DEF Keeping
<1>3. \A t : Contains(k, t) <=> Contains(s, t) /\ t \in S
  BY <1>2, Zenon DEF Contains
<1>4. ASSUME NEW prio, InOrder(s, prio) PROVE InOrder(k, prio)
  <2> SUFFICES ASSUME NEW i \in 1..Len(k), NEW j \in 1..Len(k), i < j
               PROVE  k[i] # k[j] /\ prio[k[i]] <= prio[k[j]]
    BY DEF InOrder
  <2>1. PICK a \in 1..Len(s), b \in 1..Len(s) : a < b /\ k[i] = s[a] /\ k[j] = s[b]
    BY <1>2, Zenon
  <2> QED BY <1>4, <2>1, Zenon DEF InOrder
<1> QED BY <1>1, <1>3, <1>4 DEF k

LEMMA EmptyFits ==
  /\ <<>> \in Seq(Thread)
  /\ \A t : ~ Contains(<<>>, t)
  /\ \A prio : InOrder(<<>>, prio)
  BY EmptySeq DEF Contains, InOrder

LEMMA HeadFits ==
  ASSUME NEW s \in Seq(Thread), s # <<>>
  PROVE  Head(s) \in Thread /\ Head(s) = s[1] /\ Contains(s, Head(s))
  BY LenProperties, HeadTailProperties, EmptySeq DEF Contains

LEMMA EmptyHasNone ==
  ASSUME NEW s \in Seq(Thread)
  PROVE  s = <<>> <=> \A t \in Thread : ~ Contains(s, t)
  BY HeadFits, EmptyFits

LEMMA SameOrder ==
  ASSUME NEW s, NEW prio, NEW other, InOrder(s, prio),
         \A u : Contains(s, u) => other[u] = prio[u]
  PROVE  InOrder(s, other)
<1>1. \A i \in 1..Len(s) : other[s[i]] = prio[s[i]]
  BY DEF Contains
<1> QED BY <1>1, Zenon DEF InOrder

LEMMA TailFits ==
  ASSUME NEW s \in Seq(Thread), s # <<>>, NEW prio, InOrder(s, prio)
  PROVE  /\ Tail(s) \in Seq(Thread)
         /\ \A t : Contains(Tail(s), t) <=> Contains(s, t) /\ t # Head(s)
         /\ InOrder(Tail(s), prio)
         /\ \A t : Contains(s, t) => prio[Head(s)] <= prio[t] \/ t = Head(s)
<1> DEFINE r == Tail(s)
<1>1. /\ r \in Seq(Thread) /\ Len(r) = Len(s) - 1 /\ Len(s) \in Nat \ {0}
      /\ \A i \in 1..Len(r) : r[i] = s[i + 1] /\ i + 1 \in 1..Len(s)
      /\ \A i \in 1..Len(s) : i = 1 \/ (i - 1 \in 1..Len(r) /\ (i - 1) + 1 = i)
      /\ 1 \in 1..Len(s) /\ Head(s) = s[1]
  BY HeadTailProperties, EmptySeq, LenProperties, HeadFits
<1> HIDE DEF r
<1>2. \A i \in 1..Len(s) : i # 1 => s[1] # s[i] /\ prio[s[1]] <= prio[s[i]]
  <2> TAKE i \in 1..Len(s)
  <2> HAVE i # 1
  <2>1. 1 < i
    BY <1>1
  <2> QED BY <1>1, <2>1, Zenon DEF InOrder
<1>3. ASSUME NEW t PROVE Contains(r, t) <=> Contains(s, t) /\ t # Head(s)
  <2>1. ASSUME NEW i \in 1..Len(r), r[i] = t PROVE Contains(s, t) /\ t # Head(s)
    <3>1. i + 1 \in 1..Len(s) /\ i + 1 # 1 /\ s[i + 1] = t
      BY <1>1, <2>1
    <3> QED BY <1>1, <1>2, <3>1, Zenon DEF Contains
  <2>2. ASSUME NEW i \in 1..Len(s), s[i] = t, t # Head(s) PROVE Contains(r, t)
    <3>1. i - 1 \in 1..Len(r) /\ r[i - 1] = t
      BY <1>1, <2>2
    <3> QED BY <3>1, Zenon DEF Contains
  <2> QED BY <2>1, <2>2, Zenon DEF Contains
<1>4. InOrder(r, prio)
  <2> SUFFICES ASSUME NEW i \in 1..Len(r), NEW j \in 1..Len(r), i < j
               PROVE  r[i] # r[j] /\ prio[r[i]] <= prio[r[j]]
    BY DEF InOrder
  <2>1. i + 1 \in 1..Len(s) /\ j + 1 \in 1..Len(s) /\ i + 1 < j + 1
    BY <1>1
  <2>2. s[i + 1] # s[j + 1] /\ prio[s[i + 1]] <= prio[s[j + 1]]
    BY <2>1, Zenon DEF InOrder
  <2> QED BY <1>1, <2>2
<1>5. \A t : Contains(s, t) => prio[Head(s)] <= prio[t] \/ t = Head(s)
  BY <1>1, <1>2 DEF Contains
<1> QED BY <1>1, <1>3, <1>4, <1>5 DEF r

LEMMA ConcatFits ==
  ASSUME NEW s \in Seq(Thread), NEW r \in Seq(Thread)
  PROVE  /\ s \o r \in Seq(Thread)
         /\ \A t : Contains(s \o r, t) <=> Contains(s, t) \/ Contains(r, t)
         /\ \A prio : /\ InOrder(s, prio) /\ InOrder(r, prio)
                      /\ \A t, u : Contains(s, t) /\ Contains(r, u) =>
                            t # u /\ prio[t] <= prio[u]
                      => InOrder(s \o r, prio)
<1> DEFINE m == s \o r
           n == Len(s)
<1>1. /\ m \in Seq(Thread) /\ Len(m) = n + Len(r) /\ n \in Nat /\ Len(r) \in Nat
      /\ \A i \in 1..n + Len(r) : m[i] = IF i <= n THEN s[i] ELSE r[i - n]
  BY ConcatProperties, LenProperties
<1> HIDE DEF m, n
<1>2. \A i \in 1..Len(m) : \/ i \in 1..Len(s) /\ m[i] = s[i]
                           \/ i > Len(s) /\ i - n \in 1..Len(r) /\ m[i] = r[i - n]
  BY <1>1 DEF n
<1>3. ASSUME NEW t PROVE Contains(m, t) <=> Contains(s, t) \/ Contains(r, t)
  <2>1. Contains(m, t) => Contains(s, t) \/ Contains(r, t)
    BY <1>2, Zenon DEF Contains
  <2>2. ASSUME NEW i \in 1..Len(s), s[i] = t PROVE Contains(m, t)
    <3>1. i \in 1..Len(m) /\ m[i] = t
      BY <1>1, <2>2 DEF n
    <3> QED BY <3>1 DEF Contains
  <2>3. ASSUME NEW i \in 1..Len(r), r[i] = t PROVE Contains(m, t)
    <3>1. n + i \in 1..Len(m) /\ m[n + i] = t
      BY <1>1, <2>3
    <3> QED BY <3>1 DEF Contains
  <2> QED BY <2>1, <2>2, <2>3 DEF Contains
<1>4. ASSUME NEW prio, InOrder(s, prio), InOrder(r, prio),
             \A t, u : Contains(s, t) /\ Contains(r, u) => t # u /\ prio[t] <= prio[u]
      PROVE  InOrder(m, prio)
  <2> SUFFICES ASSUME NEW i \in 1..Len(m), NEW j \in 1..Len(m), i < j
               PROVE  m[i] # m[j] /\ prio[m[i]] <= prio[m[j]]
    BY DEF InOrder
  <2>1. CASE j \in 1..Len(s) /\ m[j] = s[j]
    <3>1. i \in 1..Len(s) /\ m[i] = s[i]
      BY <1>1, <1>2, <2>1
    <3> QED BY <1>4, <2>1, <3>1, Zenon DEF InOrder
  <2>2. CASE i \in 1..Len(s) /\ m[i] = s[i] /\ j - n \in 1..Len(r) /\ m[j] = r[j - n]
    BY <1>4, <2>2, Zenon DEF Contains
  <2>3. CASE i - n \in 1..Len(r) /\ m[i] = r[i - n] /\ j - n \in 1..Len(r) /\ m[j] = r[j - n]
    <3>1. i - n < j - n
      BY <1>1
    <3> QED BY <1>4, <2>3, <3>1, Zenon DEF InOrder
  <2> QED BY <1>2, <2>1, <2>2, <2>3
<1> QED BY <1>1, <1>3, <1>4 DEF m

\* a list of one
LEMMA OneFits ==
  ASSUME NEW t \in Thread
  PROVE  /\ <<t>> \in Seq(Thread)
         /\ \A u : Contains(<<t>>, u) <=> u = t
         /\ \A prio : InOrder(<<t>>, prio)
<1>1. Len(<<t>>) = 1 /\ <<t>>[1] = t /\ <<t>> \in Seq(Thread)
  OBVIOUS
<1> QED BY <1>1 DEF Contains, InOrder

LEMMA AppendFits ==
  ASSUME NEW s \in Seq(Thread), NEW t \in Thread
  PROVE  /\ Append(s, t) \in Seq(Thread)
         /\ \A u : Contains(Append(s, t), u) <=> Contains(s, u) \/ u = t
         /\ \A prio : /\ InOrder(s, prio) /\ ~ Contains(s, t)
                      /\ \A u : Contains(s, u) => prio[u] <= prio[t]
                      => InOrder(Append(s, t), prio)
<1>1. Append(s, t) = s \o <<t>>
  BY AppendIsConcat
<1>2. <<t>> \in Seq(Thread) /\ (\A u : Contains(<<t>>, u) <=> u = t)
      /\ \A prio : InOrder(<<t>>, prio)
  BY OneFits
<1> DEFINE r == <<t>>
<1> HIDE DEF r
<1>3. ASSUME NEW prio, InOrder(s, prio), ~ Contains(s, t),
             \A u : Contains(s, u) => prio[u] <= prio[t]
      PROVE  InOrder(s \o r, prio)
  BY <1>2, <1>3, ConcatFits DEF r
<1>4. s \o r \in Seq(Thread) /\ \A u : Contains(s \o r, u) <=> Contains(s, u) \/ u = t
  BY <1>2, ConcatFits DEF r
<1> QED BY <1>1, <1>3, <1>4 DEF r

\* a stretch of a list
LEMMA SliceFits ==
  ASSUME NEW s \in Seq(Thread), NEW m \in Nat \ {0}, NEW n \in Nat, n <= Len(s),
         m <= n + 1
  PROVE  /\ SubSeq(s, m, n) \in Seq(Thread)
         /\ \A t : Contains(SubSeq(s, m, n), t) <=> \E i \in m..n : s[i] = t
         /\ \A prio : InOrder(s, prio) => InOrder(SubSeq(s, m, n), prio)
<1> DEFINE r == SubSeq(s, m, n)
<1>1. \A i \in m..n : s[i] \in Thread
  BY LenProperties
<1>2. /\ r \in Seq(Thread) /\ Len(r) = n - m + 1
      /\ \A i \in 1..n - m + 1 : r[i] = s[m + i - 1]
  BY <1>1, SubSeqProperties
<1>3. /\ \A i \in 1..Len(r) : r[i] = s[m + i - 1] /\ m + i - 1 \in m..n /\ m + i - 1 \in 1..Len(s)
      /\ \A i \in m..n : i - m + 1 \in 1..Len(r) /\ r[i - m + 1] = s[i]
  BY <1>2, LenProperties
<1> HIDE DEF r
<1>4. ASSUME NEW t PROVE Contains(r, t) <=> \E i \in m..n : s[i] = t
  BY <1>3, Zenon DEF Contains
<1>5. ASSUME NEW prio, InOrder(s, prio) PROVE InOrder(r, prio)
  <2> SUFFICES ASSUME NEW i \in 1..Len(r), NEW j \in 1..Len(r), i < j
               PROVE  r[i] # r[j] /\ prio[r[i]] <= prio[r[j]]
    BY DEF InOrder
  <2>1. m + i - 1 < m + j - 1
    BY <1>2
  <2>2. s[m + i - 1] # s[m + j - 1] /\ prio[s[m + i - 1]] <= prio[s[m + j - 1]]
    BY <1>3, <1>5, <2>1, Zenon DEF InOrder
  <2> QED BY <1>3, <2>2
<1> QED BY <1>2, <1>4, <1>5 DEF r

\* where Linked puts a thread: ahead of the first that is less urgent
LessUrgent(s, prio, t) == {i \in 1..Len(s) : prio[s[i]] > prio[t]}
Place(s, prio, t) ==
    IF LessUrgent(s, prio, t) # {} THEN Min(LessUrgent(s, prio, t)) ELSE 0
Inserted(s, prio, t) ==
    IF Place(s, prio, t) = 0 THEN Append(s, t) ELSE InsertAt(s, Place(s, prio, t), t)

LEMMA LinkedInserts ==
  ASSUME NEW o, NEW q, NEW t
  PROVE  Linked(o, q, t) =
           [o EXCEPT !.queue[q] = Inserted(o.queue[q], o.prio, t), !.link[t] = q,
                     !.pending = IF q \in Level THEN @ \cup {q} ELSE @]
  BY DEF Linked, Inserted, SelectInSeq, Place, LessUrgent

LEMMA InsertFits ==
  ASSUME NEW s \in Seq(Thread), NEW t \in Thread, NEW prio \in Priorities
  PROVE  /\ Inserted(s, prio, t) \in Seq(Thread)
         /\ \A u : Contains(Inserted(s, prio, t), u) <=> Contains(s, u) \/ u = t
         /\ InOrder(s, prio) /\ ~ Contains(s, t) => InOrder(Inserted(s, prio, t), prio)
<1> DEFINE I == LessUrgent(s, prio, t)
           i == Place(s, prio, t)
<1>1. Len(s) \in Nat /\ (\A j \in 1..Len(s) : s[j] \in Thread) /\ I \subseteq Nat
  BY LenProperties DEF LessUrgent
<1>2. \A u \in Thread : prio[u] \in Int
  <2>1. prio \in [Thread -> 0..32]
    BY DEF Priorities, Lowest
  <2>2. \A u \in Thread : prio[u] \in 0..32
    BY <2>1
  <2>3. 0..32 \subseteq Int
    OBVIOUS
  <2> QED BY <2>2, <2>3, Zenon
<1>3. CASE I = {}
  <2>1. i = 0
    BY <1>3 DEF Place
  <2>2. \A u : Contains(s, u) => prio[u] <= prio[t]
    BY <1>1, <1>2, <1>3 DEF Contains, LessUrgent
  <2> QED BY <2>1, <2>2, AppendFits DEF Inserted
<1>4. CASE I # {}
  <2>1. i \in I /\ \A j \in I : i <= j
    <3>1. \E n \in I : \A m \in I : n <= m
      BY <1>1, <1>4, NatMin
    <3>2. i = CHOOSE x \in I : \A y \in I : x <= y
      BY <1>4 DEF Place, Min
    <3> HIDE DEF I, i
    <3> QED BY <3>1, <3>2
  <2>2. i \in 1..Len(s) /\ i # 0 /\ prio[s[i]] > prio[t]
    BY <1>1, <2>1 DEF LessUrgent
  <2>3. \A j \in 1..i - 1 : prio[s[j]] <= prio[t]
    <3> TAKE j \in 1..i - 1
    <3>1. j \in 1..Len(s) /\ j \notin I
      BY <1>1, <2>1, <2>2
    <3> QED BY <1>1, <1>2, <3>1 DEF LessUrgent
  <2> DEFINE f == SubSeq(s, 1, i - 1)
             b == SubSeq(s, i, Len(s))
             m == <<t>>
  <2>4. Inserted(s, prio, t) = (f \o m) \o b
    BY <2>2 DEF Inserted, InsertAt
  <2> HIDE DEF I, i
  <2>5. /\ f \in Seq(Thread) /\ b \in Seq(Thread)
        /\ \A u : Contains(f, u) <=> \E j \in 1..i - 1 : s[j] = u
        /\ \A u : Contains(b, u) <=> \E j \in i..Len(s) : s[j] = u
        /\ InOrder(s, prio) => InOrder(f, prio) /\ InOrder(b, prio)
    <3>1. i - 1 \in Nat /\ i - 1 <= Len(s) /\ 1 <= (i - 1) + 1 /\ i \in Nat \ {0}
          /\ i <= Len(s) + 1 /\ Len(s) <= Len(s)
      BY <1>1, <2>2
    <3> QED BY <1>1, <3>1, SliceFits
  <2>6. m \in Seq(Thread) /\ (\A u : Contains(m, u) <=> u = t) /\ InOrder(m, prio)
    BY OneFits
  <2> HIDE DEF f, b, m
  <2>7. \A u : Contains(s, u) <=> Contains(f, u) \/ Contains(b, u)
    <3>1. \A j : j \in 1..Len(s) <=> j \in 1..i - 1 \/ j \in i..Len(s)
      BY <1>1, <2>2
    <3> QED BY <2>5, <3>1 DEF Contains
  <2>8. f \o m \in Seq(Thread) /\ \A u : Contains(f \o m, u) <=> Contains(f, u) \/ u = t
    BY <2>5, <2>6, ConcatFits
  <2>9. /\ (f \o m) \o b \in Seq(Thread)
        /\ \A u : Contains((f \o m) \o b, u) <=> Contains(s, u) \/ u = t
    BY <2>5, <2>7, <2>8, ConcatFits
  <2>10. ASSUME InOrder(s, prio), ~ Contains(s, t)
         PROVE  InOrder((f \o m) \o b, prio)
    <3>1. \A u : Contains(f, u) => u # t /\ prio[u] <= prio[t]
      BY <2>3, <2>5, <2>7, <2>10
    <3>2. InOrder(f \o m, prio)
      BY <2>5, <2>6, <2>10, <3>1, ConcatFits
    <3>3. \A u : Contains(b, u) => u # t /\ prio[t] <= prio[u]
      <4> SUFFICES ASSUME NEW j \in i..Len(s) PROVE prio[t] <= prio[s[j]]
        BY <2>5, <2>7, <2>10
      <4>1. i = j \/ prio[s[i]] <= prio[s[j]]
        BY <1>1, <2>2, <2>10 DEF InOrder
      <4>2. j \in 1..Len(s)
        BY <2>2
      <4> QED BY <1>1, <1>2, <2>2, <4>1, <4>2
    <3>4. \A u, v : Contains(f, u) /\ Contains(b, v) => u # v /\ prio[u] <= prio[v]
      <4> SUFFICES ASSUME NEW j \in 1..i - 1, NEW k \in i..Len(s)
                   PROVE  s[j] # s[k] /\ prio[s[j]] <= prio[s[k]]
        BY <2>5
      <4>1. j \in 1..Len(s) /\ k \in 1..Len(s) /\ j < k
        BY <1>1, <2>2
      <4> QED BY <2>10, <4>1 DEF InOrder
    <3>5. \A u, v : Contains(f \o m, u) /\ Contains(b, v) => u # v /\ prio[u] <= prio[v]
      BY <2>8, <3>3, <3>4
    <3> QED BY <2>5, <2>8, <2>10, <3>2, <3>5, ConcatFits
  <2> QED BY <2>4, <2>9, <2>10
<1> QED BY <1>3, <1>4

-----------------------------------------------------------------------------
(* The kernel's memory.  A thread is at home in the run queue of its        *)
(* priority or in the queue it waits in, and in no other.                   *)

Home(o, t) ==
    IF o.state[t] = "waiting" THEN o.link[t]
    ELSE IF o.state[t] = "ready" /\ o.suspend[t] = 0 THEN Base[t] ELSE None

InQueues(o, t, S) == \A q \in Queue : Contains(o.queue[q], t) <=> q \in S

\* The fields of a thread agree: its link names the queue it is in, and a
\* thread that is not suspended has its own priority.
Agrees(o, t) ==
    /\ o.state[t] = "waiting" => o.link[t] \in WaitQueue
    /\ o.state[t] = "ready" /\ o.suspend[t] = 0 => o.link[t] = Base[t]
    /\ o.state[t] = "running" => o.suspend[t] = 0
    /\ o.suspend[t] = 0 => o.prio[t] = Base[t]

Placed(o, t) == InQueues(o, t, {Home(o, t)}) /\ Agrees(o, t)

QueuesKept(o) ==
    /\ \A q \in Queue : InOrder(o.queue[q], o.prio)
    /\ o.pending = {p \in Level : o.queue[p] # <<>>}

KernelOK(o) == o \in Kernel /\ QueuesKept(o) /\ \A t \in Thread : Placed(o, t)

LEMMA Names ==
  /\ Level \subseteq 0..31 /\ Level \subseteq Queue /\ WaitQueue \subseteq Queue
  /\ Level \cap WaitQueue = {} /\ Queue = Level \cup WaitQueue
  /\ None \notin Queue /\ None \notin Thread
  /\ Lowest = 32 /\ Lowest \notin Level
  /\ \A t \in Thread : Base[t] \in Level
<1>1. \A t \in Thread : Base[t] \in 0..31
  BY ThreadAssumption DEF Lowest
<1>2. Level \subseteq 0..31
  BY <1>1 DEF Level
<1>3. 0..31 \subseteq 0..Lowest /\ Lowest = 32 /\ Lowest \notin 0..31
  BY DEF Lowest
<1> QED BY <1>2, <1>3, ThreadAssumption DEF Queue, Level

LEMMA LevelsAreNumbers == Level \subseteq Nat /\ Level \subseteq Int
<1>1. 0..31 \subseteq Nat /\ 0..31 \subseteq Int
  OBVIOUS
<1> QED BY <1>1, Names, Zenon

LEMMA KernelFields ==
  ASSUME NEW o \in Kernel
  PROVE  /\ o.state \in [Thread -> {"ready", "running", "waiting"}]
         /\ o.suspend \in [Thread -> 0..MaxSuspend]
         /\ o.prio \in [Thread -> Level \cup {Lowest}] /\ o.prio \in Priorities
         /\ o.link \in [Thread -> Queue \cup {None}]
         /\ o.queue \in [Queue -> Seq(Thread)]
         /\ o.pending \in SUBSET Level /\ o.resched \in BOOLEAN
         /\ o.timers \in Seq(Thread) /\ o.parks \in SUBSET Thread
<1>1. Level \cup {Lowest} \subseteq 0..Lowest
  BY Names
<1> QED BY <1>1 DEF Kernel, Priorities

\* n differs from o by what became of t, which is now in the queues of S
Others(o, n, t) ==
    \A u \in Thread \ {t} :
        /\ n.state[u] = o.state[u] /\ n.suspend[u] = o.suspend[u]
        /\ n.prio[u] = o.prio[u] /\ n.link[u] = o.link[u]
        /\ \A q \in Queue : Contains(n.queue[q], u) <=> Contains(o.queue[q], u)
Moves(o, n, t, S) ==
    n \in Kernel /\ QueuesKept(n) /\ Others(o, n, t) /\ InQueues(n, t, S)

LEMMA MovesChain ==
  ASSUME NEW o, NEW m, NEW n, NEW t, NEW R, NEW S, Moves(o, m, t, R), Moves(m, n, t, S)
  PROVE  Moves(o, n, t, S)
  BY DEF Moves, Others

\* One thread moved, and is where it should be: so are all.
LEMMA MovesHome ==
  ASSUME NEW o, NEW n, NEW t \in Thread, \A u \in Thread \ {t} : Placed(o, u),
         Moves(o, n, t, {Home(n, t)}), Agrees(n, t)
  PROVE  KernelOK(n)
<1>1. ASSUME NEW u \in Thread \ {t} PROVE Placed(n, u)
  <2>1. /\ n.state[u] = o.state[u] /\ n.suspend[u] = o.suspend[u]
        /\ n.prio[u] = o.prio[u] /\ n.link[u] = o.link[u]
        /\ \A q \in Queue : Contains(n.queue[q], u) <=> Contains(o.queue[q], u)
    BY DEF Moves, Others
  <2>2. Placed(o, u)
    OBVIOUS
  <2> QED BY <2>1, <2>2 DEF Placed, InQueues, Agrees, Home
<1> QED BY <1>1 DEF KernelOK, Moves, Placed

\* Fields of t change and no queue does.
LEMMA FieldsMove ==
  ASSUME NEW o \in Kernel, NEW n \in Kernel, NEW t \in Thread, NEW S,
         QueuesKept(o), InQueues(o, t, S),
         n.queue = o.queue, n.pending = o.pending,
         \A u \in Thread \ {t} : /\ n.state[u] = o.state[u] /\ n.suspend[u] = o.suspend[u]
                                 /\ n.prio[u] = o.prio[u] /\ n.link[u] = o.link[u],
         n.prio[t] = o.prio[t] \/ S \cap Queue = {}
  PROVE  Moves(o, n, t, S)
<1>1. InQueues(n, t, S) /\ Others(o, n, t)
  BY DEF InQueues, Others
<1>2. ASSUME NEW q \in Queue PROVE InOrder(n.queue[q], n.prio)
  <2>1. InOrder(o.queue[q], o.prio)
    BY DEF QueuesKept
  <2>2. \A u : Contains(o.queue[q], u) => n.prio[u] = o.prio[u]
    <3>1. o.queue[q] \in Seq(Thread)
      BY KernelFields
    <3>2. \A u : Contains(o.queue[q], u) => u \in Thread
      BY <3>1 DEF Contains
    <3> QED BY <3>2 DEF InQueues
  <2> QED BY <2>1, <2>2, SameOrder
<1>3. QueuesKept(n)
  BY <1>2 DEF QueuesKept
<1> QED BY <1>1, <1>3 DEF Moves

\* The pending mask after the queue q became s.
LEMMA PendingFits ==
  ASSUME NEW o \in Kernel, NEW n \in Kernel, NEW q \in Queue, QueuesKept(o),
         \A p \in Queue \ {q} : n.queue[p] = o.queue[p],
         \A p \in Level \ {q} : p \in n.pending <=> p \in o.pending,
         q \in Level => (q \in n.pending <=> n.queue[q] # <<>>)
  PROVE  n.pending = {p \in Level : n.queue[p] # <<>>}
<1>1. n.pending \subseteq Level
  BY KernelFields
<1>2. \A p \in Level : p \in n.pending <=> n.queue[p] # <<>>
  <2> TAKE p \in Level
  <2>1. CASE p = q
    BY <2>1
  <2>2. CASE p # q
    BY <2>2, Names DEF QueuesKept
  <2> QED BY <2>1, <2>2
<1> QED BY <1>1, <1>2

LEMMA WithoutFits ==
  ASSUME NEW s \in Seq(Thread), NEW t
  PROVE  /\ Without(s, t) \in Seq(Thread)
         /\ \A u \in Thread : Contains(Without(s, t), u) <=> Contains(s, u) /\ u # t
         /\ \A prio : InOrder(s, prio) => InOrder(Without(s, t), prio)
  BY KeptFits DEF Without

\* RemoveThreadFromQueue takes the thread out of the queue its link names.
LEMMA UnlinkMoves ==
  ASSUME NEW o \in Kernel, NEW t \in Thread, QueuesKept(o),
         o.link[t] \in Queue, InQueues(o, t, {o.link[t]})
  PROVE  /\ Moves(o, Unlinked(o, t), t, {})
         /\ Unlinked(o, t).state = o.state /\ Unlinked(o, t).suspend = o.suspend
         /\ Unlinked(o, t).prio = o.prio /\ Unlinked(o, t).link[t] = None
         /\ Unlinked(o, t).resched = o.resched
<1> DEFINE n == Unlinked(o, t)
           q == o.link[t]
           rest == Without(o.queue[q], t)
<1>1. /\ o.queue[q] \in Seq(Thread) /\ q \in Queue /\ q # None
      /\ rest \in Seq(Thread)
      /\ \A u \in Thread : Contains(rest, u) <=> Contains(o.queue[q], u) /\ u # t
      /\ InOrder(rest, o.prio)
  <2>1. q \in Queue /\ q # None /\ o.queue[q] \in Seq(Thread)
    BY KernelFields, Names
  <2>2. InOrder(o.queue[q], o.prio)
    BY DEF QueuesKept
  <2> QED BY <2>1, <2>2, WithoutFits
<1>2. n = [o EXCEPT !.queue[q] = rest, !.link[t] = None,
                    !.pending = IF rest = <<>> THEN @ \ {q} ELSE @]
  BY <1>1 DEF Unlinked
<1> HIDE DEF n, rest
<1>3. /\ n \in Kernel
      /\ n.state = o.state /\ n.suspend = o.suspend /\ n.prio = o.prio
      /\ n.resched = o.resched
      /\ n.link = [o.link EXCEPT ![t] = None]
      /\ n.queue = [o.queue EXCEPT ![q] = rest]
      /\ n.pending = IF rest = <<>> THEN o.pending \ {q} ELSE o.pending
  BY <1>1, <1>2 DEF Kernel
<1>4. /\ n.queue[q] = rest /\ \A p \in Queue \ {q} : n.queue[p] = o.queue[p]
      /\ n.link[t] = None /\ \A u \in Thread \ {t} : n.link[u] = o.link[u]
  BY <1>1, <1>3, KernelFields
<1>5. Others(o, n, t)
  BY <1>1, <1>3, <1>4 DEF Others
<1>6. InQueues(n, t, {})
  BY <1>1, <1>4 DEF InQueues
<1>7. QueuesKept(n)
  <2>1. \A p \in Queue : InOrder(n.queue[p], n.prio)
    BY <1>1, <1>3, <1>4 DEF QueuesKept
  <2>2. \A p \in Level \ {q} : p \in n.pending <=> p \in o.pending
    BY <1>3
  <2>3. q \in Level => (q \in n.pending <=> n.queue[q] # <<>>)
    <3>1. q \in Level => (q \in o.pending <=> o.queue[q] # <<>>)
      BY DEF QueuesKept
    <3>2. o.queue[q] = <<>> => rest = <<>>
      BY <1>1, EmptyHasNone
    <3> QED BY <1>3, <1>4, <3>1, <3>2
  <2>4. n.pending = {p \in Level : n.queue[p] # <<>>}
    <3>1. n \in Kernel /\ q \in Queue
      BY <1>1, <1>3
    <3>2. \A p \in Queue \ {q} : n.queue[p] = o.queue[p]
      BY <1>4
    <3> HIDE DEF q
    <3> QED BY <2>2, <2>3, <3>1, <3>2, PendingFits
  <2> QED BY <2>1, <2>4 DEF QueuesKept
<1> QED BY <1>3, <1>4, <1>5, <1>6, <1>7 DEF Moves, n

\* InsertThreadIntoQueueByPriority puts a thread that is in no queue into one.
LEMMA LinkMoves ==
  ASSUME NEW o \in Kernel, NEW t \in Thread, NEW q \in Queue, QueuesKept(o),
         InQueues(o, t, {})
  PROVE  /\ Moves(o, Linked(o, q, t), t, {q})
         /\ Linked(o, q, t).state = o.state /\ Linked(o, q, t).suspend = o.suspend
         /\ Linked(o, q, t).prio = o.prio /\ Linked(o, q, t).link[t] = q
         /\ Linked(o, q, t).resched = o.resched
<1> DEFINE n == Linked(o, q, t)
           r == Inserted(o.queue[q], o.prio, t)
<1>1. /\ o.queue[q] \in Seq(Thread) /\ r \in Seq(Thread)
      /\ \A u : Contains(r, u) <=> Contains(o.queue[q], u) \/ u = t
      /\ InOrder(r, o.prio)
  BY KernelFields, InsertFits DEF QueuesKept, InQueues
<1>2. n = [o EXCEPT !.queue[q] = r, !.link[t] = q,
                    !.pending = IF q \in Level THEN @ \cup {q} ELSE @]
  BY LinkedInserts, Zenon
<1> HIDE DEF n, r
<1>3. /\ n \in Kernel
      /\ n.state = o.state /\ n.suspend = o.suspend /\ n.prio = o.prio
      /\ n.resched = o.resched
      /\ n.link = [o.link EXCEPT ![t] = q]
      /\ n.queue = [o.queue EXCEPT ![q] = r]
      /\ n.pending = IF q \in Level THEN o.pending \cup {q} ELSE o.pending
  BY <1>1, <1>2 DEF Kernel
<1>4. /\ n.queue[q] = r /\ \A p \in Queue \ {q} : n.queue[p] = o.queue[p]
      /\ n.link[t] = q /\ \A u \in Thread \ {t} : n.link[u] = o.link[u]
  BY <1>1, <1>3, KernelFields
<1>5. Others(o, n, t)
  BY <1>1, <1>3, <1>4 DEF Others
<1>6. InQueues(n, t, {q})
  BY <1>1, <1>4 DEF InQueues
<1>7. QueuesKept(n)
  <2>1. \A p \in Queue : InOrder(n.queue[p], n.prio)
    BY <1>1, <1>3, <1>4 DEF QueuesKept
  <2>2. \A p \in Level \ {q} : p \in n.pending <=> p \in o.pending
    BY <1>3
  <2>3. q \in Level => (q \in n.pending <=> n.queue[q] # <<>>)
    BY <1>1, <1>3, <1>4, EmptyFits
  <2>4. n.pending = {p \in Level : n.queue[p] # <<>>}
    <3>1. n \in Kernel /\ q \in Queue
      BY <1>1, <1>3
    <3>2. \A p \in Queue \ {q} : n.queue[p] = o.queue[p]
      BY <1>4
    <3> QED BY <2>2, <2>3, <3>1, <3>2, PendingFits
  <2> QED BY <2>1, <2>4 DEF QueuesKept
<1> QED BY <1>3, <1>4, <1>5, <1>6, <1>7 DEF Moves, n

\* LinkThreadOnRunQueue appends: no thread of the queue is less urgent.
LEMMA EnqueueMoves ==
  ASSUME NEW o \in Kernel, NEW t \in Thread, QueuesKept(o), InQueues(o, t, {}),
         o.prio[t] \in Level,
         \A u : Contains(o.queue[o.prio[t]], u) => o.prio[u] <= o.prio[t]
  PROVE  /\ Moves(o, Enqueued(o, t), t, {o.prio[t]})
         /\ Enqueued(o, t).state = [o.state EXCEPT ![t] = "ready"]
         /\ Enqueued(o, t).suspend = o.suspend
         /\ Enqueued(o, t).prio = o.prio /\ Enqueued(o, t).link[t] = o.prio[t]
<1> DEFINE n == Enqueued(o, t)
           q == o.prio[t]
           r == Append(o.queue[q], t)
<1>1. /\ q \in Queue /\ q \in Level
      /\ o.queue[q] \in Seq(Thread) /\ r \in Seq(Thread)
      /\ \A u : Contains(r, u) <=> Contains(o.queue[q], u) \/ u = t
      /\ InOrder(r, o.prio)
  <2>1. q \in Queue
    BY Names
  <2>2. o.queue[q] \in Seq(Thread) /\ InOrder(o.queue[q], o.prio)
        /\ ~ Contains(o.queue[q], t)
    BY <2>1, KernelFields DEF QueuesKept, InQueues
  <2> QED BY <2>1, <2>2, AppendFits
<1>2. n = [o EXCEPT !.state[t] = "ready", !.queue[q] = r, !.link[t] = q,
                    !.pending = @ \cup {q}, !.resched = TRUE]
  BY KernelFields DEF Enqueued
<1> HIDE DEF n, r
<1>3. /\ n \in Kernel
      /\ n.suspend = o.suspend /\ n.prio = o.prio
      /\ n.state = [o.state EXCEPT ![t] = "ready"]
      /\ n.link = [o.link EXCEPT ![t] = q]
      /\ n.queue = [o.queue EXCEPT ![q] = r]
      /\ n.pending = o.pending \cup {q}
  BY <1>1, <1>2 DEF Kernel
<1>4. /\ n.queue[q] = r /\ \A p \in Queue \ {q} : n.queue[p] = o.queue[p]
      /\ n.link[t] = q
      /\ \A u \in Thread \ {t} : n.link[u] = o.link[u] /\ n.state[u] = o.state[u]
  BY <1>1, <1>3, KernelFields
<1>5. Others(o, n, t)
  BY <1>1, <1>3, <1>4 DEF Others
<1>6. InQueues(n, t, {q})
  BY <1>1, <1>4 DEF InQueues
<1>7. QueuesKept(n)
  <2>1. \A p \in Queue : InOrder(n.queue[p], n.prio)
    BY <1>1, <1>3, <1>4 DEF QueuesKept
  <2>2. \A p \in Level \ {q} : p \in n.pending <=> p \in o.pending
    BY <1>3
  <2>3. q \in n.pending /\ n.queue[q] # <<>>
    BY <1>1, <1>3, <1>4, EmptyFits
  <2>4. n.pending = {p \in Level : n.queue[p] # <<>>}
    <3>1. n \in Kernel /\ q \in Queue
      BY <1>1, <1>3
    <3>2. \A p \in Queue \ {q} : n.queue[p] = o.queue[p]
      BY <1>4
    <3> HIDE DEF q
    <3> QED BY <2>2, <2>3, <3>1, <3>2, PendingFits
  <2> QED BY <2>1, <2>4 DEF QueuesKept
<1> QED BY <1>3, <1>4, <1>5, <1>6, <1>7 DEF Moves, n

LEMMA InNone ==
  ASSUME NEW o, NEW t
  PROVE  InQueues(o, t, {}) <=> InQueues(o, t, {None})
  BY Names DEF InQueues

LEMMA RequeueMoves ==
  ASSUME NEW o \in Kernel, NEW t \in Thread, NEW p \in Level \cup {Lowest}, QueuesKept(o),
         o.link[t] \in Queue, InQueues(o, t, {o.link[t]})
  PROVE  /\ Moves(o, Requeued(o, t, p), t, {o.link[t]})
         /\ Requeued(o, t, p).state = o.state /\ Requeued(o, t, p).suspend = o.suspend
         /\ Requeued(o, t, p).prio[t] = p /\ Requeued(o, t, p).link[t] = o.link[t]
<1> DEFINE u == Unlinked(o, t)
           out == [u EXCEPT !.prio[t] = p]
           n == Linked(out, o.link[t], t)
<1>1. Requeued(o, t, p) = n
  BY Names DEF Requeued
<1>2. /\ Moves(o, u, t, {}) /\ u.state = o.state /\ u.suspend = o.suspend
      /\ u.prio = o.prio /\ u.link[t] = None
  BY UnlinkMoves
<1> HIDE DEF u
<1>3. u \in Kernel /\ QueuesKept(u) /\ InQueues(u, t, {})
  BY <1>2 DEF Moves
<1>4. /\ out \in Kernel /\ out.state = u.state /\ out.suspend = u.suspend
      /\ out.link = u.link /\ out.queue = u.queue /\ out.pending = u.pending
      /\ out.prio = [u.prio EXCEPT ![t] = p]
  BY <1>3 DEF Kernel
<1> HIDE DEF out
<1>5. out.prio[t] = p /\ \A v \in Thread \ {t} : out.prio[v] = u.prio[v]
  BY <1>3, <1>4, KernelFields
<1>6. Moves(u, out, t, {})
  BY <1>3, <1>4, <1>5, FieldsMove
<1>7. /\ Moves(out, n, t, {o.link[t]}) /\ n.state = out.state /\ n.suspend = out.suspend
      /\ n.prio = out.prio /\ n.link[t] = o.link[t]
  <2>1. out \in Kernel /\ QueuesKept(out) /\ InQueues(out, t, {})
    BY <1>6 DEF Moves
  <2> QED BY <2>1, LinkMoves
<1> HIDE DEF n
<1>8. Moves(o, n, t, {o.link[t]})
  BY <1>2, <1>6, <1>7, MovesChain
<1> QED BY <1>1, <1>2, <1>4, <1>5, <1>7, <1>8

LEMMA SuspendKeeps ==
  ASSUME NEW o, NEW t \in Thread, KernelOK(o), o.suspend[t] < MaxSuspend
  PROVE  /\ KernelOK(Suspended(o, t))
         /\ \A u \in Thread \ {t} : Suspended(o, t).state[u] = o.state[u]
         /\ Suspended(o, t).state[t] = IF o.state[t] = "running" THEN "ready" ELSE o.state[t]
         /\ o.state[t] = "running" => Suspended(o, t).resched = TRUE
<1> DEFINE up == [o EXCEPT !.suspend[t] = @ + 1]
           n == Suspended(o, t)
<1>1. /\ o \in Kernel /\ QueuesKept(o) /\ \A u \in Thread \ {t} : Placed(o, u)
      /\ InQueues(o, t, {Home(o, t)}) /\ Agrees(o, t)
      /\ o.suspend[t] \in Nat /\ o.state[t] \in {"ready", "running", "waiting"}
  <2>1. o \in Kernel /\ QueuesKept(o) /\ \A u \in Thread : Placed(o, u)
    BY DEF KernelOK
  <2>2. o.suspend[t] \in 0..MaxSuspend /\ o.state[t] \in {"ready", "running", "waiting"}
    BY <2>1, KernelFields
  <2> QED BY <2>1, <2>2, ThreadAssumption DEF Placed
<1>2. /\ up \in Kernel /\ up.state = o.state /\ up.prio = o.prio
      /\ up.link = o.link /\ up.queue = o.queue /\ up.pending = o.pending
      /\ up.suspend = [o.suspend EXCEPT ![t] = @ + 1]
  <2>1. o.suspend[t] + 1 \in 0..MaxSuspend
    BY <1>1, ThreadAssumption
  <2> QED BY <1>1, <2>1 DEF Kernel
<1> HIDE DEF up
<1>3. /\ up.suspend[t] = o.suspend[t] + 1 /\ up.suspend[t] > 0
      /\ \A u \in Thread \ {t} : up.suspend[u] = o.suspend[u]
  BY <1>1, <1>2, KernelFields
<1>4. Moves(o, up, t, {Home(o, t)})
  BY <1>1, <1>2, <1>3, FieldsMove
<1>5. CASE o.suspend[t] > 0
  <2>1. n = up
    BY <1>5 DEF Suspended, up
  <2>2. Home(up, t) = Home(o, t) /\ Agrees(up, t) /\ o.state[t] # "running"
    BY <1>1, <1>2, <1>3, <1>5 DEF Home, Agrees
  <2>3. KernelOK(up)
    BY <1>1, <1>4, <2>2, MovesHome
  <2> QED BY <1>2, <2>1, <2>2, <2>3
<1>6. CASE o.suspend[t] = 0 /\ o.state[t] = "ready"
  <2>1. n = Unlinked(up, t)
    BY <1>6 DEF Suspended, up
  <2>2. Home(o, t) = Base[t] /\ up.link[t] = Base[t] /\ Base[t] \in Queue
    BY <1>1, <1>2, <1>6, Names DEF Agrees, Home
  <2>3. up \in Kernel /\ QueuesKept(up) /\ InQueues(up, t, {up.link[t]})
    BY <1>4, <2>2 DEF Moves
  <2>4. /\ Moves(up, n, t, {}) /\ n.state = up.state /\ n.suspend = up.suspend
    BY <2>1, <2>2, <2>3, UnlinkMoves
  <2> HIDE DEF n
  <2>5. Home(n, t) = None /\ Agrees(n, t)
    BY <1>2, <1>3, <1>6, <2>4 DEF Home, Agrees
  <2>6. Moves(o, n, t, {Home(n, t)})
    BY <1>4, <2>4, <2>5, MovesChain, InNone DEF Moves
  <2>7. KernelOK(n)
    BY <1>1, <2>5, <2>6, MovesHome
  <2> QED BY <1>2, <1>6, <2>4, <2>7 DEF n
<1>7. CASE o.suspend[t] = 0 /\ o.state[t] = "running"
  <2>1. n = [up EXCEPT !.state[t] = "ready", !.resched = TRUE]
    BY <1>7 DEF Suspended, up
  <2> HIDE DEF n
  <2>2. /\ n \in Kernel /\ n.suspend = up.suspend /\ n.prio = up.prio
        /\ n.link = up.link /\ n.queue = up.queue /\ n.pending = up.pending
        /\ n.state = [up.state EXCEPT ![t] = "ready"] /\ n.resched = TRUE
    BY <1>2, <2>1 DEF Kernel
  <2>3. n.state[t] = "ready" /\ \A u \in Thread \ {t} : n.state[u] = up.state[u]
    BY <1>2, <2>2, KernelFields
  <2>4. Home(o, t) = None /\ Home(n, t) = None /\ Agrees(n, t)
    BY <1>3, <1>7, <2>2, <2>3 DEF Home, Agrees
  <2>5. Moves(up, n, t, {None})
    <3>1. QueuesKept(up) /\ InQueues(up, t, {None})
      BY <1>4, <2>4 DEF Moves
    <3> QED BY <1>2, <2>2, <2>3, <3>1, FieldsMove
  <2>6. KernelOK(n)
    BY <1>1, <1>4, <2>4, <2>5, MovesChain, MovesHome
  <2> QED BY <1>2, <1>7, <2>2, <2>3, <2>6 DEF n
<1>8. CASE o.suspend[t] = 0 /\ o.state[t] = "waiting"
  <2>1. n = Requeued(up, t, Lowest)
    BY <1>8 DEF Suspended, up
  <2>2. Home(o, t) = up.link[t] /\ up.link[t] \in WaitQueue /\ up.link[t] \in Queue
    BY <1>1, <1>2, <1>8, Names DEF Agrees, Home
  <2>3. up \in Kernel /\ QueuesKept(up) /\ InQueues(up, t, {up.link[t]})
    BY <1>4, <2>2 DEF Moves
  <2>4. /\ Moves(up, n, t, {up.link[t]}) /\ n.state = up.state /\ n.suspend = up.suspend
        /\ n.prio[t] = Lowest /\ n.link[t] = up.link[t]
    BY <2>1, <2>2, <2>3, RequeueMoves
  <2> HIDE DEF n
  <2>5. Home(n, t) = up.link[t] /\ Agrees(n, t)
    BY <1>2, <1>3, <1>8, <2>2, <2>4 DEF Home, Agrees
  <2>6. KernelOK(n)
    BY <1>1, <1>4, <2>4, <2>5, MovesChain, MovesHome
  <2> QED BY <1>2, <1>8, <2>4, <2>6 DEF n
<1>9. /\ o.suspend[t] > 0 \/ o.suspend[t] = 0
      /\ o.state[t] = "ready" \/ o.state[t] = "running" \/ o.state[t] = "waiting"
  BY <1>1
<1> QED BY <1>5, <1>6, <1>7, <1>8, <1>9, Zenon

LEMMA DisarmedFits ==
  ASSUME NEW o \in Kernel, NEW t
  PROVE  /\ Disarmed(o, t) \in Kernel
         /\ Disarmed(o, t).state = o.state /\ Disarmed(o, t).suspend = o.suspend
         /\ Disarmed(o, t).prio = o.prio /\ Disarmed(o, t).link = o.link
         /\ Disarmed(o, t).queue = o.queue /\ Disarmed(o, t).pending = o.pending
         /\ Disarmed(o, t).resched = o.resched
<1> DEFINE rest == Without(o.timers, t)
<1>1. rest \in Seq(Thread) /\ o.parks \ {t} \in SUBSET Thread
  BY KernelFields, WithoutFits
<1> HIDE DEF rest
<1>2. Disarmed(o, t) = [o EXCEPT !.timers = rest, !.parks = o.parks \ {t}]
  BY DEF Disarmed, rest
<1> QED BY <1>1, <1>2 DEF Kernel

LEMMA ResumeKeeps ==
  ASSUME NEW o, NEW t \in Thread, KernelOK(o)
  PROVE  KernelOK(Resumed(o, t)) /\ Resumed(o, t).state = o.state
<1> DEFINE down == [o EXCEPT !.suspend[t] = IF @ = 0 THEN 0 ELSE @ - 1]
           free == Disarmed(down, t)
           ready == [free EXCEPT !.state[t] = "ready", !.prio[t] = Base[t],
                                 !.resched = TRUE]
           n == Resumed(o, t)
<1>1. /\ o \in Kernel /\ QueuesKept(o) /\ \A u \in Thread \ {t} : Placed(o, u)
      /\ InQueues(o, t, {Home(o, t)}) /\ Agrees(o, t)
      /\ o.suspend[t] \in 0..MaxSuspend /\ o.suspend[t] \in Nat
      /\ o.state[t] \in {"ready", "running", "waiting"}
  <2>1. o \in Kernel /\ QueuesKept(o) /\ \A u \in Thread : Placed(o, u)
    BY DEF KernelOK
  <2>2. o.suspend[t] \in 0..MaxSuspend /\ o.state[t] \in {"ready", "running", "waiting"}
    BY <2>1, KernelFields
  <2> QED BY <2>1, <2>2, ThreadAssumption DEF Placed
<1> DEFINE c == IF o.suspend[t] = 0 THEN 0 ELSE o.suspend[t] - 1
<1>2. /\ down \in Kernel /\ down.state = o.state /\ down.prio = o.prio
      /\ down.link = o.link /\ down.queue = o.queue /\ down.pending = o.pending
      /\ down.suspend = [o.suspend EXCEPT ![t] = c]
  <2>1. c \in 0..MaxSuspend
    BY <1>1, ThreadAssumption
  <2>2. down = [o EXCEPT !.suspend[t] = c]
    BY <1>1, KernelFields
  <2> HIDE DEF c, down
  <2> QED BY <1>1, <2>1, <2>2 DEF Kernel
<1> HIDE DEF down
<1>3. down.suspend[t] = c /\ \A u \in Thread \ {t} : down.suspend[u] = o.suspend[u]
  BY <1>1, <1>2, KernelFields
<1>4. Moves(o, down, t, {Home(o, t)})
  BY <1>1, <1>2, <1>3, FieldsMove
<1>5. CASE o.suspend[t] # 1
  <2>1. n = down
    BY <1>5 DEF Resumed, down
  <2>2. o.suspend[t] > 0 <=> down.suspend[t] > 0
    BY <1>1, <1>3, <1>5
  <2>3. o.suspend[t] = 0 <=> down.suspend[t] = 0
    BY <1>1, <1>3, <1>5
  <2>4. Home(down, t) = Home(o, t) /\ Agrees(down, t)
    BY <1>1, <1>2, <2>2, <2>3 DEF Home, Agrees
  <2>5. KernelOK(down)
    BY <1>1, <1>4, <2>4, MovesHome
  <2> QED BY <1>2, <2>1, <2>5
<1>6. ASSUME o.suspend[t] = 1
      PROVE  /\ Moves(o, free, t, {Home(o, t)}) /\ free \in Kernel
             /\ free.state = o.state /\ free.prio = o.prio /\ free.link = o.link
             /\ free.suspend[t] = 0
  <2>1. /\ free \in Kernel /\ free.state = down.state /\ free.suspend = down.suspend
        /\ free.prio = down.prio /\ free.link = down.link
        /\ free.queue = down.queue /\ free.pending = down.pending
    BY <1>2, DisarmedFits
  <2> HIDE DEF free
  <2>2. free.suspend[t] = 0
    BY <1>3, <1>6, <2>1
  <2>3. Moves(down, free, t, {Home(o, t)})
    <3>1. QueuesKept(down) /\ InQueues(down, t, {Home(o, t)})
      BY <1>4 DEF Moves
    <3> QED BY <1>2, <2>1, <3>1, FieldsMove
  <2>4. Moves(o, free, t, {Home(o, t)})
    BY <1>4, <2>3, MovesChain
  <2> QED BY <1>2, <2>1, <2>2, <2>4
<1>7. CASE o.suspend[t] = 1 /\ o.state[t] = "waiting"
  <2>1. n = Requeued(free, t, Base[t])
    BY <1>7 DEF Resumed, down
  <2> HIDE DEF free
  <2>2. Home(o, t) = free.link[t] /\ free.link[t] \in WaitQueue /\ free.link[t] \in Queue
    BY <1>1, <1>6, <1>7, Names DEF Agrees, Home
  <2>3. free \in Kernel /\ QueuesKept(free) /\ InQueues(free, t, {free.link[t]})
    BY <1>6, <1>7, <2>2 DEF Moves
  <2>4. /\ Moves(free, n, t, {free.link[t]}) /\ n.state = free.state
        /\ n.suspend = free.suspend /\ n.prio[t] = Base[t] /\ n.link[t] = free.link[t]
    BY <2>1, <2>2, <2>3, RequeueMoves, Names
  <2> HIDE DEF n
  <2>5. Home(n, t) = free.link[t] /\ Agrees(n, t)
    BY <1>6, <1>7, <2>2, <2>4 DEF Home, Agrees
  <2>6. KernelOK(n)
    BY <1>1, <1>6, <1>7, <2>2, <2>4, <2>5, MovesChain, MovesHome
  <2> QED BY <1>6, <1>7, <2>4, <2>6 DEF n
<1>8. CASE o.suspend[t] = 1 /\ o.state[t] # "waiting"
  <2>1. n = Linked(ready, Base[t], t)
    BY <1>8 DEF Resumed, down
  <2>2. o.state[t] = "ready" /\ Home(o, t) = None
    BY <1>1, <1>8 DEF Agrees, Home
  <2>3. QueuesKept(free) /\ InQueues(free, t, {})
    BY <1>6, <1>8, <2>2, InNone DEF Moves
  <2>4. /\ ready \in Kernel
        /\ ready.state = [free.state EXCEPT ![t] = "ready"]
        /\ ready.prio = [free.prio EXCEPT ![t] = Base[t]]
        /\ ready.suspend = free.suspend /\ ready.link = free.link
        /\ ready.queue = free.queue /\ ready.pending = free.pending
    <3> HIDE DEF free
    <3> QED BY <1>6, <1>8, Names DEF Kernel
  <2> HIDE DEF ready, free
  <2>5. /\ ready.state = o.state /\ ready.prio[t] = Base[t]
        /\ \A u \in Thread \ {t} : ready.prio[u] = free.prio[u]
    BY <1>1, <1>6, <1>8, <2>2, <2>4, KernelFields
  <2>6. Moves(free, ready, t, {})
    BY <1>6, <1>8, <2>3, <2>4, <2>5, FieldsMove
  <2>7. /\ Moves(ready, n, t, {Base[t]}) /\ n.state = ready.state
        /\ n.suspend = ready.suspend /\ n.prio = ready.prio /\ n.link[t] = Base[t]
    <3>1. QueuesKept(ready) /\ InQueues(ready, t, {}) /\ Base[t] \in Queue
      BY <2>6, Names DEF Moves
    <3> QED BY <2>1, <2>4, <3>1, LinkMoves
  <2> HIDE DEF n
  <2>8. n.state[t] = "ready" /\ n.suspend[t] = 0 /\ n.prio[t] = Base[t] /\ n.state = o.state
    BY <1>6, <1>8, <2>2, <2>4, <2>5, <2>7
  <2>9. Home(n, t) = Base[t] /\ Agrees(n, t)
    BY <2>7, <2>8 DEF Home, Agrees
  <2>10. KernelOK(n)
    BY <1>1, <1>6, <1>8, <2>6, <2>7, <2>9, MovesChain, MovesHome
  <2> QED BY <2>8, <2>10 DEF n
<1> QED BY <1>5, <1>7, <1>8

\* a wait queue holds threads that wait in it, whatever their priority
LEMMA WaitersWait ==
  ASSUME NEW o, NEW q \in WaitQueue, KernelOK(o), NEW t \in Thread, Contains(o.queue[q], t)
  PROVE  /\ o.state[t] = "waiting" /\ o.link[t] = q
         /\ o.suspend[t] = 0 => o.prio[t] = Base[t]
<1>1. q \in Queue /\ q # None /\ q \notin Level
  BY Names
<1>2. Placed(o, t)
  BY DEF KernelOK
<1>3. Home(o, t) = q
  BY <1>1, <1>2 DEF Placed, InQueues
<1>4. Base[t] # q
  BY <1>1, Names
<1> QED BY <1>1, <1>2, <1>3, <1>4 DEF Home, Placed, Agrees

LEMMA RunnableRun ==
  ASSUME NEW o, NEW p \in Level, KernelOK(o), NEW t \in Thread, Contains(o.queue[p], t)
  PROVE  /\ o.state[t] = "ready" /\ o.suspend[t] = 0 /\ o.link[t] = p
         /\ o.prio[t] = p /\ Base[t] = p
<1>1. p \in Queue /\ p # None /\ p \notin WaitQueue
  BY Names
<1>2. Placed(o, t)
  BY DEF KernelOK
<1>3. Home(o, t) = p
  BY <1>1, <1>2 DEF Placed, InQueues
<1> QED BY <1>1, <1>2, <1>3 DEF Home, Placed, Agrees

LEMMA WakeKeeps ==
  ASSUME NEW o, NEW q \in WaitQueue, KernelOK(o)
  PROVE  /\ KernelOK(Woken(o, q))
         /\ \A t \in Thread : Woken(o, q).state[t] = "running" <=> o.state[t] = "running"
         /\ \A t \in Thread : o.state[t] # "waiting" => Woken(o, q).state[t] = o.state[t]
<1> DEFINE up == {t \in Thread : o.suspend[t] = 0}
           ready == ToSet(o.queue[q])
           runs == {t \in ready : t \in up}
           joining(p) == Kept(o.queue[q], {t \in up : o.prio[t] = p})
           n == Woken(o, q)
<1>1. /\ o \in Kernel /\ QueuesKept(o) /\ (\A t \in Thread : Placed(o, t))
      /\ q \in Queue /\ q \notin Level /\ q # None
      /\ o.queue[q] \in Seq(Thread)
  <2>1. o \in Kernel /\ QueuesKept(o) /\ (\A t \in Thread : Placed(o, t))
    BY DEF KernelOK
  <2> QED BY <2>1, Names, KernelFields
<1>2. /\ \A t : t \in ready <=> Contains(o.queue[q], t)
      /\ ready \subseteq Thread
  BY <1>1, LenProperties DEF Contains, ToSet
<1>3. n = [o EXCEPT
          !.state = [t \in Thread |-> IF t \in ready THEN "ready" ELSE o.state[t]],
          !.link = [t \in Thread |-> IF t \in runs THEN o.prio[t] ELSE o.link[t]],
          !.queue = [p \in Queue |->
              IF p = q THEN <<>>
              ELSE IF p \in Level THEN o.queue[p] \o joining(p)
              ELSE o.queue[p]],
          !.pending = o.pending \cup {o.prio[t] : t \in runs},
          !.resched = o.resched \/ runs # {}]
  BY <1>1 DEF Woken, Drained, Kernel
<1>4. \A t \in ready : /\ o.state[t] = "waiting" /\ o.link[t] = q
                       /\ o.suspend[t] = 0 => o.prio[t] = Base[t]
  BY <1>2, WaitersWait
<1>5. \A t \in runs : o.suspend[t] = 0 /\ o.prio[t] = Base[t] /\ Base[t] \in Level
  BY <1>2, <1>4, Names
<1>6. \A p : /\ joining(p) \in Seq(Thread)
             /\ \A t : Contains(joining(p), t) <=> t \in runs /\ o.prio[t] = p
             /\ InOrder(joining(p), o.prio)
  <2> TAKE p
  <2>1. InOrder(o.queue[q], o.prio)
    BY <1>1 DEF QueuesKept
  <2> QED BY <1>1, <1>2, <2>1, KeptFits
<1> HIDE DEF joining, n, ready, up
<1> DEFINE joined == [p \in Queue |-> IF p = q THEN <<>>
                        ELSE IF p \in Level THEN o.queue[p] \o joining(p) ELSE o.queue[p]]
<1>7. \A p \in Queue :
        /\ joined[p] \in Seq(Thread)
        /\ \A t : Contains(joined[p], t) <=>
             /\ p # q
             /\ Contains(o.queue[p], t) \/ (p \in Level /\ t \in runs /\ o.prio[t] = p)
        /\ InOrder(joined[p], o.prio)
  <2> TAKE p \in Queue
  <2>1. o.queue[p] \in Seq(Thread) /\ InOrder(o.queue[p], o.prio)
    BY <1>1, KernelFields DEF QueuesKept
  <2>2. CASE p = q
    BY <2>2, EmptyFits
  <2>3. CASE p # q /\ p \notin Level
    BY <2>1, <2>3
  <2>4. CASE p # q /\ p \in Level
    <3>1. joined[p] = o.queue[p] \o joining(p)
      BY <2>4
    <3> DEFINE s == o.queue[p]
               r == joining(p)
    <3>2. \A t, u : Contains(s, t) /\ Contains(r, u) => t # u /\ o.prio[t] <= o.prio[u]
      <4> TAKE t, u
      <4> HAVE Contains(s, t) /\ Contains(r, u)
      <4>1. t \in Thread
        BY <2>1 DEF Contains
      <4>2. o.state[t] = "ready" /\ o.prio[t] = p
        BY <2>4, <4>1, RunnableRun
      <4>3. o.state[u] = "waiting" /\ o.prio[u] = p
        BY <1>4, <1>6
      <4>4. p \in Int
        BY <2>4, Names
      <4> QED BY <4>2, <4>3, <4>4
    <3>3. r \in Seq(Thread) /\ InOrder(r, o.prio)
          /\ \A t : Contains(r, t) <=> t \in runs /\ o.prio[t] = p
      BY <1>6
    <3>4. s \in Seq(Thread) /\ InOrder(s, o.prio)
      BY <2>1
    <3> HIDE DEF s, r, joined, runs
    <3>5. s \o r \in Seq(Thread) /\ InOrder(s \o r, o.prio)
          /\ \A t : Contains(s \o r, t) <=> Contains(s, t) \/ Contains(r, t)
      BY <3>2, <3>3, <3>4, ConcatFits
    <3>6. joined[p] = s \o r
      BY <3>1 DEF s, r
    <3>7. \A t : Contains(s, t) <=> Contains(o.queue[p], t)
      BY DEF s
    <3> QED BY <2>4, <3>3, <3>5, <3>6, <3>7
  <2> QED BY <2>2, <2>3, <2>4
<1> HIDE DEF joined, runs
<1>8. /\ n \in Kernel /\ n.suspend = o.suspend /\ n.prio = o.prio
      /\ n.state = [t \in Thread |-> IF t \in ready THEN "ready" ELSE o.state[t]]
      /\ n.link = [t \in Thread |-> IF t \in runs THEN o.prio[t] ELSE o.link[t]]
      /\ n.queue = joined
      /\ n.pending = o.pending \cup {o.prio[t] : t \in runs}
  <2>1. joined \in [Queue -> Seq(Thread)]
    BY <1>7 DEF joined
  <2>2. [t \in Thread |-> IF t \in ready THEN "ready" ELSE o.state[t]]
          \in [Thread -> {"ready", "running", "waiting"}]
    BY <1>1, KernelFields
  <2>3. [t \in Thread |-> IF t \in runs THEN o.prio[t] ELSE o.link[t]]
          \in [Thread -> Queue \cup {None}]
    BY <1>1, <1>5, Names, KernelFields
  <2>4. o.pending \cup {o.prio[t] : t \in runs} \in SUBSET Level
    BY <1>1, <1>5, KernelFields
  <2>5. (o.resched \/ runs # {}) \in BOOLEAN
    OBVIOUS
  <2> DEFINE st == [t \in Thread |-> IF t \in ready THEN "ready" ELSE o.state[t]]
             li == [t \in Thread |-> IF t \in runs THEN o.prio[t] ELSE o.link[t]]
             pe == o.pending \cup {o.prio[t] : t \in runs}
             re == o.resched \/ runs # {}
  <2>6. n = [o EXCEPT !.state = st, !.link = li, !.queue = joined, !.pending = pe,
                      !.resched = re]
    BY <1>3 DEF joined, runs
  <2> HIDE DEF st, li, pe, re
  <2>7. st \in [Thread -> {"ready", "running", "waiting"}]
        /\ li \in [Thread -> Queue \cup {None}] /\ pe \in SUBSET Level /\ re \in BOOLEAN
    BY <2>2, <2>3, <2>4, <2>5 DEF st, li, pe, re
  <2>8. /\ n \in Kernel /\ n.suspend = o.suspend /\ n.prio = o.prio /\ n.state = st
        /\ n.link = li /\ n.queue = joined /\ n.pending = pe
    BY <1>1, <2>1, <2>6, <2>7 DEF Kernel
  <2> QED BY <2>8 DEF st, li, pe
<1>9. ASSUME NEW t \in Thread PROVE Placed(n, t)
  <2>1. Placed(o, t)
    BY <1>1
  <2>2. \A p \in Queue : Contains(n.queue[p], t) <=>
             /\ p # q
             /\ Contains(o.queue[p], t) \/ (p \in Level /\ t \in runs /\ o.prio[t] = p)
    BY <1>7, <1>8
  <2>3. CASE t \in runs
    <3>1. t \in ready /\ o.suspend[t] = 0 /\ o.prio[t] = Base[t] /\ Base[t] \in Level
      BY <1>5, <2>3 DEF runs
    <3>2. n.state[t] = "ready" /\ n.link[t] = Base[t] /\ n.suspend[t] = 0
          /\ n.prio[t] = Base[t]
      BY <1>8, <2>3, <3>1
    <3>3. Home(n, t) = Base[t] /\ Agrees(n, t)
      BY <3>2 DEF Home, Agrees
    <3>4. Home(o, t) = q
      BY <1>4, <3>1 DEF Home
    <3>5. InQueues(n, t, {Base[t]})
      BY <1>1, <2>1, <2>2, <2>3, <3>1, <3>4 DEF InQueues, Placed
    <3> QED BY <3>3, <3>5 DEF Placed
  <2>4. CASE t \in ready /\ t \notin runs
    <3>1. o.suspend[t] # 0
      BY <2>4 DEF runs, up
    <3>2. n.state[t] = "ready" /\ n.suspend[t] # 0
      BY <1>8, <2>4, <3>1
    <3>3. Home(n, t) = None /\ Agrees(n, t)
      BY <3>2 DEF Home, Agrees
    <3>4. Home(o, t) = q
      BY <1>4, <2>4 DEF Home
    <3>5. InQueues(n, t, {None})
      BY <1>1, <2>1, <2>2, <2>4, <3>4, Names DEF InQueues, Placed
    <3> QED BY <3>3, <3>5 DEF Placed
  <2>5. CASE t \notin ready
    <3>1. t \notin runs
      BY <2>5 DEF runs
    <3>2. n.state[t] = o.state[t] /\ n.suspend[t] = o.suspend[t] /\ n.prio[t] = o.prio[t]
          /\ n.link[t] = o.link[t]
      BY <1>8, <2>5, <3>1
    <3>3. Home(n, t) = Home(o, t) /\ Agrees(n, t)
      BY <2>1, <3>2 DEF Home, Agrees, Placed
    <3>4. ~ Contains(o.queue[q], t)
      BY <1>2, <2>5
    <3>5. \A p \in Queue : Contains(n.queue[p], t) <=> Contains(o.queue[p], t)
      BY <2>2, <3>1, <3>4
    <3> QED BY <2>1, <3>3, <3>5 DEF Placed, InQueues
  <2> QED BY <2>3, <2>4, <2>5
<1>10. QueuesKept(n)
  <2>1. \A p \in Queue : InOrder(n.queue[p], n.prio)
    BY <1>7, <1>8
  <2>2. ASSUME NEW p \in Level PROVE p \in n.pending <=> n.queue[p] # <<>>
    <3>1. p \in Queue /\ p # q
      BY <1>1, Names
    <3>2. n.queue[p] # <<>> <=> \E t \in Thread : Contains(n.queue[p], t)
      BY <1>7, <1>8, <3>1, EmptyHasNone
    <3>3. o.queue[p] # <<>> <=> \E t \in Thread : Contains(o.queue[p], t)
      BY <1>1, <3>1, KernelFields, EmptyHasNone
    <3>4. runs \subseteq Thread
      BY <1>2 DEF runs
    <3>5. (\E t \in Thread : Contains(n.queue[p], t)) <=>
            \/ \E t \in Thread : Contains(o.queue[p], t)
            \/ \E t \in runs : o.prio[t] = p
      BY <1>7, <1>8, <3>1, <3>4
    <3>6. p \in o.pending <=> o.queue[p] # <<>>
      BY <1>1 DEF QueuesKept
    <3> QED BY <1>8, <3>2, <3>3, <3>5, <3>6
  <2>3. n.pending \subseteq Level
    BY <1>8, KernelFields
  <2> QED BY <2>1, <2>2, <2>3 DEF QueuesKept
<1>11. KernelOK(n)
  BY <1>8, <1>9, <1>10 DEF KernelOK
<1>12. \A t \in Thread : n.state[t] = "running" <=> o.state[t] = "running"
  BY <1>4, <1>8
<1>13. \A t \in Thread : o.state[t] # "waiting" => n.state[t] = o.state[t]
  BY <1>4, <1>8
<1> QED BY <1>11, <1>12, <1>13 DEF n

\* A Running thread that is switched out goes behind its equals.
LEMMA PreemptKeeps ==
  ASSUME NEW o, NEW t \in Thread, KernelOK(o), o.state[t] = "running"
  PROVE  /\ KernelOK(Enqueued(o, t))
         /\ Enqueued(o, t).state = [o.state EXCEPT ![t] = "ready"]
         /\ Enqueued(o, t).pending # {}
<1> DEFINE n == Enqueued(o, t)
<1>1. o \in Kernel /\ QueuesKept(o) /\ Placed(o, t) /\ \A u \in Thread : Placed(o, u)
  BY DEF KernelOK
<1>2. /\ Home(o, t) = None /\ InQueues(o, t, {}) /\ o.prio[t] = Base[t]
      /\ o.suspend[t] = 0 /\ Base[t] \in Level
  BY <1>1, InNone, Names DEF Home, Placed, Agrees
<1>3. \A u : Contains(o.queue[Base[t]], u) => o.prio[u] <= o.prio[t]
  <2> TAKE u
  <2> HAVE Contains(o.queue[Base[t]], u)
  <2>1. u \in Thread
    <3>1. o.queue[Base[t]] \in Seq(Thread)
      <4>1. Base[t] \in Queue
        BY <1>2, Names
      <4> QED BY <1>1, <4>1, KernelFields
    <3> QED BY <3>1 DEF Contains
  <2>2. o.prio[u] = Base[t]
    BY <1>2, <2>1, RunnableRun
  <2>3. Base[t] \in Int
    BY <1>2, LevelsAreNumbers
  <2> QED BY <1>2, <2>2, <2>3
<1>4. /\ Moves(o, n, t, {Base[t]}) /\ n.state = [o.state EXCEPT ![t] = "ready"]
      /\ n.suspend = o.suspend /\ n.prio = o.prio /\ n.link[t] = Base[t]
  BY <1>1, <1>2, <1>3, EnqueueMoves
<1> HIDE DEF n
<1>5. n.state[t] = "ready"
  BY <1>1, <1>4, KernelFields
<1>6. Home(n, t) = Base[t] /\ Agrees(n, t)
  BY <1>2, <1>4, <1>5 DEF Home, Agrees
<1>7. KernelOK(n)
  BY <1>1, <1>4, <1>6, MovesHome
<1>8. n.pending # {}
  <2>1. Base[t] \in Queue /\ n.queue[Base[t]] \in Seq(Thread)
    <3>1. n \in Kernel /\ Base[t] \in Queue
      BY <1>2, <1>4, Names DEF Moves
    <3> QED BY <3>1, KernelFields
  <2>2. Contains(n.queue[Base[t]], t)
    BY <1>4, <2>1 DEF Moves, InQueues
  <2>3. n.queue[Base[t]] # <<>>
    BY <2>2, EmptyFits
  <2> QED BY <1>2, <1>7, <2>3 DEF KernelOK, QueuesKept
<1> QED BY <1>4, <1>7, <1>8 DEF n

\* The kernel after SelectThread took the head of the most urgent run queue.
Chosen(o) == Head(o.queue[Urgent(o)])
Dispatched(o) ==
    [o EXCEPT !.queue[Urgent(o)] = Tail(o.queue[Urgent(o)]), !.link[Chosen(o)] = None,
              !.pending = IF Tail(o.queue[Urgent(o)]) = <<>> THEN @ \ {Urgent(o)} ELSE @,
              !.state[Chosen(o)] = "running", !.resched = FALSE]

LEMMA DispatchIs ==
  ASSUME NEW o, Dispatch(o)
  PROVE  /\ os' = Dispatched(o) /\ running' = Chosen(o) /\ fiber' = Chosen(o)
         /\ astray' \subseteq astray /\ Return
  BY DEF Dispatch, Dispatched, Chosen

LEMMA UrgentIsPending ==
  ASSUME NEW o \in Kernel, o.pending # {}
  PROVE  Urgent(o) \in o.pending /\ \A x \in o.pending : Urgent(o) <= x
<1>1. o.pending \subseteq Nat
  <2>1. o.pending \subseteq Level
    BY KernelFields
  <2> QED BY <2>1, LevelsAreNumbers
<1>2. \E p \in o.pending : \A x \in o.pending : p <= x
  BY <1>1, NatMin
<1> QED BY <1>2 DEF Urgent

LEMMA DispatchKeeps ==
  ASSUME NEW o, KernelOK(o), o.pending # {}
  PROVE  /\ KernelOK(Dispatched(o)) /\ Chosen(o) \in Thread
         /\ Dispatched(o).state = [o.state EXCEPT ![Chosen(o)] = "running"]
<1> DEFINE p == Urgent(o)
           t == Chosen(o)
           rest == Tail(o.queue[p])
           n == Dispatched(o)
<1>1. o \in Kernel /\ QueuesKept(o) /\ \A u \in Thread : Placed(o, u)
  BY DEF KernelOK
<1>2. p \in Level /\ p \in Queue /\ o.queue[p] # <<>> /\ o.queue[p] \in Seq(Thread)
  <2>1. p \in Level /\ o.queue[p] # <<>>
    BY <1>1, UrgentIsPending DEF QueuesKept
  <2>2. o.queue \in [Queue -> Seq(Thread)]
    BY <1>1, KernelFields
  <2> HIDE DEF p
  <2>3. p \in Queue
    BY <2>1, Names
  <2> QED BY <2>1, <2>2, <2>3
<1> HIDE DEF p
<1>3. t \in Thread /\ t = Head(o.queue[p]) /\ Contains(o.queue[p], t)
  BY <1>2, HeadFits DEF Chosen, p
<1>4. /\ o.state[t] = "ready" /\ o.suspend[t] = 0 /\ o.link[t] = p
      /\ o.prio[t] = p /\ Base[t] = p
  BY <1>2, <1>3, RunnableRun
<1>5. /\ rest \in Seq(Thread) /\ InOrder(rest, o.prio)
      /\ \A u : Contains(rest, u) <=> Contains(o.queue[p], u) /\ u # t
  BY <1>1, <1>2, <1>3, TailFits DEF QueuesKept
<1>6. n = [o EXCEPT !.queue[p] = rest, !.link[t] = None,
              !.pending = IF rest = <<>> THEN @ \ {p} ELSE @,
              !.state[t] = "running", !.resched = FALSE]
  BY DEF Dispatched, p
<1> HIDE DEF n, rest, t
<1>7. /\ n \in Kernel
      /\ n.suspend = o.suspend /\ n.prio = o.prio
      /\ n.state = [o.state EXCEPT ![t] = "running"]
      /\ n.link = [o.link EXCEPT ![t] = None]
      /\ n.queue = [o.queue EXCEPT ![p] = rest]
      /\ n.pending = IF rest = <<>> THEN o.pending \ {p} ELSE o.pending
  BY <1>1, <1>2, <1>3, <1>5, <1>6 DEF Kernel
<1>8. /\ n.queue[p] = rest /\ \A r \in Queue \ {p} : n.queue[r] = o.queue[r]
      /\ n.state[t] = "running"
      /\ \A u \in Thread \ {t} : n.link[u] = o.link[u] /\ n.state[u] = o.state[u]
  BY <1>1, <1>2, <1>3, <1>7, KernelFields
<1>9. Others(o, n, t)
  BY <1>5, <1>7, <1>8 DEF Others
<1>10. InQueues(n, t, {})
  <2>1. InQueues(o, t, {p})
    BY <1>1, <1>3, <1>4 DEF Placed, Home
  <2> QED BY <1>2, <1>5, <1>8, <2>1 DEF InQueues
<1>11. QueuesKept(n)
  <2>1. \A r \in Queue : InOrder(n.queue[r], n.prio)
    BY <1>1, <1>5, <1>7, <1>8 DEF QueuesKept
  <2>2. \A r \in Level \ {p} : r \in n.pending <=> r \in o.pending
    BY <1>7
  <2>3. p \in n.pending <=> n.queue[p] # <<>>
    BY <1>1, <1>2, <1>7, <1>8 DEF QueuesKept
  <2>4. n.pending = {r \in Level : n.queue[r] # <<>>}
    <3>1. \A r \in Queue \ {p} : n.queue[r] = o.queue[r]
      BY <1>8
    <3>2. n \in Kernel /\ QueuesKept(o) /\ o \in Kernel /\ p \in Queue
      BY <1>1, <1>2, <1>7
    <3> QED BY <2>2, <2>3, <3>1, <3>2, PendingFits
  <2> QED BY <2>1, <2>4 DEF QueuesKept
<1>12. Home(n, t) = None /\ Agrees(n, t)
  BY <1>4, <1>7, <1>8 DEF Home, Agrees
<1>13. Moves(o, n, t, {Home(n, t)})
  BY <1>7, <1>9, <1>10, <1>11, <1>12, InNone DEF Moves
<1>14. KernelOK(n)
  BY <1>1, <1>3, <1>12, <1>13, MovesHome
<1> QED BY <1>3, <1>7, <1>14 DEF n, t

-----------------------------------------------------------------------------
(* A call that changes what runs leaves the reschedule flag set, or has     *)
(* brought nobody forward; none of them takes the flag back.                *)

\* whoever is Running in n without the flag was so in o, among no more queues
Calm(o, n) ==
    ~ n.resched =>
        /\ ~ o.resched /\ n.pending \subseteq o.pending
        /\ \A t \in Thread : n.state[t] = "running" =>
                                o.state[t] = "running" /\ n.prio[t] = o.prio[t]

Runs(o) == [p \in Level |-> o.queue[p]]

LEMMA SideIsCalm ==
  ASSUME NEW o, NEW n, n.state = o.state, n.prio = o.prio, n.pending = o.pending,
         n.resched = o.resched
  PROVE  Calm(o, n)
  BY DEF Calm

LEMMA ParksAreCalm ==
  ASSUME NEW o \in Kernel, NEW parks
  PROVE  Calm(o, [o EXCEPT !.parks = parks])
<1> DEFINE n == [o EXCEPT !.parks = parks]
<1>1. n.state = o.state /\ n.prio = o.prio /\ n.pending = o.pending /\ n.resched = o.resched
  BY DEF Kernel
<1> HIDE DEF n
<1>2. Calm(o, n)
  BY <1>1, SideIsCalm
<1> QED BY <1>2 DEF n

LEMMA CalmChain ==
  ASSUME NEW o, NEW m, NEW n, Calm(o, m), Calm(m, n)
  PROVE  Calm(o, n)
  BY DEF Calm

LEMMA UnlinkedFields ==
  ASSUME NEW o \in Kernel, NEW t
  PROVE  /\ Unlinked(o, t).state = o.state /\ Unlinked(o, t).prio = o.prio
         /\ Unlinked(o, t).resched = o.resched
         /\ Unlinked(o, t).pending \subseteq o.pending
<1> DEFINE q == o.link[t]
           rest == Without(o.queue[q], t)
           n == Unlinked(o, t)
<1>1. CASE q = None
  BY <1>1 DEF Unlinked
<1>2. CASE q # None
  <2>1. n = [o EXCEPT !.queue[q] = rest, !.link[t] = None,
                      !.pending = IF rest = <<>> THEN @ \ {q} ELSE @]
    BY <1>2 DEF Unlinked
  <2> HIDE DEF rest, q, n
  <2>2. n.state = o.state /\ n.prio = o.prio /\ n.resched = o.resched
    BY <2>1 DEF Kernel
  <2>3. n.pending = IF rest = <<>> THEN o.pending \ {q} ELSE o.pending
    BY <2>1 DEF Kernel
  <2> QED BY <2>2, <2>3 DEF n
<1> QED BY <1>1, <1>2

LEMMA LinkedPending ==
  ASSUME NEW o \in Kernel, NEW t, NEW q, q \notin Level
  PROVE  Linked(o, q, t).pending = o.pending
<1> DEFINE s == Inserted(o.queue[q], o.prio, t)
           n == Linked(o, q, t)
<1>1. n = [o EXCEPT !.queue[q] = s, !.link[t] = q,
                    !.pending = IF q \in Level THEN @ \cup {q} ELSE @]
  BY LinkedInserts, Zenon
<1> HIDE DEF s, n
<1>2. n.pending = o.pending
  BY <1>1 DEF Kernel
<1> QED BY <1>2 DEF n

LEMMA LinkedFlag ==
  ASSUME NEW o \in Kernel, NEW t, NEW q
  PROVE  Linked(o, q, t).resched = o.resched
<1> DEFINE s == Inserted(o.queue[q], o.prio, t)
           n == Linked(o, q, t)
<1>1. n = [o EXCEPT !.queue[q] = s, !.link[t] = q,
                    !.pending = IF q \in Level THEN @ \cup {q} ELSE @]
  BY LinkedInserts, Zenon
<1> HIDE DEF s, n
<1>2. n.resched = o.resched
  BY <1>1 DEF Kernel
<1> QED BY <1>2 DEF n

\* A thread that waits moves in its wait queue: nobody comes forward.
LEMMA RequeueIsCalm ==
  ASSUME NEW o \in Kernel, NEW t \in Thread, NEW p \in Level \cup {Lowest}, QueuesKept(o),
         o.link[t] \in WaitQueue, InQueues(o, t, {o.link[t]}), o.state[t] = "waiting"
  PROVE  Calm(o, Requeued(o, t, p))
<1> DEFINE u == Unlinked(o, t)
           out == [u EXCEPT !.prio[t] = p]
           n == Linked(out, o.link[t], t)
<1>1. o.link[t] \in Queue /\ o.link[t] # None /\ o.link[t] \notin Level
  BY Names
<1>2. Requeued(o, t, p) = n
  BY <1>1 DEF Requeued
<1>3. /\ Moves(o, u, t, {}) /\ u.state = o.state /\ u.prio = o.prio /\ u.resched = o.resched
  BY <1>1, UnlinkMoves
<1>4. u.pending \subseteq o.pending
  BY UnlinkedFields
<1> HIDE DEF u
<1>5. u \in Kernel /\ QueuesKept(u) /\ InQueues(u, t, {})
  BY <1>3 DEF Moves
<1>6. /\ out \in Kernel /\ out.state = u.state /\ out.resched = u.resched
      /\ out.link = u.link /\ out.queue = u.queue /\ out.pending = u.pending
      /\ out.prio = [u.prio EXCEPT ![t] = p] /\ out.suspend = u.suspend
  BY <1>5 DEF Kernel
<1> HIDE DEF out
<1>7. \A v \in Thread \ {t} : out.prio[v] = o.prio[v]
  BY <1>3, <1>5, <1>6, KernelFields
<1>8. QueuesKept(out) /\ InQueues(out, t, {})
  <2>1. out.prio[t] = p /\ \A v \in Thread \ {t} : out.prio[v] = u.prio[v]
    BY <1>5, <1>6, KernelFields
  <2>2. Moves(u, out, t, {})
    BY <1>5, <1>6, <1>7, <2>1, FieldsMove
  <2> QED BY <2>2 DEF Moves
<1>9. n.state = out.state /\ n.prio = out.prio /\ n.resched = out.resched
  <2>1. n = Linked(out, o.link[t], t)
    OBVIOUS
  <2> HIDE DEF n
  <2> QED BY <1>1, <1>6, <1>8, <2>1, LinkMoves
<1>10. n.pending = out.pending
  BY <1>1, <1>6, LinkedPending
<1> HIDE DEF n
<1> QED BY <1>2, <1>3, <1>4, <1>6, <1>7, <1>9, <1>10 DEF Calm

LEMMA SuspendIsCalm ==
  ASSUME NEW o, NEW t \in Thread, KernelOK(o), o.suspend[t] < MaxSuspend
  PROVE  /\ Calm(o, Suspended(o, t))
         /\ o.suspend[t] > 0 => Suspended(o, t).queue = o.queue
<1> DEFINE up == [o EXCEPT !.suspend[t] = @ + 1]
           n == Suspended(o, t)
<1>1. /\ o \in Kernel /\ QueuesKept(o) /\ Placed(o, t)
      /\ o.suspend[t] \in Nat /\ o.state[t] \in {"ready", "running", "waiting"}
  <2>1. o \in Kernel /\ QueuesKept(o) /\ \A u \in Thread : Placed(o, u)
    BY DEF KernelOK
  <2>2. o.suspend[t] \in 0..MaxSuspend /\ o.state[t] \in {"ready", "running", "waiting"}
    BY <2>1, KernelFields
  <2> QED BY <2>1, <2>2, ThreadAssumption
<1>2. /\ up \in Kernel /\ up.state = o.state /\ up.prio = o.prio
      /\ up.link = o.link /\ up.queue = o.queue /\ up.pending = o.pending
      /\ up.resched = o.resched
  <2>1. o.suspend[t] + 1 \in 0..MaxSuspend
    BY <1>1, ThreadAssumption
  <2> QED BY <1>1, <2>1 DEF Kernel
<1> HIDE DEF up
<1>3. Calm(o, up)
  BY <1>2, SideIsCalm
<1>4. CASE o.suspend[t] > 0
  <2>1. n = up
    BY <1>4 DEF Suspended, up
  <2> QED BY <1>2, <1>3, <2>1
<1>5. CASE o.suspend[t] = 0 /\ o.state[t] = "ready"
  <2>1. n = Unlinked(up, t)
    BY <1>5 DEF Suspended, up
  <2>3. /\ n.state = up.state /\ n.prio = up.prio /\ n.pending \subseteq up.pending
        /\ n.resched = up.resched
    BY <1>2, <2>1, UnlinkedFields
  <2> HIDE DEF n
  <2>4. Calm(o, n)
    BY <1>2, <2>3 DEF Calm
  <2> QED BY <1>5, <2>4 DEF n
<1>6. CASE o.suspend[t] = 0 /\ o.state[t] = "running"
  <2>1. n.resched = TRUE
    BY <1>6, SuspendKeeps
  <2> HIDE DEF n
  <2> QED BY <1>6, <2>1 DEF Calm, n
<1>7. CASE o.suspend[t] = 0 /\ o.state[t] = "waiting"
  <2>1. n = Requeued(up, t, Lowest)
    BY <1>7 DEF Suspended, up
  <2>2. /\ up.link[t] \in WaitQueue /\ InQueues(up, t, {up.link[t]}) /\ QueuesKept(up)
        /\ up.state[t] = "waiting"
    BY <1>1, <1>2, <1>7 DEF Placed, Home, Agrees, InQueues, QueuesKept
  <2>3. Calm(up, n)
    BY <1>2, <2>1, <2>2, RequeueIsCalm
  <2> QED BY <1>3, <1>7, <2>3, CalmChain
<1> QED BY <1>1, <1>4, <1>5, <1>6, <1>7

LEMMA ResumeIsCalm ==
  ASSUME NEW o, NEW t \in Thread, KernelOK(o)
  PROVE  /\ Calm(o, Resumed(o, t))
         /\ o.suspend[t] # 1 => Resumed(o, t).queue = o.queue
<1> DEFINE c == IF o.suspend[t] = 0 THEN 0 ELSE o.suspend[t] - 1
           down == [o EXCEPT !.suspend[t] = IF @ = 0 THEN 0 ELSE @ - 1]
           free == Disarmed(down, t)
           ready == [free EXCEPT !.state[t] = "ready", !.prio[t] = Base[t],
                                 !.resched = TRUE]
           n == Resumed(o, t)
<1>1. /\ o \in Kernel /\ QueuesKept(o) /\ Placed(o, t)
      /\ o.suspend[t] \in 0..MaxSuspend
  <2>1. o \in Kernel /\ QueuesKept(o) /\ \A u \in Thread : Placed(o, u)
    BY DEF KernelOK
  <2> QED BY <2>1, KernelFields
<1>2. /\ down \in Kernel /\ down.state = o.state /\ down.prio = o.prio
      /\ down.link = o.link /\ down.queue = o.queue /\ down.pending = o.pending
      /\ down.resched = o.resched
  <2>1. c \in 0..MaxSuspend
    BY <1>1, ThreadAssumption
  <2>2. down = [o EXCEPT !.suspend[t] = c]
    BY <1>1, KernelFields
  <2> HIDE DEF c, down
  <2> QED BY <1>1, <2>1, <2>2 DEF Kernel
<1> HIDE DEF c, down
<1>3. CASE o.suspend[t] # 1
  <2>1. n = down
    BY <1>3 DEF Resumed, down
  <2> QED BY <1>2, <2>1, SideIsCalm
<1>4. /\ free \in Kernel /\ free.state = o.state /\ free.prio = o.prio
      /\ free.link = o.link /\ free.queue = o.queue /\ free.pending = o.pending
      /\ free.resched = o.resched
  <2>1. /\ free \in Kernel /\ free.state = down.state
        /\ free.prio = down.prio /\ free.link = down.link
        /\ free.queue = down.queue /\ free.pending = down.pending
        /\ free.resched = down.resched
    BY <1>2, DisarmedFits
  <2> HIDE DEF free
  <2> QED BY <1>2, <2>1
<1> HIDE DEF free
<1>5. CASE o.suspend[t] = 1 /\ o.state[t] = "waiting"
  <2>1. n = Requeued(free, t, Base[t])
    BY <1>5 DEF Resumed, down, free
  <2>2. /\ free.link[t] \in WaitQueue /\ InQueues(free, t, {free.link[t]}) /\ QueuesKept(free)
        /\ free.state[t] = "waiting"
    BY <1>1, <1>4, <1>5 DEF Placed, Home, Agrees, InQueues, QueuesKept
  <2>3. Calm(free, n)
    BY <1>4, <2>1, <2>2, Names, RequeueIsCalm
  <2>4. Calm(o, free)
    BY <1>4, SideIsCalm
  <2> QED BY <1>5, <2>3, <2>4, CalmChain
<1>6. CASE o.suspend[t] = 1 /\ o.state[t] # "waiting"
  <2>1. n = Linked(ready, Base[t], t)
    BY <1>6 DEF Resumed, down, free
  <2>2. ready \in Kernel /\ ready.resched = TRUE
    BY <1>4, Names DEF Kernel
  <2> HIDE DEF ready
  <2>3. n.resched = TRUE
    BY <2>1, <2>2, LinkedFlag
  <2> HIDE DEF n
  <2> QED BY <1>6, <2>3 DEF Calm, n
<1> QED BY <1>3, <1>5, <1>6

\* Waking a queue without the flag wakes nobody who may run.
LEMMA WakeIsCalm ==
  ASSUME NEW o, NEW q \in WaitQueue, KernelOK(o)
  PROVE  /\ Calm(o, Woken(o, q))
         /\ (\A i \in 1..Len(o.queue[q]) : o.suspend[o.queue[q][i]] # 0) =>
              Runs(Woken(o, q)) = Runs(o)
<1> DEFINE up == {t \in Thread : o.suspend[t] = 0}
           ready == ToSet(o.queue[q])
           runs == {t \in ready : t \in up}
           joining(p) == Kept(o.queue[q], {t \in up : o.prio[t] = p})
           n == Woken(o, q)
           state == [t \in Thread |-> IF t \in ready THEN "ready" ELSE o.state[t]]
           link == [t \in Thread |-> IF t \in runs THEN o.prio[t] ELSE o.link[t]]
           queue == [p \in Queue |->
              IF p = q THEN <<>>
              ELSE IF p \in Level THEN o.queue[p] \o joining(p)
              ELSE o.queue[p]]
           pending == o.pending \cup {o.prio[t] : t \in runs}
           resched == o.resched \/ runs # {}
<1>1. o \in Kernel /\ o.queue[q] \in Seq(Thread) /\ q \notin Level
      /\ Level \subseteq Queue
  <2>1. o \in Kernel /\ q \in Queue /\ q \notin Level /\ Level \subseteq Queue
    BY Names DEF KernelOK
  <2> QED BY <2>1, KernelFields
<1>2. n = [o EXCEPT !.state = state, !.link = link, !.queue = queue,
                    !.pending = pending, !.resched = resched]
  BY <1>1 DEF Woken, Drained, Kernel
<1>3. ready = {o.queue[q][i] : i \in 1..Len(o.queue[q])}
  BY <1>1, LenProperties DEF ToSet
<1> HIDE DEF n, state, link, queue, pending, resched
<1>4. /\ n.prio = o.prio /\ n.queue = queue /\ n.pending = pending /\ n.resched = resched
  BY <1>1, <1>2 DEF Kernel
<1>5. \A t \in Thread : n.state[t] = "running" => o.state[t] = "running"
  BY WakeKeeps DEF n
<1>6. Calm(o, n)
  <2> SUFFICES ASSUME ~ n.resched
               PROVE  ~ o.resched /\ n.pending \subseteq o.pending
    BY <1>4, <1>5 DEF Calm
  <2>1. ~ o.resched /\ runs = {}
    BY <1>4 DEF resched
  <2> QED BY <1>4, <2>1 DEF pending
<1>7. ASSUME \A i \in 1..Len(o.queue[q]) : o.suspend[o.queue[q][i]] # 0
      PROVE  Runs(n) = Runs(o)
  <2>1. \A t \in up : ~ Contains(o.queue[q], t)
    BY <1>7 DEF Contains
  <2> SUFFICES ASSUME NEW p \in Level PROVE n.queue[p] = o.queue[p]
    BY DEF Runs
  <2>2. joining(p) \in Seq(Thread) /\ \A t : ~ Contains(joining(p), t)
    BY <1>1, <2>1, KeptFits
  <2>3. joining(p) = <<>>
    BY <2>2, EmptyHasNone
  <2>4. p \in Queue /\ p # q /\ o.queue[p] \in Seq(Thread)
    BY <1>1, KernelFields
  <2>5. n.queue[p] = o.queue[p] \o joining(p)
    BY <1>4, <2>4 DEF queue
  <2> HIDE DEF joining
  <2> QED BY <2>3, <2>4, <2>5, ConcatEmptySeq
<1> QED BY <1>6, <1>7 DEF n

-----------------------------------------------------------------------------
(* The unfinished calls of a fiber.  A loop over timers runs inside of      *)
(* SelectThread or of the idle loop; a sleep is the outermost call; at most *)
(* one frame is the idle loop.                                              *)

Loops == {"poll", "timers", "heal"}
Sleeps == {"parked", "slept"}

Chained(s) ==
    \A i \in 1..Len(s) :
        /\ s[i].at \in Loops => i < Len(s) /\ s[i + 1].at \in {"pick", "idle"}
        /\ s[i].at \in Sleeps => i = Len(s)
        /\ s[i].at = "idle" => \A j \in 1..Len(s) : s[j].at = "idle" => i = j

HostsIdle(s) == \E i \in 1..Len(s) : s[i].at = "idle"
HostsSleep(s) == \E i \in 1..Len(s) : s[i].at \in Sleeps

LEMMA EmptyStack ==
  <<>> \in Seq(Frame) /\ Chained(<<>>) /\ ~ HostsIdle(<<>>) /\ ~ HostsSleep(<<>>)
  BY EmptySeq DEF Chained, HostsIdle, HostsSleep

LEMMA PushFits ==
  ASSUME NEW f \in Frame, NEW s \in Seq(Frame), Chained(s),
         f.at \in Loops => s # <<>> /\ Head(s).at \in {"pick", "idle"},
         f.at \in Sleeps => s = <<>>,
         f.at = "idle" => ~ HostsIdle(s)
  PROVE  /\ <<f>> \o s \in Seq(Frame) /\ Chained(<<f>> \o s)
         /\ HostsIdle(<<f>> \o s) <=> f.at = "idle" \/ HostsIdle(s)
         /\ HostsSleep(<<f>> \o s) <=> f.at \in Sleeps \/ HostsSleep(s)
         /\ <<f>> \o s # <<>> /\ Head(<<f>> \o s) = f
<1> DEFINE m == <<f>> \o s
<1>1. <<f>> \in Seq(Frame) /\ Len(<<f>>) = 1 /\ <<f>>[1] = f
  OBVIOUS
<1>2. /\ m \in Seq(Frame) /\ Len(m) = 1 + Len(s) /\ Len(s) \in Nat
      /\ \A i \in 1..1 + Len(s) : m[i] = IF i <= 1 THEN <<f>>[i] ELSE s[i - 1]
  BY <1>1, ConcatProperties, LenProperties
<1>3. /\ m[1] = f /\ 1 \in 1..Len(m)
      /\ \A i \in 1..Len(s) : i + 1 \in 1..Len(m) /\ m[i + 1] = s[i]
      /\ \A i \in 1..Len(m) : i = 1 \/ (i - 1 \in 1..Len(s) /\ m[i] = s[i - 1])
  BY <1>1, <1>2
<1>4. m # <<>> /\ Head(m) = f
  BY <1>2, <1>3, EmptySeq, HeadTailProperties
<1> HIDE DEF m
<1>5. HostsIdle(m) <=> f.at = "idle" \/ HostsIdle(s)
  BY <1>3, Zenon DEF HostsIdle
<1>s. HostsSleep(m) <=> f.at \in Sleeps \/ HostsSleep(s)
  BY <1>3, Zenon DEF HostsSleep
<1>6. s # <<>> => Head(s) = s[1] /\ 1 <= Len(s)
  BY EmptySeq, HeadTailProperties
<1>7. ASSUME NEW i \in 1..Len(m)
      PROVE  /\ m[i].at \in Loops => i < Len(m) /\ m[i + 1].at \in {"pick", "idle"}
             /\ m[i].at \in Sleeps => i = Len(m)
             /\ m[i].at = "idle" => \A j \in 1..Len(m) : m[j].at = "idle" => i = j
  <2>1. CASE i = 1
    <3>1. m[i].at \in Loops => i < Len(m) /\ m[i + 1].at \in {"pick", "idle"}
      BY <1>2, <1>3, <1>6, <2>1
    <3>2. m[i].at \in Sleeps => i = Len(m)
      BY <1>2, <1>3, <2>1, EmptySeq
    <3>3. ASSUME m[i].at = "idle", NEW j \in 1..Len(m), m[j].at = "idle" PROVE i = j
      BY <1>3, <2>1, <3>3 DEF HostsIdle
    <3> QED BY <3>1, <3>2, <3>3
  <2>2. CASE i - 1 \in 1..Len(s) /\ m[i] = s[i - 1]
    <3> DEFINE k == i - 1
    <3>0. k \in 1..Len(s) /\ m[i] = s[k] /\ i = k + 1
      BY <2>2
    <3> HIDE DEF k
    <3>1. m[i].at \in Loops => i < Len(m) /\ m[i + 1].at \in {"pick", "idle"}
      <4> HAVE m[i].at \in Loops
      <4>1. k < Len(s) /\ s[k + 1].at \in {"pick", "idle"}
        BY <3>0 DEF Chained
      <4>2. i \in 1..Len(s) /\ i < Len(m)
        BY <1>2, <3>0, <4>1
      <4>3. m[i + 1] = s[i]
        BY <1>3, <4>2
      <4> QED BY <3>0, <4>1, <4>2, <4>3
    <3>2. m[i].at \in Sleeps => i = Len(m)
      BY <1>2, <3>0 DEF Chained
    <3>3. ASSUME m[i].at = "idle", NEW j \in 1..Len(m), m[j].at = "idle" PROVE i = j
      <4>1. HostsIdle(s) /\ f.at # "idle"
        BY <3>0, <3>3 DEF HostsIdle
      <4>2. j # 1
        BY <1>3, <3>3, <4>1
      <4>3. j - 1 \in 1..Len(s) /\ m[j] = s[j - 1]
        BY <1>3, <4>2
      <4>4. k = j - 1
        BY <3>0, <3>3, <4>3 DEF Chained
      <4> QED BY <3>0, <4>4
    <3> QED BY <3>1, <3>2, <3>3
  <2> QED BY <1>3, <2>1, <2>2
<1>8. Chained(m)
  BY <1>7 DEF Chained
<1> QED BY <1>2, <1>4, <1>5, <1>s, <1>8 DEF m

LEMMA PopFits ==
  ASSUME NEW s \in Seq(Frame), s # <<>>, Chained(s)
  PROVE  /\ Head(s) \in Frame /\ Tail(s) \in Seq(Frame) /\ Chained(Tail(s))
         /\ HostsIdle(s) <=> Head(s).at = "idle" \/ HostsIdle(Tail(s))
         /\ HostsSleep(s) <=> Head(s).at \in Sleeps \/ HostsSleep(Tail(s))
         /\ Head(s).at = "idle" => ~ HostsIdle(Tail(s))
         /\ Head(s).at \in Loops =>
              Tail(s) # <<>> /\ Head(Tail(s)).at \in {"pick", "idle"}
         /\ Head(s).at \in Sleeps => Tail(s) = <<>>
<1> DEFINE r == Tail(s)
<1>1. /\ r \in Seq(Frame) /\ Len(r) = Len(s) - 1 /\ Len(s) \in Nat \ {0} /\ Len(r) \in Nat
      /\ \A i \in 1..Len(r) : r[i] = s[i + 1] /\ i + 1 \in 1..Len(s)
      /\ \A i \in 1..Len(s) : i = 1 \/ (i - 1 \in 1..Len(r) /\ r[i - 1] = s[i])
      /\ 1 \in 1..Len(s) /\ Head(s) = s[1] /\ Head(s) \in Frame
  BY HeadTailProperties, EmptySeq, LenProperties
<1> HIDE DEF r
<1>2. HostsIdle(s) <=> Head(s).at = "idle" \/ HostsIdle(r)
  <2>1. ASSUME NEW i \in 1..Len(r), r[i].at = "idle" PROVE HostsIdle(s)
    BY <1>1, <2>1 DEF HostsIdle
  <2>2. ASSUME NEW i \in 1..Len(s), s[i].at = "idle" PROVE Head(s).at = "idle" \/ HostsIdle(r)
    BY <1>1, <2>2 DEF HostsIdle
  <2>3. Head(s).at = "idle" => HostsIdle(s)
    BY <1>1 DEF HostsIdle
  <2> QED BY <2>1, <2>2, <2>3 DEF HostsIdle
<1>s. HostsSleep(s) <=> Head(s).at \in Sleeps \/ HostsSleep(r)
  <2>1. ASSUME NEW i \in 1..Len(r), r[i].at \in Sleeps PROVE HostsSleep(s)
    BY <1>1, <2>1 DEF HostsSleep
  <2>2. ASSUME NEW i \in 1..Len(s), s[i].at \in Sleeps
        PROVE  Head(s).at \in Sleeps \/ HostsSleep(r)
    BY <1>1, <2>2 DEF HostsSleep
  <2>3. Head(s).at \in Sleeps => HostsSleep(s)
    BY <1>1 DEF HostsSleep
  <2> QED BY <2>1, <2>2, <2>3 DEF HostsSleep
<1>3. Head(s).at = "idle" => ~ HostsIdle(r)
  <2> SUFFICES ASSUME Head(s).at = "idle", NEW i \in 1..Len(r), r[i].at = "idle" PROVE FALSE
    BY DEF HostsIdle
  <2>1. i + 1 \in 1..Len(s) /\ s[i + 1].at = "idle" /\ s[1].at = "idle" /\ i + 1 # 1
    BY <1>1
  <2> QED BY <1>1, <2>1 DEF Chained
<1>4. Head(s).at \in Loops => r # <<>> /\ Head(r).at \in {"pick", "idle"}
  <2> HAVE Head(s).at \in Loops
  <2>1. 1 < Len(s) /\ s[1 + 1].at \in {"pick", "idle"}
    BY <1>1 DEF Chained
  <2>2. 1 \in 1..Len(r) /\ r[1] = s[1 + 1]
    BY <1>1, <2>1
  <2>3. r # <<>> /\ Head(r) = r[1]
    BY <1>1, <2>2, EmptySeq
  <2> QED BY <2>1, <2>2, <2>3
<1>5. Head(s).at \in Sleeps => r = <<>>
  <2> HAVE Head(s).at \in Sleeps
  <2>1. Len(s) = 1
    BY <1>1 DEF Chained
  <2> QED BY <1>1, <2>1, EmptySeq
<1>6. Chained(r)
  <2> SUFFICES ASSUME NEW i \in 1..Len(r)
               PROVE  /\ r[i].at \in Loops => i < Len(r) /\ r[i + 1].at \in {"pick", "idle"}
                      /\ r[i].at \in Sleeps => i = Len(r)
                      /\ r[i].at = "idle" => \A j \in 1..Len(r) : r[j].at = "idle" => i = j
    BY DEF Chained
  <2>1. i + 1 \in 1..Len(s) /\ r[i] = s[i + 1]
    BY <1>1
  <2>2. r[i].at \in Loops => i < Len(r) /\ r[i + 1].at \in {"pick", "idle"}
    <3> HAVE r[i].at \in Loops
    <3>1. i + 1 < Len(s) /\ s[(i + 1) + 1].at \in {"pick", "idle"}
      BY <2>1 DEF Chained
    <3>2. i + 1 \in 1..Len(r) /\ i < Len(r)
      BY <1>1, <3>1
    <3> QED BY <1>1, <3>1, <3>2
  <2>3. r[i].at \in Sleeps => i = Len(r)
    BY <1>1, <2>1 DEF Chained
  <2>4. ASSUME r[i].at = "idle", NEW j \in 1..Len(r), r[j].at = "idle" PROVE i = j
    <3>1. j + 1 \in 1..Len(s) /\ r[j] = s[j + 1]
      BY <1>1
    <3>2. i + 1 = j + 1
      BY <2>1, <2>4, <3>1 DEF Chained
    <3> QED BY <3>2
  <2> QED BY <2>2, <2>3, <2>4
<1> QED BY <1>1, <1>2, <1>s, <1>3, <1>4, <1>5, <1>6 DEF r

LEMMA FrameFits ==
  /\ [at |-> "poll"] \in Frame /\ [at |-> "idle"] \in Frame /\ [at |-> "parked"] \in Frame
  /\ [at |-> "torn"] \in Frame
  /\ \A force \in BOOLEAN : [at |-> "pick", force |-> force] \in Frame
  /\ \A list \in Seq(Thread) : /\ [at |-> "timers", list |-> list] \in Frame
                               /\ [at |-> "heal", list |-> list] \in Frame
  /\ \A q \in WaitQueue : [at |-> "slept", queue |-> q] \in Frame
  BY DEF Frame

\* Nothing is called, or SelectThread is.
Onward == {<<>>, Select(TRUE), Select(FALSE)}

LEMMA PairFits ==
  ASSUME NEW S, NEW a \in S, NEW b \in S
  PROVE  <<a, b>> \in Seq(S) /\ <<a, b>> = <<a>> \o <<b>> /\ <<a, b>> # <<>>
         /\ <<a>> \in Seq(S) /\ <<b>> \in Seq(S)
<1>1. /\ <<a>> \in Seq(S) /\ <<b>> \in Seq(S) /\ <<a, b>> \in Seq(S)
      /\ Len(<<a, b>>) = 2 /\ <<a, b>>[1] = a /\ <<a, b>>[2] = b
      /\ Len(<<a>>) = 1 /\ Len(<<b>>) = 1 /\ <<a>>[1] = a /\ <<b>>[1] = b
  OBVIOUS
<1>2. /\ <<a>> \o <<b>> \in Seq(S) /\ Len(<<a>> \o <<b>>) = 2
      /\ \A i \in 1..2 : (<<a>> \o <<b>>)[i] = IF i <= 1 THEN <<a>>[i] ELSE <<b>>[i - 1]
  BY <1>1, ConcatProperties
<1>3. \A i \in 1..2 : (<<a>> \o <<b>>)[i] = <<a, b>>[i]
  <2> TAKE i \in 1..2
  <2>1. i = 1 \/ i = 2
    OBVIOUS
  <2> QED BY <1>1, <1>2, <2>1
<1>4. <<a, b>> = <<a>> \o <<b>>
  BY <1>1, <1>2, <1>3, SeqEqual
<1> QED BY <1>1, <1>4

LEMMA OnwardFits == \A c \in Onward : c \in Seq(Frame)
<1>1. ASSUME NEW force \in BOOLEAN PROVE Select(force) \in Seq(Frame)
  <2> DEFINE a == [at |-> "poll"]
             b == [at |-> "pick", force |-> force]
  <2>1. a \in Frame /\ b \in Frame
    BY FrameFits
  <2>2. Select(force) = <<a, b>>
    BY DEF Select
  <2> HIDE DEF a, b
  <2> QED BY <2>1, <2>2, PairFits
<1> QED BY <1>1, EmptySeq DEF Onward

LEMMA CallFits ==
  ASSUME NEW c \in Onward, NEW s \in Seq(Frame), Chained(s)
  PROVE  /\ c \o s \in Seq(Frame) /\ Chained(c \o s)
         /\ HostsIdle(c \o s) <=> HostsIdle(s)
         /\ HostsSleep(c \o s) <=> HostsSleep(s)
         /\ c = <<>> => c \o s = s
         /\ c # <<>> => c \o s # <<>> /\ Head(c \o s).at = "poll"
<1>1. CASE c = <<>>
  BY <1>1, ConcatEmptySeq
<1>2. ASSUME NEW force \in BOOLEAN, c = Select(force)
      PROVE  /\ c \o s \in Seq(Frame) /\ Chained(c \o s)
             /\ HostsIdle(c \o s) <=> HostsIdle(s)
             /\ HostsSleep(c \o s) <=> HostsSleep(s)
             /\ c # <<>> /\ c \o s # <<>> /\ Head(c \o s).at = "poll"
  <2> DEFINE a == [at |-> "poll"]
             b == [at |-> "pick", force |-> force]
  <2>1. a \in Frame /\ b \in Frame /\ a.at = "poll" /\ b.at = "pick"
    BY FrameFits
  <2>2. c = <<a, b>>
    BY <1>2 DEF Select
  <2> HIDE DEF a, b
  <2>3. c = <<a>> \o <<b>> /\ c # <<>> /\ <<a>> \in Seq(Frame) /\ <<b>> \in Seq(Frame)
    BY <2>1, <2>2, PairFits
  <2>4. c \o s = <<a>> \o (<<b>> \o s)
    BY <2>3, ConcatAssociative
  <2>5. /\ <<b>> \o s \in Seq(Frame) /\ Chained(<<b>> \o s)
        /\ HostsIdle(<<b>> \o s) <=> HostsIdle(s)
        /\ HostsSleep(<<b>> \o s) <=> HostsSleep(s)
        /\ <<b>> \o s # <<>> /\ Head(<<b>> \o s) = b
    BY <2>1, PushFits DEF Loops, Sleeps
  <2> DEFINE t == <<b>> \o s
  <2> HIDE DEF t
  <2>6. /\ <<a>> \o t \in Seq(Frame) /\ Chained(<<a>> \o t)
        /\ HostsIdle(<<a>> \o t) <=> HostsIdle(t)
        /\ HostsSleep(<<a>> \o t) <=> HostsSleep(t)
        /\ <<a>> \o t # <<>> /\ Head(<<a>> \o t) = a
    BY <2>1, <2>5, PushFits DEF Loops, Sleeps, t
  <2> QED BY <2>1, <2>3, <2>4, <2>5, <2>6 DEF t
<1> QED BY <1>1, <1>2 DEF Onward

\* SelectThread, or nothing, is called inside of the frame f.
LEMMA CallInside ==
  ASSUME NEW c \in Onward, NEW f \in Frame, NEW s \in Seq(Frame), Chained(s),
         f.at \in Loops => s # <<>> /\ Head(s).at \in {"pick", "idle"},
         f.at \in Sleeps => s = <<>>,
         f.at = "idle" => ~ HostsIdle(s)
  PROVE  LET m == (c \o <<f>>) \o s
         IN  /\ m \in Seq(Frame) /\ Chained(m) /\ m # <<>>
             /\ HostsIdle(m) <=> f.at = "idle" \/ HostsIdle(s)
             /\ HostsSleep(m) <=> f.at \in Sleeps \/ HostsSleep(s)
             /\ Head(m).at = IF c = <<>> THEN f.at ELSE "poll"
<1> DEFINE t == <<f>> \o s
<1>1. /\ t \in Seq(Frame) /\ Chained(t) /\ t # <<>> /\ Head(t) = f
      /\ HostsIdle(t) <=> f.at = "idle" \/ HostsIdle(s)
      /\ HostsSleep(t) <=> f.at \in Sleeps \/ HostsSleep(s)
  BY PushFits
<1>2. c \in Seq(Frame) /\ <<f>> \in Seq(Frame)
  BY OnwardFits
<1>3. (c \o <<f>>) \o s = c \o t
  BY <1>2, ConcatAssociative
<1> HIDE DEF t
<1> QED BY <1>1, <1>3, CallFits

-----------------------------------------------------------------------------
(* The invariant.                                                           *)

\* t is Running, or went astray (is in a): it is Ready, perhaps suspended, and
\* the switch away from it is still requested
OnFiber(o, t, a) ==
    o.state[t] = "running" \/ (t \in a /\ o.state[t] = "ready" /\ o.resched)

\* Only the thread of the running context is Running, on its own fiber; a
\* fiber that disabled the scheduler goes on executing, and is not asleep.
RunInv ==
    /\ \A t \in Thread : os.state[t] = "running" => running = t
    /\ running # None => running = fiber
    /\ disabled > 0 => /\ running = fiber /\ OnFiber(os, fiber, astray)
                       /\ ~ HostsSleep(stack[fiber])

\* The idle loop is a frame of the executing fiber, and only while no thread
\* runs; the ends of the sleeps run on a Running thread, and so does guest code
\* unless its thread went astray.
StackInv ==
    /\ \A t \in Thread : Chained(stack[t])
    /\ \A t \in Thread : HostsIdle(stack[t]) <=> running = None /\ t = fiber
    /\ stack[fiber] = <<>> => OnFiber(os, fiber, astray)
    /\ stack[fiber] # <<>> /\ Head(stack[fiber]).at \in Sleeps =>
         os.state[fiber] = "running"

KernelInv == TypeOK /\ KernelOK(os) /\ RunInv /\ StackInv

LEMMA KernelInvFacts ==
  ASSUME KernelInv
  PROVE  /\ KernelOK(os) /\ os \in Kernel /\ fiber \in Thread /\ fiber # None
         /\ stack \in [Thread -> Seq(Frame)] /\ stack[fiber] \in Seq(Frame)
         /\ Chained(stack[fiber]) /\ (HostsIdle(stack[fiber]) <=> running = None)
         /\ disabled \in Nat
<1>1. /\ KernelOK(os) /\ os \in Kernel /\ fiber \in Thread /\ fiber # None
      /\ stack \in [Thread -> Seq(Frame)] /\ disabled \in 0..MaxDisable
  BY Names DEF KernelInv, TypeOK
<1>2. stack[fiber] \in Seq(Frame) /\ disabled \in Nat
  BY <1>1, ThreadAssumption
<1> QED BY <1>1, <1>2 DEF KernelInv, StackInv

\* A call that leaves the state of a thread alone leaves it where it was.
LEMMA StaysOn ==
  ASSUME NEW o, NEW n, NEW t, NEW a, NEW b, OnFiber(o, t, a), Calm(o, n),
         n.state[t] = o.state[t], a \subseteq b
  PROVE  OnFiber(n, t, b)
  BY DEF OnFiber, Calm

\* A step that stays on its fiber, whose unfinished calls become s.
LEMMA StayKeeps ==
  ASSUME NEW s \in Seq(Frame), KernelInv, KernelOK(os'),
         \A t \in Thread : os'.state[t] = "running" => os.state[t] = "running",
         Chained(s), HostsIdle(s) <=> running = None,
         s = <<>> => OnFiber(os', fiber, astray'),
         s # <<>> /\ Head(s).at \in Sleeps => os'.state[fiber] = "running",
         stack' = [stack EXCEPT ![fiber] = s],
         UNCHANGED <<running, fiber>>,
         disabled' \in 0..MaxDisable, seen' \subseteq Thread, astray' \subseteq Thread,
         disabled' > 0 => /\ running = fiber /\ OnFiber(os', fiber, astray')
                          /\ ~ HostsSleep(s)
  PROVE  KernelInv'
<1>1. /\ stack'[fiber] = s /\ fiber \in Thread
      /\ \A t \in Thread \ {fiber} : stack'[t] = stack[t]
      /\ stack' \in [Thread -> Seq(Frame)]
  BY KernelInvFacts
<1>2. TypeOK'
  BY <1>1 DEF KernelInv, TypeOK, KernelOK
<1>3. RunInv'
  BY <1>1 DEF KernelInv, RunInv
<1>4. StackInv'
  <2>1. \A t \in Thread : Chained(stack'[t])
    BY <1>1 DEF KernelInv, StackInv
  <2>2. \A t \in Thread : HostsIdle(stack'[t]) <=> running = None /\ t = fiber
    BY <1>1 DEF KernelInv, StackInv
  <2> QED BY <1>1, <2>1, <2>2 DEF StackInv
<1> QED BY <1>2, <1>3, <1>4 DEF KernelInv

\* The executing fiber is in guest code.
LEMMA InGuest ==
  ASSUME KernelInv, InGuestCode
  PROVE  /\ running = fiber /\ running # None /\ OnFiber(os, fiber, astray)
         /\ stack[fiber] = <<>> /\ fiber \in Thread
  BY KernelInvFacts DEF InGuestCode, KernelInv, StackInv

\* Guest code calls: the calls c, inside of no frame.
LEMMA GuestCalls ==
  ASSUME NEW c \in Onward, KernelInv, InGuestCode, KernelOK(os'),
         \A t \in Thread : os'.state[t] = "running" => os.state[t] = "running",
         c = <<>> \/ disabled > 0 => OnFiber(os', fiber, astray'),
         Calling(c), UNCHANGED <<running, fiber, disabled, seen>>, astray' \subseteq Thread
  PROVE  KernelInv'
<1>1. c \o <<>> = c /\ c \in Seq(Frame)
  <2>1. c \in Seq(Frame)
    BY OnwardFits
  <2> QED BY <2>1, ConcatEmptySeq
<1>2. /\ Chained(c) /\ ~ HostsIdle(c) /\ (c # <<>> => Head(c).at = "poll")
      /\ ~ HostsSleep(c)
  <2>1. c \o <<>> = c
    BY <1>1
  <2>2. /\ Chained(c \o <<>>) /\ (HostsIdle(c \o <<>>) <=> HostsIdle(<<>>))
        /\ (HostsSleep(c \o <<>>) <=> HostsSleep(<<>>))
        /\ (c # <<>> => Head(c \o <<>>).at = "poll")
    BY EmptyStack, CallFits
  <2>3. ~ HostsIdle(<<>>) /\ ~ HostsSleep(<<>>)
    BY EmptyStack
  <2> QED BY <2>1, <2>2, <2>3
<1>3. running = fiber /\ running # None
  BY InGuest
<1>4. disabled' \in 0..MaxDisable /\ seen' \subseteq Thread
  BY DEF KernelInv, TypeOK
<1> QED BY <1>1, <1>2, <1>3, <1>4, StayKeeps DEF Calling, Sleeps

\* Guest code goes to sleep: it calls c inside of the frame f.
LEMMA GuestSleeps ==
  ASSUME NEW c \in Onward \ {<<>>}, NEW f \in Frame, f.at \in Sleeps,
         KernelInv, InGuestCode, KernelOK(os'), disabled = 0,
         \A t \in Thread : os'.state[t] = "running" => os.state[t] = "running",
         Calling(c \o <<f>>), UNCHANGED <<running, fiber, disabled, seen, astray>>
  PROVE  KernelInv'
<1> DEFINE m == c \o <<f>>
<1>1. m \in Seq(Frame) /\ m \o <<>> = m
  <2>1. c \in Seq(Frame) /\ <<f>> \in Seq(Frame)
    BY OnwardFits
  <2> QED BY <2>1, ConcatProperties, ConcatEmptySeq
<1>2. Chained(m) /\ m # <<>> /\ ~ HostsIdle(m) /\ Head(m).at = "poll"
  <2>1. f.at \notin Loops /\ f.at # "idle"
    BY DEF Sleeps, Loops
  <2>2. (c \o <<f>>) \o <<>> = m
    BY <1>1
  <2> HIDE DEF m
  <2> QED BY <2>1, <2>2, EmptyStack, CallInside
<1>3. running = fiber /\ running # None
  BY InGuest
<1>4. disabled' \in 0..MaxDisable /\ seen' \subseteq Thread /\ ~ (disabled' > 0)
      /\ astray' \subseteq Thread
  BY DEF KernelInv, TypeOK
<1>5. stack' = [stack EXCEPT ![fiber] = m] /\ UNCHANGED <<running, fiber>>
  BY DEF Calling
<1> HIDE DEF m
<1> QED BY <1>1, <1>2, <1>3, <1>4, <1>5, StayKeeps DEF Sleeps

\* Inside of a call, the innermost frame gives way to f, inside of which c runs.
LEMMA FrameSteps ==
  ASSUME NEW c \in Onward, NEW f \in Frame, KernelInv, stack[fiber] # <<>>,
         f.at \in Loops => Frm.at \in Loops, f.at \notin Sleeps, Frm.at \notin Sleeps,
         f.at = "idle" <=> Frm.at = "idle",
         KernelOK(os'),
         \A t \in Thread : os'.state[t] = "running" => os.state[t] = "running",
         Becomes(c \o <<f>>), UNCHANGED <<running, fiber, disabled, astray>>,
         seen' \subseteq Thread, disabled > 0 => OnFiber(os', fiber, astray)
  PROVE  KernelInv'
<1> DEFINE r == Tail(stack[fiber])
           m == (c \o <<f>>) \o r
<1>1. /\ r \in Seq(Frame) /\ Chained(r)
      /\ HostsIdle(stack[fiber]) <=> Frm.at = "idle" \/ HostsIdle(r)
      /\ HostsSleep(r) => HostsSleep(stack[fiber])
      /\ Frm.at = "idle" => ~ HostsIdle(r)
      /\ Frm.at \in Loops => r # <<>> /\ Head(r).at \in {"pick", "idle"}
  BY KernelInvFacts, PopFits DEF Frm
<1> HIDE DEF r
<1>2. /\ m \in Seq(Frame) /\ Chained(m) /\ m # <<>>
      /\ HostsIdle(m) <=> f.at = "idle" \/ HostsIdle(r)
      /\ HostsSleep(m) => HostsSleep(stack[fiber])
      /\ Head(m).at = IF c = <<>> THEN f.at ELSE "poll"
  BY <1>1, CallInside
<1>3. HostsIdle(m) <=> running = None
  BY <1>1, <1>2, KernelInvFacts
<1>4. Head(m).at \notin Sleeps
  BY <1>2 DEF Sleeps
<1>5. stack' = [stack EXCEPT ![fiber] = m]
  BY DEF Becomes, r
<1>6. /\ disabled' \in 0..MaxDisable /\ astray' \subseteq Thread
      /\ disabled' > 0 => running = fiber /\ ~ HostsSleep(stack[fiber])
  BY DEF KernelInv, TypeOK, RunInv
<1> HIDE DEF m
<1> QED BY <1>2, <1>3, <1>4, <1>5, <1>6, StayKeeps

\* The innermost call, which is not the idle loop, returns.
LEMMA FrameReturns ==
  ASSUME KernelInv, stack[fiber] # <<>>, Frm.at # "idle", KernelOK(os'),
         \A t \in Thread : os'.state[t] = "running" => os.state[t] = "running",
         Return, UNCHANGED <<running, fiber, disabled, seen, astray>>,
         \/ Frm.at \in Loops \/ os'.state[fiber] = "running" \/ disabled > 0
         \/ running = None /\ Frm.at = "pick",
         disabled > 0 => OnFiber(os', fiber, astray)
  PROVE  KernelInv'
<1> DEFINE r == Tail(stack[fiber])
<1>1. /\ r \in Seq(Frame) /\ Chained(r)
      /\ HostsIdle(stack[fiber]) <=> HostsIdle(r)
      /\ HostsSleep(r) => HostsSleep(stack[fiber])
      /\ r # <<>> /\ Head(r).at \in Sleeps => HostsSleep(r)
      /\ Frm.at \in Loops => r # <<>> /\ Head(r).at \in {"pick", "idle"}
  BY KernelInvFacts, PopFits DEF Frm
<1>2. stack' = [stack EXCEPT ![fiber] = r]
  <2>1. <<>> \o r = r
    BY <1>1, ConcatEmptySeq
  <2> QED BY <2>1 DEF Return, Becomes
<1> HIDE DEF r
<1>3. HostsIdle(r) <=> running = None
  BY <1>1, KernelInvFacts
<1>5. /\ disabled' \in 0..MaxDisable /\ seen' \subseteq Thread /\ astray' \subseteq Thread
      /\ disabled > 0 => running = fiber /\ ~ HostsSleep(r)
  BY <1>1 DEF KernelInv, TypeOK, RunInv
<1>4. /\ r = <<>> => OnFiber(os', fiber, astray)
      /\ r # <<>> /\ Head(r).at \in Sleeps => os'.state[fiber] = "running"
  <2>1. CASE Frm.at \in Loops
    BY <1>1, <2>1 DEF Sleeps
  <2>3. CASE os'.state[fiber] = "running"
    BY <2>3 DEF OnFiber
  <2>4. CASE disabled > 0
    BY <1>1, <1>5, <2>4
  <2>2. CASE running = None /\ Frm.at = "pick"
    <3>1. HostsIdle(r)
      BY <1>3, <2>2
    <3>2. r # <<>>
      BY <3>1, EmptyStack
    <3>3. Head(r).at \in Sleeps => Tail(r) = <<>>
          /\ (HostsIdle(r) <=> Head(r).at = "idle" \/ HostsIdle(Tail(r)))
      BY <1>1, <3>2, PopFits
    <3>4. Head(r).at \in Sleeps => FALSE
      <4> SUFFICES ASSUME Head(r).at \in Sleeps PROVE FALSE
        OBVIOUS
      <4>1. Tail(r) = <<>> /\ Head(r).at # "idle"
        BY <3>3 DEF Sleeps
      <4>2. ~ HostsIdle(Tail(r))
        BY <4>1, EmptyStack, Zenon
      <4> QED BY <3>1, <3>3, <4>1, <4>2
    <3> QED BY <3>2, <3>4
  <2> QED BY <2>1, <2>2, <2>3, <2>4
<1> QED BY <1>1, <1>2, <1>3, <1>4, <1>5, StayKeeps

-----------------------------------------------------------------------------
(* What guest code calls                                                    *)

LEMMA SideKeeps ==
  ASSUME NEW o, NEW n \in Kernel, KernelOK(o),
         n.state = o.state, n.suspend = o.suspend, n.prio = o.prio,
         n.link = o.link, n.queue = o.queue, n.pending = o.pending
  PROVE  KernelOK(n)
  BY DEF KernelOK, QueuesKept, Placed, InQueues, Agrees, Home

LEMMA AfterIsOnward ==
  ASSUME NEW o, NEW t
  PROVE  AfterSuspend(o, t) \in Onward /\ AfterResume(o, t) \in Onward
  BY DEF AfterSuspend, AfterResume, Onward

\* An executing thread that suspends itself leaves a switch requested, and
\* reaches SelectThread unless it is suspended already.
LEMMA AfterOwnSuspend ==
  ASSUME NEW o, NEW t \in Thread, NEW a, KernelOK(o), o.suspend[t] < MaxSuspend,
         OnFiber(o, t, a)
  PROVE  /\ Suspended(o, t).resched
         /\ Suspended(o, t).state[t] = "ready"
         /\ o.suspend[t] = 0 => AfterSuspend(o, t) \in Onward \ {<<>>}
<1>1. Suspended(o, t).resched
  <2>1. CASE o.state[t] = "running"
    BY <2>1, SuspendKeeps
  <2>2. CASE o.resched
    BY <2>2, SuspendIsCalm DEF Calm
  <2> QED BY <2>1, <2>2 DEF OnFiber
<1>2. Suspended(o, t).state[t] = "ready"
  BY SuspendKeeps DEF OnFiber
<1> QED BY <1>1, <1>2 DEF AfterSuspend, Onward, Select

LEMMA SleepTicksKeeps == KernelInv /\ SleepTicks => KernelInv'
<1> SUFFICES ASSUME KernelInv, SleepTicks PROVE KernelInv'
  OBVIOUS
<1> DEFINE rest == Append(Without(os.timers, fiber), fiber)
           armed == [os EXCEPT !.timers = rest, !.parks = @ \cup {fiber}]
           f == [at |-> "parked"]
<1>1. /\ InGuestCode /\ disabled = 0 /\ os.suspend[fiber] = 0
      /\ os' = Suspended(armed, fiber)
      /\ Calling(AfterSuspend(armed, fiber) \o <<f>>)
      /\ UNCHANGED <<running, fiber, disabled, seen, astray>>
  BY DEF SleepTicks
<1>2. KernelOK(os) /\ os \in Kernel /\ fiber \in Thread /\ OnFiber(os, fiber, astray)
  BY <1>1, InGuest, KernelInvFacts
<1>3. /\ KernelOK(armed) /\ armed.state = os.state /\ armed.suspend = os.suspend
      /\ OnFiber(armed, fiber, astray)
  <2>1. rest \in Seq(Thread)
    <3>1. Without(os.timers, fiber) \in Seq(Thread)
      BY <1>2, KernelFields, WithoutFits
    <3> QED BY <1>2, <3>1, AppendProperties
  <2> HIDE DEF rest
  <2>2. /\ armed \in Kernel /\ armed.state = os.state /\ armed.suspend = os.suspend
        /\ armed.prio = os.prio /\ armed.link = os.link
        /\ armed.queue = os.queue /\ armed.pending = os.pending
        /\ armed.resched = os.resched
    BY <1>2, <2>1 DEF Kernel
  <2> HIDE DEF armed
  <2> QED BY <1>2, <2>2, SideKeeps, SideIsCalm, StaysOn
<1> HIDE DEF armed
<1>4. armed.suspend[fiber] < MaxSuspend
  BY <1>1, <1>3, ThreadAssumption
<1>5. /\ KernelOK(os') /\ os'.state[fiber] = "ready"
      /\ \A t \in Thread \ {fiber} : os'.state[t] = os.state[t]
  <2> DEFINE n == Suspended(armed, fiber)
  <2>1. /\ KernelOK(n) /\ \A t \in Thread \ {fiber} : n.state[t] = armed.state[t]
    BY <1>2, <1>3, <1>4, SuspendKeeps
  <2>2. n.state[fiber] = "ready"
    BY <1>2, <1>3, <1>4, AfterOwnSuspend
  <2> HIDE DEF n
  <2>3. os' = n
    BY <1>1 DEF n
  <2> QED BY <1>3, <2>1, <2>2, <2>3
<1>6. AfterSuspend(armed, fiber) \in Onward \ {<<>>}
  BY <1>1, <1>2, <1>3, <1>4, AfterOwnSuspend
<1>7. f \in Frame /\ f.at \in Sleeps
  BY FrameFits DEF Sleeps
<1> HIDE DEF f
<1>8. \A t \in Thread : os'.state[t] = "running" => os.state[t] = "running"
  BY <1>5
<1> QED BY <1>1, <1>5, <1>6, <1>7, <1>8, GuestSleeps

\* A suspended caller of OSSleepTicks comes back at once, without its timer.
LEMMA SleepSuspendedKeeps == KernelInv /\ SleepSuspended => KernelInv'
<1> SUFFICES ASSUME KernelInv, SleepSuspended PROVE KernelInv'
  OBVIOUS
<1>1. /\ InGuestCode /\ disabled = 0 /\ os' = Disarmed(os, fiber)
      /\ UNCHANGED <<running, fiber, disabled, seen, astray, stack>>
  BY DEF SleepSuspended
<1>2. /\ KernelOK(os) /\ os \in Kernel /\ OnFiber(os, fiber, astray) /\ stack[fiber] = <<>>
      /\ running # None /\ stack \in [Thread -> Seq(Frame)]
  BY <1>1, InGuest, KernelInvFacts
<1>3. KernelOK(os') /\ os'.state = os.state /\ Calm(os, os')
  <2>1. /\ os' \in Kernel /\ os'.state = os.state /\ os'.suspend = os.suspend
        /\ os'.prio = os.prio /\ os'.link = os.link /\ os'.queue = os.queue
        /\ os'.pending = os.pending /\ os'.resched = os.resched
    BY <1>1, <1>2, DisarmedFits
  <2> QED BY <1>2, <2>1, SideKeeps, SideIsCalm
<1>4. OnFiber(os', fiber, astray')
  BY <1>1, <1>2, <1>3, StaysOn
<1>5. <<>> \in Onward /\ Calling(<<>>) /\ astray' \subseteq Thread
  BY <1>1, <1>2 DEF Onward, Calling, KernelInv, TypeOK
<1> QED BY <1>1, <1>3, <1>4, <1>5, GuestCalls

LEMMA SleepThreadKeeps ==
  ASSUME NEW q \in WaitQueue
  PROVE  KernelInv /\ SleepThread(q) => KernelInv'
<1> SUFFICES ASSUME KernelInv, SleepThread(q) PROVE KernelInv'
  OBVIOUS
<1> DEFINE w == [os EXCEPT !.state[fiber] = "waiting"]
           l == Linked(w, q, fiber)
           n == [l EXCEPT !.resched = TRUE]
           f == [at |-> "slept", queue |-> q]
<1>1. /\ InGuestCode /\ disabled = 0 /\ ~ IsLinked(fiber) /\ os' = n
      /\ Calling(Select(FALSE) \o <<f>>)
      /\ UNCHANGED <<running, fiber, disabled, seen, astray>>
  BY DEF SleepThread
<1>2. /\ KernelOK(os) /\ os \in Kernel /\ fiber \in Thread
      /\ InQueues(os, fiber, {}) /\ q \in Queue
  BY <1>1, KernelInvFacts, Names DEF IsLinked, InQueues
<1>3. QueuesKept(os) /\ (\A u \in Thread : Placed(os, u))
      /\ (os.suspend[fiber] = 0 => os.prio[fiber] = Base[fiber])
  BY <1>2 DEF KernelOK, Placed, Agrees
<1>4. /\ w \in Kernel /\ w.suspend = os.suspend /\ w.prio = os.prio
      /\ w.link = os.link /\ w.queue = os.queue /\ w.pending = os.pending
      /\ w.state = [os.state EXCEPT ![fiber] = "waiting"]
  BY <1>2 DEF Kernel
<1> HIDE DEF w
<1>5. w.state[fiber] = "waiting" /\ \A u \in Thread \ {fiber} : w.state[u] = os.state[u]
  BY <1>2, <1>4, KernelFields
<1>6. Moves(os, w, fiber, {})
  BY <1>2, <1>3, <1>4, <1>5, FieldsMove
<1>7. /\ Moves(w, l, fiber, {q}) /\ l.state = w.state /\ l.suspend = w.suspend
      /\ l.prio = w.prio /\ l.link[fiber] = q
  <2>1. w \in Kernel /\ QueuesKept(w) /\ InQueues(w, fiber, {})
    BY <1>6 DEF Moves
  <2> QED BY <1>2, <2>1, LinkMoves
<1> HIDE DEF l
<1>8. KernelOK(l)
  <2>1. Home(l, fiber) = q /\ Agrees(l, fiber)
    BY <1>2, <1>3, <1>4, <1>5, <1>7 DEF Home, Agrees
  <2> QED BY <1>2, <1>3, <1>6, <1>7, <2>1, MovesChain, MovesHome
<1>9. KernelOK(n) /\ n.state = l.state
  <2>1. l \in Kernel
    BY <1>8 DEF KernelOK
  <2>2. /\ n \in Kernel /\ n.state = l.state /\ n.suspend = l.suspend /\ n.prio = l.prio
        /\ n.link = l.link /\ n.queue = l.queue /\ n.pending = l.pending
    BY <2>1 DEF Kernel
  <2> HIDE DEF n
  <2> QED BY <1>8, <2>2, SideKeeps
<1> HIDE DEF n
<1>10. \A t \in Thread : os'.state[t] = "running" => os.state[t] = "running"
  BY <1>1, <1>2, <1>5, <1>7, <1>9
<1>11. f \in Frame /\ f.at \in Sleeps /\ Select(FALSE) \in Onward \ {<<>>}
  BY FrameFits DEF Sleeps, Onward, Select
<1> HIDE DEF f
<1> QED BY <1>1, <1>9, <1>10, <1>11, GuestSleeps

\* A thread that blocks where it is in its run queue tears the lists.
LEMMA SleepTwiceKeeps ==
  ASSUME NEW q \in WaitQueue
  PROVE  KernelInv /\ SleepTwice(q) => KernelInv'
<1> SUFFICES ASSUME KernelInv, SleepTwice(q) PROVE KernelInv'
  OBVIOUS
<1> DEFINE f == [at |-> "torn"]
           m == <<f>>
<1>1. /\ InGuestCode /\ disabled = 0 /\ os' = os /\ Calling(m)
      /\ UNCHANGED <<running, fiber, disabled, seen, astray>>
  BY DEF SleepTwice
<1>2. KernelOK(os) /\ running # None
  BY <1>1, InGuest, KernelInvFacts
<1>3. f \in Frame /\ f.at \notin Loops /\ f.at \notin Sleeps /\ f.at # "idle"
  BY FrameFits DEF Loops, Sleeps
<1>4. m \in Seq(Frame) /\ Chained(m) /\ ~ HostsIdle(m) /\ m # <<>> /\ Head(m) = f
  <2> HIDE DEF f
  <2>1. <<f>> \in Seq(Frame)
    BY <1>3
  <2>2. <<f>> \o <<>> = <<f>>
    BY <2>1, ConcatEmptySeq
  <2>3. /\ <<>> \in Seq(Frame) /\ Chained(<<>>) /\ ~ HostsIdle(<<>>)
    BY EmptyStack
  <2>4. /\ Chained(<<f>> \o <<>>) /\ <<f>> \o <<>> # <<>> /\ Head(<<f>> \o <<>>) = f
        /\ (HostsIdle(<<f>> \o <<>>) <=> f.at = "idle" \/ HostsIdle(<<>>))
    BY <1>3, <2>3, PushFits
  <2> QED BY <1>3, <2>1, <2>2, <2>3, <2>4
<1>5. /\ stack' = [stack EXCEPT ![fiber] = m] /\ disabled' \in 0..MaxDisable
      /\ ~ (disabled' > 0) /\ seen' \subseteq Thread /\ astray' \subseteq Thread
  BY <1>1 DEF Calling, KernelInv, TypeOK
<1> HIDE DEF m
<1> QED BY <1>1, <1>2, <1>3, <1>4, <1>5, StayKeeps

LEMMA WakeupKeeps ==
  ASSUME NEW q \in WaitQueue
  PROVE  KernelInv /\ Wakeup(q) => KernelInv'
<1> SUFFICES ASSUME KernelInv, Wakeup(q) PROVE KernelInv'
  OBVIOUS
<1> DEFINE c == IF WakesAny(q) THEN Select(FALSE) ELSE <<>>
<1>1. /\ InGuestCode /\ os' = Woken(os, q) /\ Calling(c)
      /\ UNCHANGED <<running, fiber, disabled, seen, astray>>
  BY DEF Wakeup
<1>2. /\ KernelOK(os) /\ fiber \in Thread /\ OnFiber(os, fiber, astray)
      /\ astray \subseteq Thread
  BY <1>1, InGuest, KernelInvFacts DEF KernelInv, TypeOK
<1>3. KernelOK(os') /\ (\A t \in Thread : os'.state[t] = "running" <=> os.state[t] = "running")
  BY <1>1, <1>2, WakeKeeps
<1>4. OnFiber(os', fiber, astray')
  <2>1. os'.state[fiber] = os.state[fiber]
    BY <1>1, <1>2, WakeKeeps DEF OnFiber
  <2> QED BY <1>1, <1>2, <2>1, WakeIsCalm, StaysOn
<1>5. c \in Onward
  BY DEF Onward
<1> HIDE DEF c
<1> QED BY <1>1, <1>2, <1>3, <1>4, <1>5, GuestCalls

LEMMA SuspendThreadKeeps ==
  ASSUME NEW t \in Thread
  PROVE  KernelInv /\ SuspendThread(t) => KernelInv'
<1> SUFFICES ASSUME KernelInv, SuspendThread(t) PROVE KernelInv'
  OBVIOUS
<1>1. /\ InGuestCode /\ os' = Suspended(os, t) /\ Calling(AfterSuspend(os, t))
      /\ os.suspend[t] < MaxSuspend
      /\ astray' = IF t = fiber /\ disabled > 0 THEN astray \cup {t} ELSE astray
      /\ UNCHANGED <<running, fiber, disabled, seen>>
  BY DEF SuspendThread
<1>2. /\ KernelOK(os) /\ fiber \in Thread /\ OnFiber(os, fiber, astray)
      /\ disabled \in Nat /\ astray \subseteq Thread
  BY <1>1, InGuest, KernelInvFacts DEF KernelInv, TypeOK
<1>3. /\ KernelOK(os')
      /\ \A u \in Thread \ {t} : os'.state[u] = os.state[u]
      /\ os'.state[t] = IF os.state[t] = "running" THEN "ready" ELSE os.state[t]
  BY <1>1, <1>2, SuspendKeeps
<1>4. /\ \A u \in Thread : os'.state[u] = "running" => os.state[u] = "running"
      /\ astray' \subseteq Thread /\ astray \subseteq astray'
  BY <1>1, <1>2, <1>3
<1>5. CASE t = fiber /\ (disabled > 0 \/ fiber \in astray)
  <2>1. OnFiber(os', fiber, astray')
    BY <1>1, <1>2, <1>5, AfterOwnSuspend DEF OnFiber
  <2> QED BY <1>1, <1>3, <1>4, <2>1, AfterIsOnward, GuestCalls
<1>6. CASE t = fiber /\ ~ (disabled > 0) /\ fiber \notin astray
  <2>1. os.suspend[t] = 0
    BY <1>2, <1>6 DEF OnFiber, KernelOK, Placed, Agrees
  <2>2. AfterSuspend(os, t) \in Onward \ {<<>>}
    BY <1>1, <1>2, <1>6, <2>1, AfterOwnSuspend
  <2> QED BY <1>1, <1>3, <1>4, <1>6, <2>2, GuestCalls
<1>7. CASE t # fiber
  <2>1. os'.state[fiber] = os.state[fiber]
    BY <1>2, <1>3, <1>7
  <2>2. OnFiber(os', fiber, astray')
    BY <1>1, <1>2, <1>4, <2>1, SuspendIsCalm, StaysOn
  <2> QED BY <1>1, <1>3, <1>4, <2>2, AfterIsOnward, GuestCalls
<1> QED BY <1>5, <1>6, <1>7

LEMMA ResumeThreadKeeps ==
  ASSUME NEW t \in Thread
  PROVE  KernelInv /\ ResumeThread(t) => KernelInv'
<1> SUFFICES ASSUME KernelInv, ResumeThread(t) PROVE KernelInv'
  OBVIOUS
<1>1. /\ InGuestCode /\ os' = Resumed(os, t) /\ Calling(AfterResume(os, t))
      /\ UNCHANGED <<running, fiber, disabled, seen, astray>>
  BY DEF ResumeThread
<1>2. /\ KernelOK(os) /\ fiber \in Thread /\ OnFiber(os, fiber, astray)
      /\ astray \subseteq Thread
  BY <1>1, InGuest, KernelInvFacts DEF KernelInv, TypeOK
<1>3. KernelOK(os') /\ os'.state = os.state
  BY <1>1, <1>2, ResumeKeeps
<1>4. OnFiber(os', fiber, astray')
  BY <1>1, <1>2, <1>3, ResumeIsCalm, StaysOn
<1> QED BY <1>1, <1>2, <1>3, <1>4, AfterIsOnward, GuestCalls

LEMMA YieldKeeps == KernelInv /\ Yield => KernelInv'
<1> SUFFICES ASSUME KernelInv, Yield PROVE KernelInv'
  OBVIOUS
<1>1. /\ InGuestCode /\ Calling(Select(TRUE)) /\ os' = os
      /\ UNCHANGED <<running, fiber, disabled, seen, astray>>
  BY DEF Yield
<1>2. KernelOK(os) /\ OnFiber(os, fiber, astray) /\ astray \subseteq Thread
  BY <1>1, InGuest, KernelInvFacts DEF KernelInv, TypeOK
<1>3. Select(TRUE) \in Onward
  BY DEF Onward
<1> QED BY <1>1, <1>2, <1>3, GuestCalls

LEMMA DisableKeeps ==
  KernelInv /\ (DisableScheduler \/ EnableScheduler) => KernelInv'
<1> SUFFICES ASSUME KernelInv, DisableScheduler \/ EnableScheduler PROVE KernelInv'
  OBVIOUS
<1>1. /\ InGuestCode /\ UNCHANGED <<os, running, fiber, seen, astray, stack>>
      /\ disabled' \in 0..MaxDisable
  <2>1. disabled \in 0..MaxDisable
    BY DEF KernelInv, TypeOK
  <2> QED BY <2>1, ThreadAssumption DEF DisableScheduler, EnableScheduler
<1>2. running = fiber /\ OnFiber(os, fiber, astray) /\ ~ HostsSleep(stack[fiber])
  BY <1>1, InGuest, EmptyStack
<1>3. TypeOK' /\ KernelOK(os') /\ RunInv' /\ StackInv'
  BY <1>1, <1>2 DEF KernelInv, TypeOK, RunInv, StackInv
<1> QED BY <1>3 DEF KernelInv

-----------------------------------------------------------------------------
(* ProcessSleepTimers                                                       *)

\* What holds inside of any call.
LEMMA InCall ==
  ASSUME KernelInv, NEW at, At(at)
  PROVE  /\ stack[fiber] # <<>> /\ Frm.at = at /\ Frm \in Frame
         /\ KernelOK(os) /\ os \in Kernel /\ fiber \in Thread /\ seen \subseteq Thread
         /\ disabled > 0 => running = fiber /\ OnFiber(os, fiber, astray)
<1>1. stack[fiber] # <<>> /\ Frm.at = at /\ stack[fiber] \in Seq(Frame)
  BY KernelInvFacts DEF At, Frm
<1>2. Frm \in Frame
  BY <1>1, HeadTailProperties DEF Frm
<1> QED BY <1>1, <1>2, KernelInvFacts DEF KernelInv, TypeOK, RunInv

\* The frame of a loop has a list, whose head is a thread.
LEMMA LoopFrame ==
  ASSUME NEW f \in Frame, f.at \in {"timers", "heal"}
  PROVE  /\ f.list \in Seq(Thread)
         /\ f.list # <<>> => /\ Head(f.list) \in Thread
                             /\ [f EXCEPT !.list = Tail(@)] \in Frame
                             /\ [f EXCEPT !.list = Tail(@)].at = f.at
<1>1. f \in [at : {"timers", "heal"}, list : Seq(Thread)]
  BY DEF Frame
<1>2. f.list \in Seq(Thread)
  BY <1>1
<1>3. ASSUME f.list # <<>>
      PROVE  /\ Head(f.list) \in Thread
             /\ [f EXCEPT !.list = Tail(@)] \in Frame
             /\ [f EXCEPT !.list = Tail(@)].at = f.at
  <2> DEFINE l == Tail(f.list)
  <2>1. Head(f.list) \in Thread /\ l \in Seq(Thread)
    BY <1>2, <1>3, HeadTailProperties
  <2> HIDE DEF l
  <2>2. [f EXCEPT !.list = l] \in [at : {"timers", "heal"}, list : Seq(Thread)]
        /\ [f EXCEPT !.list = l].at = f.at
    BY <1>1, <2>1
  <2> QED BY <2>1, <2>2 DEF Frame, l
<1> QED BY <1>2, <1>3

LEMMA NothingCalled == <<>> \in Onward /\ \A f : <<>> \o <<f>> = <<f>>
<1>1. ASSUME NEW f PROVE <<>> \o <<f>> = <<f>>
  <2>1. <<f>> \in Seq({f})
    OBVIOUS
  <2> QED BY <2>1, ConcatEmptySeq
<1> QED BY <1>1 DEF Onward

\* A loop over timers goes on with the frame f, and calls nothing.
LEMMA LoopSteps ==
  ASSUME NEW f \in Frame, NEW at \in Loops, KernelInv, At(at), f.at \in Loops, KernelOK(os'),
         os'.state = os.state, Calm(os, os'), Becomes(<<f>>),
         UNCHANGED <<running, fiber, disabled, astray>>, seen' \subseteq Thread
  PROVE  KernelInv'
<1>1. f.at \notin Sleeps /\ f.at # "idle" /\ at \notin Sleeps /\ at # "idle"
  BY DEF Loops, Sleeps
<1>2. Becomes(<<>> \o <<f>>) /\ <<>> \in Onward
  BY NothingCalled
<1>3. /\ stack[fiber] # <<>> /\ Frm.at = at
      /\ disabled > 0 => OnFiber(os, fiber, astray)
  BY InCall
<1>4. disabled > 0 => OnFiber(os', fiber, astray)
  BY <1>3, StaysOn
<1> QED BY <1>1, <1>2, <1>3, <1>4, FrameSteps

LEMMA PollKeeps ==
  ASSUME NEW due
  PROVE  KernelInv /\ Poll(due) => KernelInv'
<1> SUFFICES ASSUME KernelInv, Poll(due) PROVE KernelInv'
  OBVIOUS
<1> DEFINE kept == Kept(os.timers, Thread \ due)
           list == Kept(os.timers, due)
           f == [at |-> "timers", list |-> list]
<1>1. /\ At("poll") /\ os' = [os EXCEPT !.timers = kept] /\ Becomes(<<f>>)
      /\ UNCHANGED <<running, fiber, disabled, seen, astray>>
  BY DEF Poll
<1>2. KernelOK(os) /\ os \in Kernel /\ seen \subseteq Thread
  BY <1>1, InCall
<1>3. kept \in Seq(Thread) /\ list \in Seq(Thread)
  BY <1>2, KernelFields, KeptFits
<1> HIDE DEF kept, list
<1>4. KernelOK(os') /\ os'.state = os.state /\ Calm(os, os')
  <2>1. /\ os' \in Kernel /\ os'.state = os.state /\ os'.suspend = os.suspend
        /\ os'.prio = os.prio /\ os'.link = os.link /\ os'.queue = os.queue
        /\ os'.pending = os.pending /\ os'.resched = os.resched
    BY <1>1, <1>2, <1>3 DEF Kernel
  <2> QED BY <1>2, <2>1, SideKeeps, SideIsCalm
<1>5. f \in Frame /\ f.at \in Loops /\ "poll" \in Loops
  BY <1>3, FrameFits DEF Loops
<1> HIDE DEF f
<1> QED BY <1>1, <1>2, <1>4, <1>5, LoopSteps

LEMMA ParksAside ==
  ASSUME NEW o, KernelOK(o), NEW parks \in SUBSET Thread
  PROVE  KernelOK([o EXCEPT !.parks = parks]) /\ [o EXCEPT !.parks = parks].state = o.state
<1> DEFINE n == [o EXCEPT !.parks = parks]
<1>1. o \in Kernel
  BY DEF KernelOK
<1>2. /\ n \in Kernel /\ n.state = o.state /\ n.suspend = o.suspend
      /\ n.prio = o.prio /\ n.link = o.link /\ n.queue = o.queue /\ n.pending = o.pending
  BY <1>1 DEF Kernel
<1> HIDE DEF n
<1>3. KernelOK(n)
  BY <1>2, SideKeeps
<1> QED BY <1>2, <1>3 DEF n

\* A sleeper is resumed from a loop, which calls SelectThread if it must.
LEMMA ResumeInLoop ==
  ASSUME NEW o, NEW at \in {"timers", "heal"}, KernelInv, At(at), Frm.list # <<>>,
         KernelOK(o), o.state = os.state, Calm(os, o), os' = Resumed(o, Sleeper),
         Becomes(AfterResume(o, Sleeper) \o <<Later>>),
         UNCHANGED <<running, fiber, disabled, seen, astray>>
  PROVE  KernelInv'
<1>1. /\ stack[fiber] # <<>> /\ Frm.at = at /\ Frm \in Frame /\ seen \subseteq Thread
      /\ disabled > 0 => OnFiber(os, fiber, astray)
  BY InCall
<1>2. Sleeper \in Thread /\ Later \in Frame /\ Later.at = at
  BY <1>1, LoopFrame DEF Sleeper, Later
<1>3. KernelOK(os') /\ os'.state = os.state /\ Calm(os, os')
  BY <1>2, ResumeKeeps, ResumeIsCalm, CalmChain
<1>6. disabled > 0 => OnFiber(os', fiber, astray)
  BY <1>1, <1>3, StaysOn
<1>4. at \in Loops /\ at \notin Sleeps /\ at # "idle"
  BY DEF Loops, Sleeps
<1>5. AfterResume(o, Sleeper) \in Onward
  BY AfterIsOnward
<1> QED BY <1>1, <1>2, <1>3, <1>4, <1>5, <1>6, FrameSteps

LEMMA FireDueKeeps == KernelInv /\ FireDue => KernelInv'
<1> SUFFICES ASSUME KernelInv, FireDue PROVE KernelInv'
  OBVIOUS
<1> DEFINE parks == os.parks \ {Sleeper}
           o == [os EXCEPT !.parks = parks]
<1>1. /\ At("timers") /\ Frm.list # <<>> /\ os' = Resumed(o, Sleeper)
      /\ Becomes(AfterResume(o, Sleeper) \o <<Later>>)
      /\ UNCHANGED <<running, fiber, disabled, seen, astray>>
  BY DEF FireDue, FireTop
<1>2. KernelOK(os) /\ os \in Kernel /\ parks \in SUBSET Thread
  BY <1>1, InCall, KernelFields
<1> HIDE DEF parks
<1>3. KernelOK(o) /\ o.state = os.state /\ Calm(os, o)
  BY <1>2, ParksAside, ParksAreCalm
<1> HIDE DEF o
<1> QED BY <1>1, <1>3, ResumeInLoop

LEMMA HealKeeps == KernelInv /\ Heal => KernelInv'
<1> SUFFICES ASSUME KernelInv, Heal PROVE KernelInv'
  OBVIOUS
<1>1. /\ At("heal") /\ Frm.list # <<>> /\ os' = Resumed(os, Sleeper)
      /\ Becomes(AfterResume(os, Sleeper) \o <<Later>>)
      /\ UNCHANGED <<running, fiber, disabled, seen, astray>>
  BY DEF Heal
<1>2. KernelOK(os) /\ Calm(os, os)
  BY <1>1, InCall, SideIsCalm
<1> QED BY <1>1, <1>2, ResumeInLoop

LEMMA FireOtherKeeps == KernelInv /\ (FireRunning \/ FireStale) => KernelInv'
<1> SUFFICES ASSUME KernelInv, FireRunning \/ FireStale PROVE KernelInv'
  OBVIOUS
<1>1. /\ At("timers") /\ Frm.list # <<>> /\ Becomes(<<Later>>)
      /\ UNCHANGED <<running, fiber, disabled, seen, astray>>
  BY DEF FireRunning, FireStale, FireTop
<1>2. /\ KernelOK(os) /\ os \in Kernel /\ Frm \in Frame /\ Frm.at = "timers"
      /\ seen \subseteq Thread
  BY <1>1, InCall
<1>3. Sleeper \in Thread /\ Later \in Frame /\ Later.at = "timers"
  BY <1>1, <1>2, LoopFrame DEF Sleeper, Later
<1>4. KernelOK(os') /\ os'.state = os.state /\ Calm(os, os')
  <2>1. CASE FireRunning
    <3> DEFINE timers == Append(os.timers, Sleeper)
    <3>1. timers \in Seq(Thread)
      BY <1>2, <1>3, KernelFields, AppendProperties
    <3>2. os' = os \/ os' = [os EXCEPT !.timers = timers]
      BY <2>1 DEF FireRunning
    <3> HIDE DEF timers
    <3>3. /\ os' \in Kernel /\ os'.state = os.state /\ os'.suspend = os.suspend
          /\ os'.prio = os.prio /\ os'.link = os.link /\ os'.queue = os.queue
          /\ os'.pending = os.pending /\ os'.resched = os.resched
      BY <1>2, <3>1, <3>2 DEF Kernel
    <3> QED BY <1>2, <3>3, SideKeeps, SideIsCalm
  <2>2. CASE FireStale
    <3> DEFINE parks == os.parks \ {Sleeper}
    <3>1. parks \in SUBSET Thread
      BY <1>2, KernelFields
    <3>2. os' = [os EXCEPT !.parks = parks]
      BY <2>2 DEF FireStale
    <3> HIDE DEF parks
    <3> QED BY <1>2, <3>1, <3>2, ParksAside, ParksAreCalm
  <2> QED BY <2>1, <2>2
<1>5. "timers" \in Loops
  BY DEF Loops
<1> QED BY <1>1, <1>2, <1>3, <1>4, <1>5, LoopSteps

LEMMA ScanKeeps ==
  ASSUME NEW late
  PROVE  KernelInv /\ Scan(late) => KernelInv'
<1> SUFFICES ASSUME KernelInv, Scan(late) PROVE KernelInv'
  OBVIOUS
<1> DEFINE armed == os.parks \cap ToSet(os.timers)
           stranded == {t \in os.parks \ armed : Parked(os, t)}
           heal == stranded \cap late
           parks == armed \cup (stranded \ heal)
<1>1. PICK list \in SetToSeqs(heal) :
        /\ At("timers") /\ os' = [os EXCEPT !.parks = parks]
        /\ seen' = stranded \ heal
        /\ Becomes(<<[at |-> "heal", list |-> list]>>)
        /\ UNCHANGED <<running, fiber, disabled, astray>>
  BY DEF Scan
<1> DEFINE f == [at |-> "heal", list |-> list]
<1>2. KernelOK(os) /\ os \in Kernel
  BY <1>1, InCall
<1>3. /\ heal \in SUBSET Thread /\ parks \in SUBSET Thread /\ seen' \subseteq Thread
  BY <1>1, <1>2, KernelFields
<1> HIDE DEF heal, parks
<1>4. list \in Seq(Thread)
  <2>1. Cardinality(heal) \in Nat
    BY <1>3, ThreadAssumption, FS_Subset, FS_CardinalityType
  <2>2. list \in [1..Cardinality(heal) -> Thread]
    BY <1>3 DEF SetToSeqs
  <2> QED BY <2>1, <2>2, SeqDef
<1>5. f \in Frame /\ f.at \in Loops /\ "timers" \in Loops
  BY <1>4, FrameFits DEF Loops
<1> HIDE DEF f
<1>6. KernelOK(os') /\ os'.state = os.state /\ Calm(os, os')
  BY <1>1, <1>2, <1>3, ParksAside, ParksAreCalm
<1> QED BY <1>1, <1>3, <1>5, <1>6, LoopSteps DEF f

LEMMA LoopReturns == KernelInv /\ (NoScan \/ Healed) => KernelInv'
<1> SUFFICES ASSUME KernelInv, NoScan \/ Healed PROVE KernelInv'
  OBVIOUS
<1>1. /\ At("timers") \/ At("heal")
      /\ Return /\ os' = os /\ UNCHANGED <<running, fiber, disabled, seen, astray>>
  BY DEF NoScan, Healed
<1>2. /\ stack[fiber] # <<>> /\ Frm.at \in {"timers", "heal"} /\ KernelOK(os)
      /\ disabled > 0 => OnFiber(os, fiber, astray)
  BY <1>1, InCall
<1>3. Frm.at \in Loops /\ Frm.at # "idle"
  BY <1>2 DEF Loops
<1> QED BY <1>1, <1>2, <1>3, FrameReturns

-----------------------------------------------------------------------------
(* SelectThread                                                             *)

LEMMA PickNothingKeeps == KernelInv /\ PickNothing => KernelInv'
<1> SUFFICES ASSUME KernelInv, PickNothing PROVE KernelInv'
  OBVIOUS
<1>1. /\ At("pick") /\ (disabled > 0 \/ running = None \/ Keeps)
      /\ Return /\ os' = os /\ UNCHANGED <<running, fiber, disabled, seen, astray>>
  BY DEF PickNothing
<1>2. /\ stack[fiber] # <<>> /\ Frm.at = "pick" /\ KernelOK(os)
      /\ disabled > 0 => OnFiber(os, fiber, astray)
  BY <1>1, InCall
<1>3. Keeps => os.state[fiber] = "running"
  BY DEF Keeps, KernelInv, RunInv
<1>4. Frm.at # "idle"
  BY <1>2
<1> QED BY <1>1, <1>2, <1>3, <1>4, FrameReturns

\* The executing fiber gives way to the most urgent runnable thread.
LEMMA SwitchKeeps ==
  ASSUME NEW o, KernelInv, KernelOK(o), o.pending # {}, Dispatch(o), disabled = 0,
         \A t \in Thread : o.state[t] # "running",
         stack[fiber] # <<>>, ~ HostsIdle(Tail(stack[fiber])),
         UNCHANGED <<disabled, seen>>
  PROVE  KernelInv'
<1> DEFINE t == Chosen(o)
           r == Tail(stack[fiber])
<1>1. /\ os' = Dispatched(o) /\ running' = t /\ fiber' = t
      /\ astray' \subseteq astray /\ Return
  BY DispatchIs
<1>2. KernelOK(os') /\ t \in Thread /\ os'.state = [o.state EXCEPT ![t] = "running"]
  BY <1>1, DispatchKeeps
<1>3. r \in Seq(Frame) /\ Chained(r) /\ fiber \in Thread
      /\ stack \in [Thread -> Seq(Frame)]
  BY KernelInvFacts, PopFits
<1>4. stack' = [stack EXCEPT ![fiber] = r]
  <2>1. <<>> \o r = r
    BY <1>3, ConcatEmptySeq
  <2> QED BY <1>1, <2>1 DEF Return, Becomes
<1> HIDE DEF t, r
<1>5. /\ os'.state[t] = "running" /\ \A u \in Thread \ {t} : os'.state[u] # "running"
      /\ t # None
  <2>1. o.state \in [Thread -> {"ready", "running", "waiting"}]
    BY KernelFields DEF KernelOK
  <2> QED BY <1>2, <2>1, Names
<1>6. /\ stack'[fiber] = r /\ stack' \in [Thread -> Seq(Frame)]
      /\ \A u \in Thread \ {fiber} : stack'[u] = stack[u]
  BY <1>3, <1>4
<1>7. TypeOK'
  BY <1>1, <1>2, <1>6 DEF t, KernelInv, TypeOK, KernelOK
<1>8. RunInv'
  <2>1. ~ (disabled' > 0)
    OBVIOUS
  <2> QED BY <1>1, <1>5, <2>1 DEF RunInv, t
<1>9. StackInv'
  <2>1. \A u \in Thread : Chained(stack'[u])
    BY <1>3, <1>6 DEF KernelInv, StackInv
  <2>2. \A u \in Thread : ~ HostsIdle(stack'[u])
    BY <1>6 DEF KernelInv, StackInv, r
  <2>3. running' # None /\ os'.state[fiber'] = "running"
    BY <1>1, <1>5 DEF t
  <2> QED BY <2>1, <2>2, <2>3 DEF StackInv, OnFiber
<1> QED BY <1>2, <1>7, <1>8, <1>9 DEF KernelInv

\* The thread of the running context is preempted, or was not Running.
LEMMA PreemptedFits ==
  ASSUME KernelInv, running # None
  PROVE  /\ KernelOK(Preempted) /\ \A t \in Thread : Preempted.state[t] # "running"
         /\ Preempted.pending = {} => os.state[running] # "running"
<1>1. KernelOK(os) /\ running \in Thread /\ os \in Kernel
      /\ \A t \in Thread : os.state[t] = "running" => t = running
  BY DEF KernelInv, TypeOK, RunInv
<1>2. CASE os.state[running] = "running"
  <2>1. Preempted = Enqueued(os, running)
    BY <1>2 DEF Preempted
  <2>2. KernelOK(Preempted) /\ Preempted.pending # {}
        /\ Preempted.state = [os.state EXCEPT ![running] = "ready"]
    BY <1>1, <1>2, <2>1, PreemptKeeps
  <2>3. \A t \in Thread : Preempted.state[t] # "running"
    BY <1>1, <2>2, KernelFields
  <2> QED BY <2>2, <2>3
<1>3. CASE os.state[running] # "running"
  <2>1. Preempted = os
    BY <1>3 DEF Preempted
  <2> QED BY <1>1, <1>3, <2>1
<1> QED BY <1>2, <1>3

LEMMA PickNextKeeps == KernelInv /\ PickNext => KernelInv'
<1> SUFFICES ASSUME KernelInv, PickNext PROVE KernelInv'
  OBVIOUS
<1>1. /\ At("pick") /\ disabled = 0 /\ running # None /\ Preempted.pending # {}
      /\ Dispatch(Preempted) /\ UNCHANGED <<disabled, seen>>
  BY DEF PickNext
<1>2. stack[fiber] # <<>> /\ stack[fiber] \in Seq(Frame) /\ Chained(stack[fiber])
      /\ ~ HostsIdle(stack[fiber])
  BY <1>1, InCall, KernelInvFacts
<1>3. ~ HostsIdle(Tail(stack[fiber]))
  BY <1>2, PopFits
<1>4. KernelOK(Preempted) /\ \A t \in Thread : Preempted.state[t] # "running"
  BY <1>1, PreemptedFits
<1> QED BY <1>1, <1>2, <1>3, <1>4, SwitchKeeps

LEMMA PickIdleKeeps == KernelInv /\ PickIdle => KernelInv'
<1> SUFFICES ASSUME KernelInv, PickIdle PROVE KernelInv'
  OBVIOUS
<1> DEFINE f == [at |-> "idle"]
           r == Tail(stack[fiber])
           m == <<f>> \o r
<1>1. /\ At("pick") /\ disabled = 0 /\ running # None /\ Preempted.pending = {}
      /\ running' = None /\ Becomes(<<f>>) /\ os' = os
      /\ UNCHANGED <<fiber, disabled, seen, astray>>
  BY DEF PickIdle
<1>2. stack[fiber] # <<>> /\ stack[fiber] \in Seq(Frame) /\ Chained(stack[fiber])
      /\ ~ HostsIdle(stack[fiber]) /\ fiber \in Thread /\ stack \in [Thread -> Seq(Frame)]
  BY <1>1, InCall, KernelInvFacts
<1>3. r \in Seq(Frame) /\ Chained(r) /\ ~ HostsIdle(r)
  BY <1>2, PopFits
<1>4. f \in Frame /\ f.at = "idle" /\ f.at \notin Loops /\ f.at \notin Sleeps
  BY FrameFits DEF Loops, Sleeps
<1>5. stack' = [stack EXCEPT ![fiber] = m]
  BY <1>1 DEF Becomes
<1> HIDE DEF f, r
<1>6. m \in Seq(Frame) /\ Chained(m) /\ HostsIdle(m) /\ m # <<>> /\ Head(m) = f
  BY <1>3, <1>4, PushFits
<1> HIDE DEF m
<1>7. /\ stack'[fiber] = m /\ stack' \in [Thread -> Seq(Frame)]
      /\ \A u \in Thread \ {fiber} : stack'[u] = stack[u]
  BY <1>2, <1>5, <1>6
<1>8. TypeOK'
  BY <1>1, <1>7 DEF KernelInv, TypeOK
<1>9. \A t \in Thread : os.state[t] # "running"
  BY <1>1, PreemptedFits DEF KernelInv, RunInv
<1>10. RunInv'
  <2>1. ~ (disabled' > 0)
    BY <1>1
  <2> QED BY <1>1, <1>9, <2>1 DEF RunInv
<1>11. StackInv'
  <2>1. \A u \in Thread : Chained(stack'[u])
    BY <1>6, <1>7 DEF KernelInv, StackInv
  <2>2. \A u \in Thread : HostsIdle(stack'[u]) <=> u = fiber
    BY <1>1, <1>6, <1>7 DEF KernelInv, StackInv
  <2>3. stack'[fiber] # <<>> /\ Head(stack'[fiber]).at \notin Sleeps
    BY <1>4, <1>6, <1>7
  <2> QED BY <1>1, <2>1, <2>2, <2>3 DEF StackInv
<1> QED BY <1>1, <1>8, <1>10, <1>11 DEF KernelInv

LEMMA IdleKeeps == KernelInv /\ Idle => KernelInv'
<1> SUFFICES ASSUME KernelInv, Idle PROVE KernelInv'
  OBVIOUS
<1> DEFINE a == [at |-> "poll"]
           b == [at |-> "idle"]
           r == Tail(stack[fiber])
           m == <<b>> \o r
           s == <<a>> \o m
<1>1. /\ At("idle") /\ Becomes(<<a, b>>)
      /\ UNCHANGED <<os, running, fiber, disabled, seen, astray>>
  BY DEF Idle
<1>2. /\ stack[fiber] # <<>> /\ Frm.at = "idle" /\ stack[fiber] \in Seq(Frame)
      /\ Chained(stack[fiber]) /\ KernelOK(os) /\ seen \subseteq Thread
      /\ HostsIdle(stack[fiber]) <=> running = None
      /\ disabled > 0 => running = fiber
      /\ disabled \in Nat /\ fiber # None
  BY <1>1, InCall, KernelInvFacts
<1>3. r \in Seq(Frame) /\ Chained(r) /\ ~ HostsIdle(r) /\ HostsIdle(stack[fiber])
  BY <1>2, PopFits DEF Frm
<1>4. /\ a \in Frame /\ b \in Frame /\ a.at = "poll" /\ b.at = "idle"
  BY FrameFits
<1> HIDE DEF a, b
<1>5. stack' = [stack EXCEPT ![fiber] = s]
  <2>1. <<a, b>> \o r = s
    BY <1>3, <1>4, PairFits, ConcatAssociative
  <2> QED BY <1>1, <2>1 DEF Becomes
<1> HIDE DEF r
<1>6. m \in Seq(Frame) /\ Chained(m) /\ HostsIdle(m) /\ m # <<>> /\ Head(m) = b
  BY <1>3, <1>4, PushFits DEF Loops, Sleeps
<1> HIDE DEF m
<1>7. s \in Seq(Frame) /\ Chained(s) /\ HostsIdle(s) /\ s # <<>> /\ Head(s) = a
  BY <1>4, <1>6, PushFits DEF Loops, Sleeps
<1> HIDE DEF s
<1>8. /\ Head(s).at \notin Sleeps /\ disabled' \in 0..MaxDisable /\ ~ (disabled' > 0)
      /\ seen' \subseteq Thread /\ astray' \subseteq Thread
  BY <1>1, <1>2, <1>3, <1>4, <1>7 DEF Sleeps, KernelInv, TypeOK
<1> QED BY <1>1, <1>2, <1>3, <1>5, <1>7, <1>8, StayKeeps

LEMMA IdleCallbackKeeps ==
  ASSUME NEW q \in WaitQueue, NEW reschedule
  PROVE  KernelInv /\ IdleCallback(q, reschedule) => KernelInv'
<1> SUFFICES ASSUME KernelInv, IdleCallback(q, reschedule) PROVE KernelInv'
  OBVIOUS
<1> DEFINE c == IF reschedule /\ WakesAny(q) THEN Select(FALSE) ELSE <<>>
           f == [at |-> "idle"]
<1>1. /\ At("idle") /\ os' = Woken(os, q) /\ Becomes(c \o <<f>>)
      /\ UNCHANGED <<running, fiber, disabled, seen, astray>>
  BY DEF IdleCallback
<1>2. /\ stack[fiber] # <<>> /\ Frm.at = "idle" /\ KernelOK(os) /\ seen \subseteq Thread
      /\ fiber \in Thread
      /\ disabled > 0 => OnFiber(os, fiber, astray)
  BY <1>1, InCall
<1>3. KernelOK(os') /\ \A t \in Thread : os'.state[t] = "running" <=> os.state[t] = "running"
  BY <1>1, <1>2, WakeKeeps
<1>4. c \in Onward /\ f \in Frame /\ f.at = "idle" /\ f.at \notin Loops /\ f.at \notin Sleeps
  BY FrameFits DEF Onward, Loops, Sleeps
<1> HIDE DEF c, f
<1>5. disabled > 0 => OnFiber(os', fiber, astray)
  <2>1. disabled > 0 => os'.state[fiber] = os.state[fiber]
    BY <1>1, <1>2, WakeKeeps DEF OnFiber
  <2> QED BY <1>1, <1>2, <2>1, WakeIsCalm, StaysOn
<1> QED BY <1>1, <1>2, <1>3, <1>4, <1>5, FrameSteps

LEMMA IdleDoneKeeps == KernelInv /\ IdleDone => KernelInv'
<1> SUFFICES ASSUME KernelInv, IdleDone PROVE KernelInv'
  OBVIOUS
<1>1. /\ At("idle") /\ os.pending # {} /\ Dispatch(os) /\ UNCHANGED <<disabled, seen>>
  BY DEF IdleDone
<1>2. /\ stack[fiber] # <<>> /\ Frm.at = "idle" /\ stack[fiber] \in Seq(Frame)
      /\ Chained(stack[fiber]) /\ KernelOK(os)
      /\ HostsIdle(stack[fiber]) <=> running = None
      /\ disabled > 0 => running = fiber
      /\ disabled \in Nat /\ fiber # None
  BY <1>1, InCall, KernelInvFacts
<1>3. ~ HostsIdle(Tail(stack[fiber])) /\ running = None
  BY <1>2, PopFits DEF Frm
<1>4. disabled = 0 /\ \A t \in Thread : os.state[t] # "running"
  BY <1>2, <1>3, Names DEF KernelInv, RunInv
<1> QED BY <1>1, <1>2, <1>3, <1>4, SwitchKeeps

-----------------------------------------------------------------------------
(* Back in the sleeps: the thread runs, so there is nothing to take back    *)

LEMMA SleepEnds ==
  ASSUME KernelInv, NEW at \in Sleeps, At(at)
  PROVE  /\ stack[fiber] # <<>> /\ Frm.at # "idle" /\ KernelOK(os)
         /\ os.state[fiber] = "running" /\ os.suspend[fiber] = 0
<1>1. stack[fiber] # <<>> /\ Frm.at = at /\ KernelOK(os) /\ fiber \in Thread
  BY InCall
<1>2. os.state[fiber] = "running"
  BY <1>1 DEF KernelInv, StackInv, Frm
<1>3. os.suspend[fiber] = 0
  BY <1>1, <1>2 DEF KernelOK, Placed, Agrees
<1> QED BY <1>1, <1>2, <1>3 DEF Sleeps

LEMMA ResumptionKeeps == KernelInv /\ Resumption => KernelInv'
<1> SUFFICES ASSUME KernelInv, Resumption PROVE KernelInv'
  OBVIOUS
<1>1. PICK at \in Sleeps : At(at)
  BY DEF Resumption, Unpark, Unsleep, Sleeps
<1>2. /\ stack[fiber] # <<>> /\ Frm.at # "idle" /\ KernelOK(os)
      /\ os.state[fiber] = "running" /\ os.suspend[fiber] = 0
  BY <1>1, SleepEnds
<1>3. os' = os /\ Return /\ UNCHANGED <<running, fiber, disabled, seen, astray>>
  BY <1>2 DEF Resumption, Unpark, Unsleep
<1>4. OnFiber(os', fiber, astray)
  BY <1>2, <1>3 DEF OnFiber
<1> QED BY <1>2, <1>3, <1>4, FrameReturns

-----------------------------------------------------------------------------
(* The initial states                                                       *)

\* An ordering of a set has each of its members, once.
LEMMA OrderingFits ==
  ASSUME NEW S \in SUBSET Thread, NEW order \in SetToSeqs(S)
  PROVE  /\ order \in Seq(Thread)
         /\ \A t : Contains(order, t) <=> t \in S
         /\ \A i, j \in 1..Len(order) : i # j => order[i] # order[j]
<1> DEFINE n == Cardinality(S)
<1>1. IsFiniteSet(S) /\ n \in Nat
  BY ThreadAssumption, FS_Subset, FS_CardinalityType
<1>2. order \in [1..n -> S] /\ \A i, j \in 1..n : i # j => order[i] # order[j]
  BY DEF SetToSeqs
<1>3. order \in Injection(1..n, S)
  BY <1>2 DEF Injection, IsInjective
<1>4. Cardinality(1..n) = n
  BY <1>1, FS_Interval
<1> HIDE DEF n
<1>5. order \in Surjection(1..n, S)
  BY <1>1, <1>3, <1>4, FS_Injection DEF n
<1>6. order \in Seq(Thread) /\ Len(order) = n
  <2>1. order \in [1..n -> Thread]
    BY <1>2
  <2>2. order \in Seq(Thread)
    BY <1>1, <2>1, SeqDef
  <2>3. DOMAIN order = 1..n /\ DOMAIN order = 1..Len(order) /\ Len(order) \in Nat
    BY <2>1, <2>2, LenProperties
  <2> QED BY <1>1, <2>2, <2>3
<1>7. \A t : Contains(order, t) <=> t \in S
  BY <1>2, <1>5, <1>6 DEF Contains, Surjection
<1> QED BY <1>2, <1>6, <1>7

LEMMA KernelInit == Init => KernelInv
<1> SUFFICES ASSUME Init PROVE KernelInv
  OBVIOUS
<1> DEFINE start(main, started, order) ==
      [state |-> [t \in Thread |-> IF t = main THEN "running" ELSE "ready"],
       suspend |-> [t \in Thread |-> IF t \in started \cup {main} THEN 0 ELSE 1],
       prio |-> Base,
       link |-> [t \in Thread |-> IF t \in started THEN Base[t] ELSE None],
       queue |-> [q \in Queue |->
                    IF q \in Level
                    THEN Kept(order, {t \in Thread : Base[t] = q}) ELSE <<>>],
       pending |-> {Base[t] : t \in started},
       resched |-> FALSE, timers |-> <<>>, parks |-> {}]
<1>0. \E main \in Thread : \E started \in SUBSET (Thread \ {main}) :
        \E order \in SetToSeqs(started) :
          /\ os = start(main, started, order) /\ running = main /\ fiber = main
          /\ disabled = 0 /\ seen = {} /\ astray = {} /\ stack = [t \in Thread |-> <<>>]
  BY Zenon DEF Init
<1> HIDE DEF start
<1>main. PICK main \in Thread : \E started \in SUBSET (Thread \ {main}) :
        \E order \in SetToSeqs(started) :
          /\ os = start(main, started, order) /\ running = main /\ fiber = main
          /\ disabled = 0 /\ seen = {} /\ astray = {} /\ stack = [t \in Thread |-> <<>>]
  BY <1>0, Zenon
<1>started. PICK started \in SUBSET (Thread \ {main}) :
        \E order \in SetToSeqs(started) :
          /\ os = start(main, started, order) /\ running = main /\ fiber = main
          /\ disabled = 0 /\ seen = {} /\ astray = {} /\ stack = [t \in Thread |-> <<>>]
  BY <1>main, Zenon
<1>1. PICK order \in SetToSeqs(started) :
          /\ os = start(main, started, order) /\ running = main /\ fiber = main
          /\ disabled = 0 /\ seen = {} /\ astray = {} /\ stack = [t \in Thread |-> <<>>]
  BY <1>started, Zenon
<1>2. /\ order \in Seq(Thread) /\ \A t : Contains(order, t) <=> t \in started
      /\ \A i, j \in 1..Len(order) : i # j => order[i] # order[j]
  BY OrderingFits
<1> DEFINE run(q) == Kept(order, {t \in Thread : Base[t] = q})
           queue == [q \in Queue |-> IF q \in Level THEN run(q) ELSE <<>>]
<1>3. ASSUME NEW q \in Level
      PROVE  /\ run(q) \in Seq(Thread)
             /\ \A t : Contains(run(q), t) <=> t \in started /\ Base[t] = q
             /\ InOrder(run(q), Base)
  <2> DEFINE k == run(q)
             S == {t \in Thread : Base[t] = q}
  <2>1. k \in Seq(Thread) /\ Keeping(k, order, S, Len(order))
    BY <1>2, KeptKeeps
  <2>2. \A t : Contains(k, t) <=> t \in started /\ Base[t] = q
    BY <1>2, KeptFits
  <2> HIDE DEF k, S
  <2>3. ASSUME NEW i \in 1..Len(k), NEW j \in 1..Len(k), i < j
        PROVE  k[i] # k[j] /\ Base[k[i]] <= Base[k[j]]
    <3>1. PICK a \in 1..Len(order), b \in 1..Len(order) :
            a < b /\ k[i] = order[a] /\ k[j] = order[b]
      BY <2>1, <2>3 DEF Keeping
    <3>2. a # b
      BY <3>1
    <3>3. k[i] # k[j]
      BY <1>2, <3>1, <3>2
    <3>4. Contains(k, k[i]) /\ Contains(k, k[j])
      BY DEF Contains
    <3>5. Base[k[i]] = q /\ Base[k[j]] = q /\ q \in Int
      BY <2>2, <3>4, LevelsAreNumbers
    <3> QED BY <3>3, <3>5
  <2>4. InOrder(k, Base)
    BY <2>3 DEF InOrder
  <2> QED BY <2>1, <2>2, <2>4 DEF k
<1> HIDE DEF run
<1>4. \A q \in Queue : /\ queue[q] \in Seq(Thread) /\ InOrder(queue[q], Base)
                       /\ \A t : Contains(queue[q], t) <=> t \in started /\ Base[t] = q
  <2> TAKE q \in Queue
  <2>1. CASE q \in Level
    BY <1>3, <2>1
  <2>2. CASE q \notin Level
    <3>1. queue[q] = <<>>
      BY <2>2
    <3>2. \A t \in started : Base[t] # q
      BY <2>2, Names
    <3> QED BY <3>1, <3>2, EmptyFits
  <2> QED BY <2>1, <2>2
<1>5. /\ os.state = [t \in Thread |-> IF t = main THEN "running" ELSE "ready"]
      /\ os.suspend = [t \in Thread |-> IF t \in started \cup {main} THEN 0 ELSE 1]
      /\ os.prio = Base
      /\ os.link = [t \in Thread |-> IF t \in started THEN Base[t] ELSE None]
      /\ os.queue = queue /\ os.pending = {Base[t] : t \in started}
      /\ os.resched = FALSE /\ os.timers = <<>> /\ os.parks = {}
      /\ os = [state |-> os.state, suspend |-> os.suspend, prio |-> os.prio,
               link |-> os.link, queue |-> os.queue, pending |-> os.pending,
               resched |-> os.resched, timers |-> os.timers, parks |-> os.parks]
  BY <1>1 DEF run, start
<1> HIDE DEF queue
<1>6. os \in Kernel
  <2>1. os.state \in [Thread -> {"ready", "running", "waiting"}]
    BY <1>5
  <2>2. os.suspend \in [Thread -> 0..MaxSuspend]
    BY <1>5, ThreadAssumption
  <2>3. os.prio \in [Thread -> Level \cup {Lowest}]
    BY <1>5, ThreadAssumption, Names
  <2>4. os.link \in [Thread -> Queue \cup {None}]
    BY <1>5, Names
  <2>5. os.queue \in [Queue -> Seq(Thread)]
    BY <1>4, <1>5 DEF queue
  <2>6. os.pending \in SUBSET Level /\ os.resched \in BOOLEAN
        /\ os.timers \in Seq(Thread) /\ os.parks \in SUBSET Thread
    <3>1. \A t \in started : Base[t] \in Level
      BY Names
    <3>2. os.pending \in SUBSET Level
      BY <1>5, <3>1
    <3>3. os.resched \in BOOLEAN /\ os.parks \in SUBSET Thread
      BY <1>5
    <3>4. os.timers \in Seq(Thread)
      BY <1>5, EmptySeq
    <3> QED BY <3>2, <3>3, <3>4
  <2> QED BY <1>5, <2>1, <2>2, <2>3, <2>4, <2>5, <2>6 DEF Kernel
<1>7. QueuesKept(os)
  <2>1. \A q \in Queue : InOrder(os.queue[q], os.prio)
    BY <1>4, <1>5
  <2>2. ASSUME NEW p \in Level PROVE p \in os.pending <=> os.queue[p] # <<>>
    <3>1. p \in Queue /\ queue[p] \in Seq(Thread)
      BY <1>4, Names
    <3>2. queue[p] # <<>> <=> \E t \in Thread : Contains(queue[p], t)
      BY <3>1, EmptyHasNone
    <3> QED BY <1>4, <1>5, <3>1, <3>2
  <2>3. os.pending \subseteq Level
    BY <1>6, KernelFields
  <2> QED BY <2>1, <2>2, <2>3 DEF QueuesKept
<1>8. ASSUME NEW t \in Thread PROVE Placed(os, t)
  <2>1. \A q \in Queue : Contains(os.queue[q], t) <=> t \in started /\ Base[t] = q
    BY <1>4, <1>5
  <2>2. CASE t \in started
    <3>1. os.state[t] = "ready" /\ os.suspend[t] = 0 /\ os.link[t] = Base[t]
          /\ os.prio[t] = Base[t]
      BY <1>5, <2>2
    <3> QED BY <2>1, <2>2, <3>1 DEF Placed, InQueues, Agrees, Home
  <2>3. CASE t \notin started
    <3>1. InQueues(os, t, {None})
      BY <2>1, <2>3, Names DEF InQueues
    <3>2. \/ os.state[t] = "running" /\ os.suspend[t] = 0 /\ os.prio[t] = Base[t]
          \/ os.state[t] = "ready" /\ os.suspend[t] = 1
      BY <1>5, <2>3
    <3> QED BY <3>1, <3>2 DEF Placed, Agrees, Home
  <2> QED BY <2>2, <2>3
<1>9. KernelOK(os)
  BY <1>6, <1>7, <1>8 DEF KernelOK
<1>10. TypeOK
  BY <1>1, <1>6, ThreadAssumption, EmptyStack DEF TypeOK
<1>11. RunInv
  BY <1>1, <1>5 DEF RunInv
<1>12. StackInv
  <2>1. os.state[fiber] = "running" /\ running # None
    BY <1>1, <1>5, Names
  <2>2. \A t \in Thread : stack[t] = <<>>
    BY <1>1
  <2> QED BY <2>1, <2>2, EmptyStack DEF StackInv, OnFiber
<1> QED BY <1>9, <1>10, <1>11, <1>12 DEF KernelInv

-----------------------------------------------------------------------------
(* The theorems                                                             *)

LEMMA KernelNext == KernelInv /\ [Next]_vars => KernelInv'
<1> SUFFICES ASSUME KernelInv, [Next]_vars PROVE KernelInv'
  OBVIOUS
<1>1. CASE Call
  <2>1. CASE SleepTicks \/ SleepSuspended \/ Yield \/ DisableScheduler \/ EnableScheduler
    BY <2>1, SleepTicksKeeps, SleepSuspendedKeeps, YieldKeeps, DisableKeeps
  <2>2. CASE \E q \in WaitQueue : SleepThread(q) \/ SleepTwice(q) \/ Wakeup(q)
    BY <2>2, SleepThreadKeeps, SleepTwiceKeeps, WakeupKeeps
  <2>3. CASE \E t \in Thread : SuspendThread(t) \/ ResumeThread(t)
    BY <2>3, SuspendThreadKeeps, ResumeThreadKeeps
  <2> QED BY <1>1, <2>1, <2>2, <2>3 DEF Call
<1>2. CASE (\E due \in SUBSET Thread : Poll(due)) \/ (\E late \in SUBSET seen : Scan(late))
  BY <1>2, PollKeeps, ScanKeeps
<1>3. CASE Timers
  BY <1>3, FireDueKeeps, FireOtherKeeps, LoopReturns, HealKeeps DEF Timers
<1>4. CASE Pick
  BY <1>4, PickNothingKeeps, PickNextKeeps, PickIdleKeeps, IdleDoneKeeps DEF Pick
<1>5. CASE Idle \/ Resumption
  BY <1>5, IdleKeeps, ResumptionKeeps
<1>6. CASE \E q \in WaitQueue, reschedule \in BOOLEAN : IdleCallback(q, reschedule)
  BY <1>6, IdleCallbackKeeps
<1>7. CASE UNCHANGED vars \/ TornStays
  BY <1>7 DEF TornStays, vars, KernelInv, TypeOK, RunInv, StackInv
<1> QED BY <1>1, <1>2, <1>3, <1>4, <1>5, <1>6, <1>7 DEF Next

\* The kernel's memory, the running context and the unfinished calls of every
\* fiber agree, in every state of every guest program.
THEOREM KernelInductive == Spec => []KernelInv
<1> QED BY KernelInit, KernelNext, PTL DEF Spec

\* Every variable keeps its type: no suspension count of a thread leaves its
\* bounds and no queue or timer list holds anything but threads.
THEOREM KernelTyped == Spec => []TypeOK
<1>1. KernelInv => TypeOK
  BY DEF KernelInv
<1> QED BY <1>1, KernelInductive, PTL

\* A thread is in the one queue its state and link name, queues are in order,
\* the pending mask is exact, and guest code runs only on the fiber of the one
\* thread that is Running, between any two steps of the interrupted loops of
\* OSResumeThread, OSSleepTicks and SelectThread.
THEOREM KernelIsSound == Spec => []KernelSound
<1>1. ASSUME KernelInv PROVE QueuesSound
  <2>1. KernelOK(os) /\ os \in Kernel /\ QueuesKept(os) /\ \A t \in Thread : Placed(os, t)
    BY <1>1 DEF KernelInv, KernelOK
  <2>2. ASSUME NEW t \in Thread
        PROVE  {q \in Queue : Contains(os.queue[q], t)} =
                 CASE os.state[t] = "running" -> {}
                   [] os.state[t] = "waiting" -> {os.link[t]} \cap WaitQueue
                   [] os.state[t] = "ready" -> IF os.suspend[t] = 0 THEN {Base[t]} ELSE {}
    <3>1. InQueues(os, t, {Home(os, t)}) /\ Agrees(os, t)
      BY <2>1 DEF Placed
    <3>2. {q \in Queue : Contains(os.queue[q], t)} = {Home(os, t)} \cap Queue
      BY <3>1 DEF InQueues
    <3>3. CASE os.state[t] = "running"
      BY <3>2, <3>3, Names DEF Home
    <3>4. CASE os.state[t] = "waiting"
      BY <3>1, <3>2, <3>4, Names DEF Home, Agrees
    <3>5. CASE os.state[t] = "ready"
      BY <3>2, <3>5, Names DEF Home
    <3>6. os.state[t] \in {"ready", "running", "waiting"}
      BY <2>1, KernelFields
    <3> QED BY <3>3, <3>4, <3>5, <3>6
  <2>3. \A t \in Thread : os.state[t] = "waiting" => os.link[t] \in WaitQueue
    BY <2>1 DEF Placed, Agrees
  <2>4. \A q \in Queue : \A i, j \in 1..Len(os.queue[q]) :
         i < j => /\ os.queue[q][i] # os.queue[q][j]
                  /\ os.prio[os.queue[q][i]] <= os.prio[os.queue[q][j]]
    BY <2>1 DEF QueuesKept, InOrder
  <2>5. os.pending = {p \in Level : os.queue[p] # <<>>}
    BY <2>1 DEF QueuesKept
  <2> QED BY <2>2, <2>3, <2>4, <2>5 DEF QueuesSound
<1>2. ASSUME KernelInv PROVE OneRunning
  <2>1. \A t \in Thread : os.state[t] = "running" => running = t /\ os.suspend[t] = 0
    BY <1>2 DEF KernelInv, KernelOK, Placed, Agrees, RunInv
  <2> QED BY <1>2, <2>1 DEF KernelInv, RunInv, StackInv, OnFiber, OneRunning
<1>3. KernelInv => KernelSound
  BY <1>1, <1>2 DEF KernelSound
<1> QED BY <1>3, KernelInductive, PTL

-----------------------------------------------------------------------------
(* Urgency                                                                  *)

\* nothing that may run is more urgent than t
Outranks(o, t) == \A p \in o.pending : o.prio[t] <= p

\* control comes back to guest code, or to the end of its sleep
Reached(s) == s = <<>> \/ Head(s).at \in Sleeps

\* A Running thread without the reschedule flag outranks the run queues, and so
\* does a thread that comes back from its sleep while the scheduler is enabled.
UrgentInv ==
    /\ ~ os.resched /\ os.state[fiber] = "running" => Outranks(os, fiber)
    /\ stack[fiber] # <<>> /\ Head(stack[fiber]).at \in Sleeps /\ disabled = 0 =>
         Outranks(os, fiber)

\* what a step owes a thread that it brings back to guest code
Answered ==
    \/ Outranks(os', fiber')
    \/ ~ os'.resched
    \/ UNCHANGED <<Runs(os), stack, fiber>> /\ stack[fiber] = <<>>

Owed ==
    /\ ~ os'.resched /\ os'.state[fiber'] = "running" => Outranks(os', fiber')
    /\ Reached(stack'[fiber']) => Answered \/ (disabled > 0 /\ disabled' = disabled)

LEMMA DispatchOutranks ==
  ASSUME NEW o, KernelOK(o), o.pending # {}
  PROVE  Outranks(Dispatched(o), Chosen(o))
<1> DEFINE p == Urgent(o)
           t == Chosen(o)
           rest == Tail(o.queue[p])
           n == Dispatched(o)
<1>1. o \in Kernel /\ QueuesKept(o)
  BY DEF KernelOK
<1>2. /\ p \in Level /\ p \in Queue /\ o.queue[p] # <<>> /\ o.queue[p] \in Seq(Thread)
      /\ \A x \in o.pending : p <= x
  <2>1. p \in Level /\ o.queue[p] # <<>> /\ \A x \in o.pending : p <= x
    BY <1>1, UrgentIsPending DEF QueuesKept
  <2>2. o.queue \in [Queue -> Seq(Thread)]
    BY <1>1, KernelFields
  <2> HIDE DEF p
  <2>3. p \in Queue
    BY <2>1, Names
  <2> QED BY <2>1, <2>2, <2>3
<1> HIDE DEF p
<1>3. t \in Thread /\ Contains(o.queue[p], t)
  BY <1>2, HeadFits DEF Chosen, p
<1>4. o.prio[t] = p
  BY <1>2, <1>3, RunnableRun
<1>5. n = [o EXCEPT !.queue[p] = rest, !.link[t] = None,
              !.pending = IF rest = <<>> THEN @ \ {p} ELSE @,
              !.state[t] = "running", !.resched = FALSE]
  BY DEF Dispatched, p
<1> HIDE DEF n, rest, t
<1>6. n.prio = o.prio /\ n.pending \subseteq o.pending
  BY <1>1, <1>5 DEF Kernel
<1>7. \A x \in n.pending : n.prio[t] <= x
  BY <1>2, <1>4, <1>6
<1> QED BY <1>7 DEF Outranks, n, t

\* A step that stays on its fiber and brings nobody forward.
LEMMA CalmOutranks ==
  ASSUME KernelInv, UrgentInv, Calm(os, os'), UNCHANGED fiber
  PROVE  ~ os'.resched /\ os'.state[fiber'] = "running" => Outranks(os', fiber')
  BY KernelInvFacts DEF UrgentInv, Calm, Outranks

LEMMA HeadOfConcat ==
  ASSUME NEW S, NEW a \in Seq(S), NEW b \in Seq(S), a # <<>>
  PROVE  a \o b # <<>> /\ Head(a \o b) = Head(a)
<1>1. /\ Len(a) \in Nat \ {0} /\ Len(b) \in Nat /\ a \o b \in Seq(S)
      /\ Len(a \o b) = Len(a) + Len(b) /\ (a \o b)[1] = a[1]
  BY EmptySeq, LenProperties, ConcatProperties
<1>2. a \o b # <<>>
  BY <1>1, EmptySeq
<1> QED BY <1>1, <1>2, HeadTailProperties

\* The innermost call goes on, or calls: control stays inside.
LEMMA BecomesInside ==
  ASSUME NEW m \in Seq(Frame), m # <<>>, Head(m).at \notin Sleeps, Becomes(m), KernelInv,
         stack[fiber] # <<>>, UNCHANGED fiber
  PROVE  ~ Reached(stack'[fiber'])
<1>1. /\ stack[fiber] \in Seq(Frame) /\ fiber \in Thread /\ stack \in [Thread -> Seq(Frame)]
  BY KernelInvFacts
<1>2. stack'[fiber] = m \o Tail(stack[fiber])
  BY <1>1 DEF Becomes
<1>3. Tail(stack[fiber]) \in Seq(Frame)
  BY <1>1, HeadTailProperties
<1> QED BY <1>2, <1>3, HeadOfConcat DEF Reached

\* SelectThread, or nothing, is called inside of the frame f.
LEMMA OnwardInside ==
  ASSUME NEW c \in Onward, NEW f \in Frame
  PROVE  /\ c \o <<f>> \in Seq(Frame) /\ c \o <<f>> # <<>>
         /\ c = <<>> => Head(c \o <<f>>) = f
         /\ c # <<>> => Head(c \o <<f>>).at = "poll"
         /\ c # <<>> => Head(c).at = "poll"
<1>1. c \in Seq(Frame) /\ <<f>> \in Seq(Frame) /\ <<f>> # <<>> /\ Head(<<f>>) = f
  BY OnwardFits
<1>2. c \o <<f>> \in Seq(Frame)
  BY <1>1, ConcatProperties
<1>3. c = <<>> => c \o <<f>> = <<f>>
  BY NothingCalled
<1>4. c # <<>> => Head(c).at = "poll"
  BY DEF Onward, Select
<1> QED BY <1>1, <1>2, <1>3, <1>4, HeadOfConcat

LEMMA CallReaches ==
  ASSUME NEW c \in Onward, KernelInv, InGuestCode, Calling(c), UNCHANGED fiber
  PROVE  Reached(stack'[fiber']) => c = <<>> /\ stack[fiber] = <<>> /\ UNCHANGED stack
<1>1. fiber \in Thread /\ stack \in [Thread -> Seq(Frame)] /\ stack[fiber] = <<>>
  BY KernelInvFacts DEF InGuestCode
<1>2. stack' = [stack EXCEPT ![fiber] = c]
  BY DEF Calling
<1>3. c # <<>> => Head(c).at = "poll"
  BY DEF Onward, Select
<1>4. Reached(stack'[fiber']) => c = <<>>
  BY <1>1, <1>2, <1>3 DEF Reached, Sleeps
<1>5. c = <<>> => UNCHANGED stack
  BY <1>1, <1>2
<1> QED BY <1>1, <1>4, <1>5

\* The rest of the stack of a fiber that hosts the idle loop holds it.
LEMMA IdleBelow ==
  ASSUME NEW s \in Seq(Frame), Chained(s), HostsIdle(s)
  PROVE  ~ Reached(s)
<1>1. s # <<>>
  BY EmptyStack
<1>2. /\ Head(s).at \in Sleeps => Tail(s) = <<>>
      /\ HostsIdle(s) <=> Head(s).at = "idle" \/ HostsIdle(Tail(s))
  BY <1>1, PopFits
<1>3. SUFFICES ASSUME Head(s).at \in Sleeps PROVE FALSE
  BY <1>1 DEF Reached
<1>4. Tail(s) = <<>> /\ Head(s).at # "idle"
  BY <1>2, <1>3 DEF Sleeps
<1>5. ~ HostsIdle(Tail(s))
  BY <1>4, EmptyStack, Zenon
<1> QED BY <1>2, <1>4, <1>5

LEMMA ReturnIs ==
  ASSUME KernelInv, stack[fiber] # <<>>, Return
  PROVE  /\ stack' = [stack EXCEPT ![fiber] = Tail(stack[fiber])]
         /\ stack'[fiber] = Tail(stack[fiber])
<1>1. stack[fiber] \in Seq(Frame) /\ fiber \in Thread /\ stack \in [Thread -> Seq(Frame)]
  BY KernelInvFacts
<1>2. Tail(stack[fiber]) \in Seq(Frame)
  BY <1>1, HeadTailProperties
<1>3. <<>> \o Tail(stack[fiber]) = Tail(stack[fiber])
  BY <1>2, ConcatEmptySeq
<1>4. stack' = [stack EXCEPT ![fiber] = Tail(stack[fiber])]
  BY <1>3 DEF Return, Becomes
<1> QED BY <1>1, <1>4

\* Guest code that is answered at once has brought nobody forward.
LEMMA CallOwes ==
  ASSUME NEW c \in Onward, KernelInv, UrgentInv, InGuestCode, Calling(c), UNCHANGED fiber,
         Calm(os, os'), c = <<>> => Runs(os') = Runs(os) \/ ~ os'.resched
  PROVE  Owed
<1>1. Reached(stack'[fiber']) => c = <<>> /\ stack[fiber] = <<>> /\ UNCHANGED stack
  BY CallReaches
<1> QED BY <1>1, CalmOutranks DEF Owed, Answered

LEMMA SleepTicksOwes == KernelInv /\ UrgentInv /\ SleepTicks => Owed
<1> SUFFICES ASSUME KernelInv, UrgentInv, SleepTicks PROVE Owed
  OBVIOUS
<1> DEFINE rest == Append(Without(os.timers, fiber), fiber)
           armed == [os EXCEPT !.timers = rest, !.parks = @ \cup {fiber}]
           f == [at |-> "parked"]
           c == AfterSuspend(armed, fiber)
<1>1. /\ InGuestCode /\ os.suspend[fiber] = 0
      /\ os' = Suspended(armed, fiber) /\ Calling(c \o <<f>>) /\ UNCHANGED fiber
  BY DEF SleepTicks
<1>2. /\ KernelOK(os) /\ os \in Kernel /\ fiber \in Thread /\ OnFiber(os, fiber, astray)
      /\ stack \in [Thread -> Seq(Frame)]
  BY <1>1, InGuest, KernelInvFacts
<1>3. KernelOK(armed) /\ armed.suspend = os.suspend /\ OnFiber(armed, fiber, astray)
  <2>1. rest \in Seq(Thread)
    <3>1. Without(os.timers, fiber) \in Seq(Thread)
      BY <1>2, KernelFields, WithoutFits
    <3> QED BY <1>2, <3>1, AppendProperties
  <2> HIDE DEF rest
  <2>2. /\ armed \in Kernel /\ armed.state = os.state /\ armed.suspend = os.suspend
        /\ armed.prio = os.prio /\ armed.link = os.link
        /\ armed.queue = os.queue /\ armed.pending = os.pending
        /\ armed.resched = os.resched
    BY <1>2, <2>1 DEF Kernel
  <2> HIDE DEF armed
  <2> QED BY <1>2, <2>2, SideKeeps, SideIsCalm, StaysOn
<1> HIDE DEF armed
<1>4. os'.resched /\ c \in Onward \ {<<>>}
  BY <1>1, <1>2, <1>3, ThreadAssumption, AfterOwnSuspend
<1>6. f \in Frame
  BY FrameFits
<1> HIDE DEF c, f
<1>7. ~ Reached(stack'[fiber'])
  <2>1. c \o <<f>> # <<>> /\ Head(c \o <<f>>).at = "poll"
    BY <1>4, <1>6, OnwardInside
  <2>2. stack'[fiber] = c \o <<f>>
    BY <1>1, <1>2 DEF Calling
  <2> QED BY <1>1, <2>1, <2>2 DEF Reached, Sleeps
<1> QED BY <1>4, <1>7 DEF Owed

LEMMA SleepSuspendedOwes == KernelInv /\ UrgentInv /\ SleepSuspended => Owed
<1> SUFFICES ASSUME KernelInv, UrgentInv, SleepSuspended PROVE Owed
  OBVIOUS
<1>1. /\ os' = Disarmed(os, fiber) /\ UNCHANGED <<fiber, stack>> /\ stack[fiber] = <<>>
  BY DEF SleepSuspended, InGuestCode
<1>2. /\ os'.state = os.state /\ os'.prio = os.prio /\ os'.pending = os.pending
      /\ os'.queue = os.queue /\ os'.resched = os.resched
  BY <1>1, KernelInvFacts, DisarmedFits
<1>3. Calm(os, os') /\ Runs(os') = Runs(os)
  BY <1>2, SideIsCalm DEF Runs
<1> QED BY <1>1, <1>3, CalmOutranks DEF Owed, Answered

LEMMA SleepTwiceOwes ==
  ASSUME NEW q \in WaitQueue
  PROVE  KernelInv /\ UrgentInv /\ SleepTwice(q) => Owed
<1> SUFFICES ASSUME KernelInv, UrgentInv, SleepTwice(q) PROVE Owed
  OBVIOUS
<1>1. Calling(<<[at |-> "torn"]>>) /\ os' = os /\ UNCHANGED fiber
  BY DEF SleepTwice
<1>2. fiber \in Thread /\ stack \in [Thread -> Seq(Frame)]
  BY KernelInvFacts
<1>3. stack'[fiber'] = <<[at |-> "torn"]>>
  BY <1>1, <1>2 DEF Calling
<1>4. ~ Reached(stack'[fiber'])
  BY <1>3 DEF Reached, Sleeps
<1> QED BY <1>1, <1>4, SideIsCalm, CalmOutranks DEF Owed

LEMMA TornOwes == KernelInv /\ UrgentInv /\ TornStays => Owed
<1> SUFFICES ASSUME KernelInv, UrgentInv, TornStays PROVE Owed
  OBVIOUS
<1>1. os' = os /\ UNCHANGED <<fiber, stack>> /\ ~ Reached(stack[fiber])
  BY DEF TornStays, Torn, At, vars, Reached, Sleeps
<1> QED BY <1>1, SideIsCalm, CalmOutranks DEF Owed

LEMMA SleepThreadOwes ==
  ASSUME NEW q \in WaitQueue
  PROVE  KernelInv /\ UrgentInv /\ SleepThread(q) => Owed
<1> SUFFICES ASSUME KernelInv, UrgentInv, SleepThread(q) PROVE Owed
  OBVIOUS
<1> DEFINE l == Linked([os EXCEPT !.state[fiber] = "waiting"], q, fiber)
           f == [at |-> "slept", queue |-> q]
           c == Select(FALSE)
<1>1. /\ InGuestCode /\ os' = [l EXCEPT !.resched = TRUE]
      /\ Calling(c \o <<f>>) /\ UNCHANGED fiber
  BY DEF SleepThread
<1>2. /\ fiber \in Thread /\ stack \in [Thread -> Seq(Frame)] /\ os' \in Kernel
  <2>1. KernelInv'
    BY SleepThreadKeeps
  <2> QED BY <2>1, KernelInvFacts DEF KernelInv, TypeOK
<1>3. os'.resched = TRUE
  <2> HIDE DEF l
  <2> QED BY <1>1, <1>2 DEF Kernel
<1>4. f \in Frame /\ c \in Onward /\ c # <<>>
  BY FrameFits DEF Onward, Select
<1> HIDE DEF c, f
<1>5. ~ Reached(stack'[fiber'])
  <2>1. c \o <<f>> # <<>> /\ Head(c \o <<f>>).at = "poll"
    BY <1>4, OnwardInside
  <2>2. stack'[fiber] = c \o <<f>>
    BY <1>1, <1>2 DEF Calling
  <2> QED BY <1>1, <2>1, <2>2 DEF Reached, Sleeps
<1> QED BY <1>3, <1>5 DEF Owed

LEMMA WakeupOwes ==
  ASSUME NEW q \in WaitQueue
  PROVE  KernelInv /\ UrgentInv /\ Wakeup(q) => Owed
<1> SUFFICES ASSUME KernelInv, UrgentInv, Wakeup(q) PROVE Owed
  OBVIOUS
<1> DEFINE c == IF WakesAny(q) THEN Select(FALSE) ELSE <<>>
<1>1. InGuestCode /\ os' = Woken(os, q) /\ Calling(c) /\ UNCHANGED fiber
  BY DEF Wakeup
<1>2. KernelOK(os)
  BY KernelInvFacts
<1>3. Calm(os, os') /\ (~ WakesAny(q) => Runs(os') = Runs(os))
  BY <1>1, <1>2, WakeIsCalm DEF WakesAny
<1>4. c \in Onward /\ (c = <<>> => ~ WakesAny(q))
  BY DEF Onward, Select
<1> HIDE DEF c
<1> QED BY <1>1, <1>3, <1>4, CallOwes

LEMMA SuspendThreadOwes ==
  ASSUME NEW t \in Thread
  PROVE  KernelInv /\ UrgentInv /\ SuspendThread(t) => Owed
<1> SUFFICES ASSUME KernelInv, UrgentInv, SuspendThread(t) PROVE Owed
  OBVIOUS
<1>1. /\ InGuestCode /\ os' = Suspended(os, t) /\ Calling(AfterSuspend(os, t))
      /\ os.suspend[t] < MaxSuspend /\ UNCHANGED fiber
  BY DEF SuspendThread
<1>2. KernelOK(os) /\ os.suspend[t] \in Nat
  BY KernelInvFacts, KernelFields
<1>3. Calm(os, os') /\ (os.suspend[t] > 0 => os'.queue = os.queue)
  BY <1>1, <1>2, SuspendIsCalm
<1>4. AfterSuspend(os, t) = <<>> => Runs(os') = Runs(os) \/ ~ os'.resched
  BY <1>1, <1>2, <1>3 DEF AfterSuspend, Select, Runs
<1> QED BY <1>1, <1>3, <1>4, AfterIsOnward, CallOwes

LEMMA ResumeThreadOwes ==
  ASSUME NEW t \in Thread
  PROVE  KernelInv /\ UrgentInv /\ ResumeThread(t) => Owed
<1> SUFFICES ASSUME KernelInv, UrgentInv, ResumeThread(t) PROVE Owed
  OBVIOUS
<1>1. /\ InGuestCode /\ os' = Resumed(os, t) /\ Calling(AfterResume(os, t))
      /\ UNCHANGED fiber
  BY DEF ResumeThread
<1>2. KernelOK(os)
  BY KernelInvFacts
<1>3. Calm(os, os') /\ (os.suspend[t] # 1 => os'.queue = os.queue)
  BY <1>1, <1>2, ResumeIsCalm
<1>4. AfterResume(os, t) = <<>> => Runs(os') = Runs(os) \/ ~ os'.resched
  BY <1>1, <1>2, <1>3 DEF AfterResume, Select, Runs
<1> QED BY <1>1, <1>3, <1>4, AfterIsOnward, CallOwes

LEMMA OtherCallsOwe ==
  KernelInv /\ UrgentInv /\ (Yield \/ DisableScheduler \/ EnableScheduler) => Owed
<1> SUFFICES ASSUME KernelInv, UrgentInv, Yield \/ DisableScheduler \/ EnableScheduler
             PROVE  Owed
  OBVIOUS
<1>1. InGuestCode /\ os' = os /\ UNCHANGED fiber
  BY DEF Yield, DisableScheduler, EnableScheduler
<1>2. Calm(os, os') /\ Runs(os') = Runs(os) /\ stack[fiber] = <<>>
  BY <1>1, SideIsCalm DEF InGuestCode
<1>3. CASE Yield
  <2>1. Select(TRUE) \in Onward /\ Calling(Select(TRUE))
    BY <1>3 DEF Onward, Yield
  <2> QED BY <1>1, <1>2, <2>1, CallOwes
<1>4. CASE DisableScheduler \/ EnableScheduler
  <2>1. UNCHANGED stack
    BY <1>4 DEF DisableScheduler, EnableScheduler
  <2> QED BY <1>1, <1>2, <2>1, CalmOutranks DEF Owed, Answered
<1> QED BY <1>3, <1>4

\* A loop over timers, or the idle loop, goes on: control stays inside.
LEMMA InsideOwes ==
  ASSUME NEW m \in Seq(Frame), m # <<>>, Head(m).at \notin Sleeps, Becomes(m), KernelInv,
         UrgentInv, stack[fiber] # <<>>, UNCHANGED fiber, Calm(os, os')
  PROVE  Owed
<1>1. ~ Reached(stack'[fiber'])
  BY BecomesInside
<1> QED BY <1>1, CalmOutranks DEF Owed

LEMMA LoopOwes ==
  ASSUME NEW c \in Onward, NEW f \in Frame, f.at \notin Sleeps, Becomes(c \o <<f>>),
         KernelInv, UrgentInv, stack[fiber] # <<>>, UNCHANGED fiber, Calm(os, os')
  PROVE  Owed
<1> DEFINE m == c \o <<f>>
<1>1. /\ m \in Seq(Frame) /\ m # <<>> /\ (c = <<>> => Head(m) = f)
      /\ (c # <<>> => Head(m).at = "poll")
  BY OnwardInside
<1>2. Head(m).at \notin Sleeps
  BY <1>1 DEF Sleeps
<1>3. Becomes(m)
  OBVIOUS
<1> HIDE DEF m
<1> QED BY <1>1, <1>2, <1>3, InsideOwes

LEMMA FrameOwes ==
  ASSUME NEW f \in Frame, f.at \notin Sleeps, Becomes(<<f>>),
         KernelInv, UrgentInv, stack[fiber] # <<>>, UNCHANGED fiber, Calm(os, os')
  PROVE  Owed
<1>1. <<>> \in Onward /\ Becomes(<<>> \o <<f>>)
  BY NothingCalled
<1> QED BY <1>1, LoopOwes

LEMMA PollOwes ==
  ASSUME NEW due
  PROVE  KernelInv /\ UrgentInv /\ Poll(due) => Owed
<1> SUFFICES ASSUME KernelInv, UrgentInv, Poll(due) PROVE Owed
  OBVIOUS
<1> DEFINE kept == Kept(os.timers, Thread \ due)
           list == Kept(os.timers, due)
           f == [at |-> "timers", list |-> list]
<1>1. /\ At("poll") /\ os' = [os EXCEPT !.timers = kept] /\ Becomes(<<f>>)
      /\ UNCHANGED fiber
  BY DEF Poll
<1>2. os \in Kernel /\ stack[fiber] # <<>>
  BY <1>1, InCall
<1>3. list \in Seq(Thread)
  BY <1>2, KernelFields, KeptFits
<1> HIDE DEF kept, list
<1>4. Calm(os, os')
  <2>1. /\ os'.state = os.state /\ os'.prio = os.prio /\ os'.pending = os.pending
        /\ os'.resched = os.resched
    BY <1>1, <1>2 DEF Kernel
  <2> QED BY <2>1, SideIsCalm
<1>5. f \in Frame /\ f.at \notin Sleeps
  BY <1>3, FrameFits DEF Sleeps
<1> HIDE DEF f
<1> QED BY <1>1, <1>2, <1>4, <1>5, FrameOwes

LEMMA ResumeInLoopOwes ==
  ASSUME NEW o, NEW at \in {"timers", "heal"}, KernelInv, UrgentInv, At(at), Frm.list # <<>>,
         KernelOK(o), Calm(os, o), os' = Resumed(o, Sleeper),
         Becomes(AfterResume(o, Sleeper) \o <<Later>>), UNCHANGED fiber
  PROVE  Owed
<1>1. stack[fiber] # <<>> /\ Frm.at = at /\ Frm \in Frame
  BY InCall
<1>2. Sleeper \in Thread /\ Later \in Frame /\ Later.at = at
  BY <1>1, LoopFrame DEF Sleeper, Later
<1>3. Calm(os, os')
  BY <1>2, ResumeIsCalm, CalmChain
<1>4. Later.at \notin Sleeps
  BY <1>2 DEF Sleeps
<1>5. AfterResume(o, Sleeper) \in Onward
  BY AfterIsOnward
<1> QED BY <1>1, <1>2, <1>3, <1>4, <1>5, LoopOwes

LEMMA FireDueOwes == KernelInv /\ UrgentInv /\ FireDue => Owed
<1> SUFFICES ASSUME KernelInv, UrgentInv, FireDue PROVE Owed
  OBVIOUS
<1> DEFINE parks == os.parks \ {Sleeper}
           o == [os EXCEPT !.parks = parks]
<1>1. /\ At("timers") /\ Frm.list # <<>> /\ os' = Resumed(o, Sleeper)
      /\ Becomes(AfterResume(o, Sleeper) \o <<Later>>) /\ UNCHANGED fiber
  BY DEF FireDue, FireTop
<1>2. KernelOK(os) /\ os \in Kernel /\ parks \in SUBSET Thread
  BY <1>1, InCall, KernelFields
<1> HIDE DEF parks
<1>3. KernelOK(o) /\ Calm(os, o)
  BY <1>2, ParksAside, ParksAreCalm
<1> HIDE DEF o
<1> QED BY <1>1, <1>3, ResumeInLoopOwes

LEMMA HealOwes == KernelInv /\ UrgentInv /\ Heal => Owed
<1> SUFFICES ASSUME KernelInv, UrgentInv, Heal PROVE Owed
  OBVIOUS
<1>1. /\ At("heal") /\ Frm.list # <<>> /\ os' = Resumed(os, Sleeper)
      /\ Becomes(AfterResume(os, Sleeper) \o <<Later>>) /\ UNCHANGED fiber
  BY DEF Heal
<1>2. KernelOK(os) /\ Calm(os, os)
  BY <1>1, InCall, SideIsCalm
<1> QED BY <1>1, <1>2, ResumeInLoopOwes

LEMMA FireOtherOwes == KernelInv /\ UrgentInv /\ (FireRunning \/ FireStale) => Owed
<1> SUFFICES ASSUME KernelInv, UrgentInv, FireRunning \/ FireStale PROVE Owed
  OBVIOUS
<1>1. At("timers") /\ Frm.list # <<>> /\ Becomes(<<Later>>) /\ UNCHANGED fiber
  BY DEF FireRunning, FireStale, FireTop
<1>2. os \in Kernel /\ Frm \in Frame /\ Frm.at = "timers" /\ stack[fiber] # <<>>
  BY <1>1, InCall
<1>3. Later \in Frame /\ Later.at \notin Sleeps
  BY <1>1, <1>2, LoopFrame DEF Later, Sleeps
<1>4. CASE FireRunning
  <2> DEFINE timers == Append(os.timers, Sleeper)
  <2>1. os' = os \/ os' = [os EXCEPT !.timers = timers]
    BY <1>4 DEF FireRunning
  <2> HIDE DEF timers
  <2>2. /\ os'.state = os.state /\ os'.prio = os.prio /\ os'.pending = os.pending
        /\ os'.resched = os.resched
    BY <1>2, <2>1 DEF Kernel
  <2> QED BY <1>1, <1>2, <1>3, <2>2, SideIsCalm, FrameOwes
<1>5. CASE FireStale
  <2>1. Calm(os, os')
    BY <1>2, <1>5, ParksAreCalm DEF FireStale
  <2> QED BY <1>1, <1>2, <1>3, <2>1, FrameOwes
<1> QED BY <1>4, <1>5

LEMMA ScanOwes ==
  ASSUME NEW late
  PROVE  KernelInv /\ UrgentInv /\ Scan(late) => Owed
<1> SUFFICES ASSUME KernelInv, UrgentInv, Scan(late) PROVE Owed
  OBVIOUS
<1> DEFINE armed == os.parks \cap ToSet(os.timers)
           stranded == {t \in os.parks \ armed : Parked(os, t)}
           heal == stranded \cap late
           parks == armed \cup (stranded \ heal)
<1>1. PICK list \in SetToSeqs(heal) :
        /\ At("timers") /\ os' = [os EXCEPT !.parks = parks]
        /\ Becomes(<<[at |-> "heal", list |-> list]>>) /\ UNCHANGED fiber
  BY DEF Scan
<1> DEFINE f == [at |-> "heal", list |-> list]
<1>2. os \in Kernel /\ stack[fiber] # <<>>
  BY <1>1, InCall
<1>3. heal \in SUBSET Thread
  BY <1>2, KernelFields
<1> HIDE DEF heal, parks
<1>4. list \in Seq(Thread)
  BY <1>3, OrderingFits
<1>5. f \in Frame /\ f.at \notin Sleeps
  BY <1>4, FrameFits DEF Sleeps
<1>6. Becomes(<<f>>)
  BY <1>1
<1> HIDE DEF f
<1>7. Calm(os, os')
  BY <1>1, <1>2, ParksAreCalm
<1> QED BY <1>1, <1>2, <1>5, <1>6, <1>7, FrameOwes

LEMMA LoopReturnOwes == KernelInv /\ UrgentInv /\ (NoScan \/ Healed) => Owed
<1> SUFFICES ASSUME KernelInv, UrgentInv, NoScan \/ Healed PROVE Owed
  OBVIOUS
<1>1. (At("timers") \/ At("heal")) /\ Return /\ os' = os /\ UNCHANGED fiber
  BY DEF NoScan, Healed
<1>2. /\ stack[fiber] # <<>> /\ Head(stack[fiber]).at \in Loops
      /\ stack[fiber] \in Seq(Frame) /\ Chained(stack[fiber])
  BY <1>1, KernelInvFacts DEF At, Loops
<1>3. Tail(stack[fiber]) # <<>> /\ Head(Tail(stack[fiber])).at \in {"pick", "idle"}
  BY <1>2, PopFits
<1>4. ~ Reached(stack'[fiber'])
  BY <1>1, <1>2, <1>3, ReturnIs DEF Reached, Sleeps
<1> QED BY <1>1, <1>4, SideIsCalm, CalmOutranks DEF Owed

LEMMA PickNothingOwes == KernelInv /\ UrgentInv /\ PickNothing => Owed
<1> SUFFICES ASSUME KernelInv, UrgentInv, PickNothing PROVE Owed
  OBVIOUS
<1>1. /\ At("pick") /\ (disabled > 0 \/ running = None \/ Keeps)
      /\ Return /\ os' = os /\ UNCHANGED <<fiber, disabled>>
  BY DEF PickNothing
<1>2. stack[fiber] # <<>> /\ Frm.at = "pick"
  BY <1>1, InCall
<1>3. ~ os'.resched /\ os'.state[fiber'] = "running" => Outranks(os', fiber')
  BY <1>1, SideIsCalm, CalmOutranks
<1>4. CASE disabled > 0
  BY <1>1, <1>3, <1>4 DEF Owed
<1>5. CASE running = None
  <2> DEFINE r == Tail(stack[fiber])
  <2>1. stack[fiber] \in Seq(Frame) /\ Chained(stack[fiber]) /\ HostsIdle(stack[fiber])
    BY <1>5, KernelInvFacts
  <2>2. r \in Seq(Frame) /\ Chained(r) /\ HostsIdle(r)
    BY <1>2, <2>1, PopFits DEF Frm
  <2>3. ~ Reached(r)
    BY <2>2, IdleBelow
  <2>4. stack'[fiber'] = r
    BY <1>1, <1>2, ReturnIs
  <2> QED BY <1>3, <2>3, <2>4 DEF Owed
<1>6. CASE running # None /\ Keeps
  <2>1. running = fiber
    BY <1>6 DEF KernelInv, RunInv
  <2>2. Outranks(os', fiber')
    BY <1>1, <1>6, <2>1 DEF Keeps, Outranks
  <2> QED BY <2>2 DEF Owed, Answered
<1> QED BY <1>1, <1>4, <1>5, <1>6

\* The fiber that SelectThread switches to outranks what it leaves behind.
LEMMA SwitchOwes ==
  ASSUME NEW o, KernelOK(o), o.pending # {}, Dispatch(o)
  PROVE  Owed
<1>1. os' = Dispatched(o) /\ fiber' = Chosen(o)
  BY DispatchIs
<1>2. Outranks(os', fiber')
  BY <1>1, DispatchOutranks
<1> QED BY <1>2 DEF Owed, Answered

LEMMA PickOwes == KernelInv /\ UrgentInv /\ Pick => Owed
<1> SUFFICES ASSUME KernelInv, UrgentInv, Pick PROVE Owed
  OBVIOUS
<1>1. CASE PickNothing
  BY <1>1, PickNothingOwes
<1>2. CASE PickNext
  <2>1. running # None /\ Preempted.pending # {} /\ Dispatch(Preempted)
    BY <1>2 DEF PickNext
  <2>2. KernelOK(Preempted)
    BY <2>1, PreemptedFits
  <2> QED BY <2>1, <2>2, SwitchOwes
<1>3. CASE PickIdle
  <2> DEFINE f == [at |-> "idle"]
  <2>1. At("pick") /\ Becomes(<<f>>) /\ os' = os /\ UNCHANGED fiber
    BY <1>3 DEF PickIdle
  <2>2. stack[fiber] # <<>> /\ Calm(os, os')
    BY <2>1, InCall, SideIsCalm
  <2>3. f \in Frame /\ f.at \notin Sleeps
    BY FrameFits DEF Sleeps
  <2> HIDE DEF f
  <2> QED BY <2>1, <2>2, <2>3, FrameOwes
<1>4. CASE IdleDone
  <2>1. os.pending # {} /\ Dispatch(os) /\ KernelOK(os)
    BY <1>4, KernelInvFacts DEF IdleDone
  <2> QED BY <2>1, SwitchOwes
<1> QED BY <1>1, <1>2, <1>3, <1>4 DEF Pick

LEMMA IdleOwes == KernelInv /\ UrgentInv /\ Idle => Owed
<1> SUFFICES ASSUME KernelInv, UrgentInv, Idle PROVE Owed
  OBVIOUS
<1> DEFINE a == [at |-> "poll"]
           b == [at |-> "idle"]
           m == <<a, b>>
<1>1. At("idle") /\ Becomes(m) /\ os' = os /\ UNCHANGED fiber
  BY DEF Idle
<1>2. stack[fiber] # <<>> /\ Calm(os, os')
  BY <1>1, InCall, SideIsCalm
<1>3. m \in Seq(Frame) /\ m # <<>> /\ Head(m).at \notin Sleeps
  <2>1. a \in Frame /\ b \in Frame
    BY FrameFits
  <2>2. m \in Seq(Frame) /\ m # <<>>
    BY <2>1, PairFits
  <2>3. Head(m) = a
    OBVIOUS
  <2> QED BY <2>2, <2>3 DEF Sleeps
<1> HIDE DEF m
<1> QED BY <1>1, <1>2, <1>3, InsideOwes

LEMMA IdleCallbackOwes ==
  ASSUME NEW q \in WaitQueue, NEW reschedule
  PROVE  KernelInv /\ UrgentInv /\ IdleCallback(q, reschedule) => Owed
<1> SUFFICES ASSUME KernelInv, UrgentInv, IdleCallback(q, reschedule) PROVE Owed
  OBVIOUS
<1> DEFINE c == IF reschedule /\ WakesAny(q) THEN Select(FALSE) ELSE <<>>
           f == [at |-> "idle"]
<1>1. At("idle") /\ os' = Woken(os, q) /\ Becomes(c \o <<f>>) /\ UNCHANGED fiber
  BY DEF IdleCallback
<1>2. stack[fiber] # <<>> /\ KernelOK(os)
  BY <1>1, InCall
<1>3. Calm(os, os')
  BY <1>1, <1>2, WakeIsCalm
<1>4. c \in Onward /\ f \in Frame /\ f.at \notin Sleeps
  BY FrameFits DEF Onward, Sleeps
<1> HIDE DEF c, f
<1> QED BY <1>1, <1>2, <1>3, <1>4, LoopOwes

\* A sleep ends on the thread that SelectThread chose, and has nothing to take back.
LEMMA ResumptionOwes == KernelInv /\ UrgentInv /\ Resumption => Owed
<1> SUFFICES ASSUME KernelInv, UrgentInv, Resumption PROVE Owed
  OBVIOUS
<1>1. PICK at \in Sleeps : At(at)
  BY DEF Resumption, Unpark, Unsleep, Sleeps
<1>2. stack[fiber] # <<>> /\ os.state[fiber] = "running" /\ os.suspend[fiber] = 0
  BY <1>1, SleepEnds
<1>3. os' = os /\ UNCHANGED <<fiber, disabled>>
  BY <1>2 DEF Resumption, Unpark, Unsleep
<1>4. disabled = 0 => Outranks(os', fiber')
  BY <1>1, <1>3 DEF At, UrgentInv
<1>5. disabled \in Nat
  BY KernelInvFacts
<1> QED BY <1>3, <1>4, <1>5, SideIsCalm, CalmOutranks DEF Owed, Answered

LEMMA NextOwes == KernelInv /\ UrgentInv /\ Next => Owed
<1> SUFFICES ASSUME KernelInv, UrgentInv, Next PROVE Owed
  OBVIOUS
<1>1. CASE Call
  <2>1. CASE SleepTicks \/ SleepSuspended
    BY <2>1, SleepTicksOwes, SleepSuspendedOwes
  <2>2. CASE Yield \/ DisableScheduler \/ EnableScheduler
    BY <2>2, OtherCallsOwe
  <2>3. CASE \E q \in WaitQueue : SleepThread(q) \/ SleepTwice(q) \/ Wakeup(q)
    BY <2>3, SleepThreadOwes, SleepTwiceOwes, WakeupOwes
  <2>4. CASE \E t \in Thread : SuspendThread(t) \/ ResumeThread(t)
    BY <2>4, SuspendThreadOwes, ResumeThreadOwes
  <2> QED BY <1>1, <2>1, <2>2, <2>3, <2>4 DEF Call
<1>2. CASE (\E due \in SUBSET Thread : Poll(due)) \/ (\E late \in SUBSET seen : Scan(late))
  BY <1>2, PollOwes, ScanOwes
<1>3. CASE Timers
  BY <1>3, FireDueOwes, FireOtherOwes, LoopReturnOwes, HealOwes DEF Timers
<1>4. CASE Pick
  BY <1>4, PickOwes
<1>5. CASE Idle \/ Resumption
  BY <1>5, IdleOwes, ResumptionOwes
<1>6. CASE \E q \in WaitQueue, reschedule \in BOOLEAN : IdleCallback(q, reschedule)
  BY <1>6, IdleCallbackOwes
<1>7. CASE TornStays
  BY <1>7, TornOwes
<1> QED BY <1>1, <1>2, <1>3, <1>4, <1>5, <1>6, <1>7 DEF Next

\* Whom a step brings back runs without the flag, hence outranks the others.
LEMMA ReachedRuns ==
  ASSUME KernelInv', Reached(stack'[fiber'])
  PROVE  ~ os'.resched => os'.state[fiber'] = "running"
  BY DEF KernelInv, StackInv, Reached, OnFiber

LEMMA UrgentNext ==
  ASSUME KernelInv, UrgentInv, Next
  PROVE  UrgentInv'
<1>1. Owed /\ KernelInv'
  BY NextOwes, KernelNext
<1>2. ASSUME stack'[fiber'] # <<>>, Head(stack'[fiber']).at \in Sleeps, disabled' = 0
      PROVE  Outranks(os', fiber')
  <2>1. Reached(stack'[fiber'])
    BY <1>2 DEF Reached
  <2>2. ~ (disabled > 0 /\ disabled' = disabled)
    BY <1>2
  <2>3. Answered
    BY <1>1, <2>1, <2>2 DEF Owed
  <2>4. ~ (UNCHANGED <<stack, fiber>> /\ stack[fiber] = <<>>)
    BY <1>2
  <2>5. ~ os'.resched => os'.state[fiber'] = "running"
    BY <1>1, <2>1, ReachedRuns
  <2> QED BY <1>1, <2>3, <2>4, <2>5 DEF Answered, Owed
<1> QED BY <1>1, <1>2 DEF UrgentInv, Owed, Outranks

LEMMA UrgentInit == Init => UrgentInv
<1> SUFFICES ASSUME Init PROVE UrgentInv
  OBVIOUS
<1>1. PICK main \in Thread, started \in SUBSET Thread :
        /\ \A t \in started : Base[main] <= Base[t]
        /\ os.prio = Base /\ os.pending = {Base[t] : t \in started}
        /\ fiber = main /\ stack = [t \in Thread |-> <<>>]
  BY DEF Init
<1>2. Outranks(os, fiber) /\ stack[fiber] = <<>>
  BY <1>1 DEF Outranks
<1> QED BY <1>2 DEF UrgentInv

\* With the scheduler enabled no call that moves a thread into or out of a run
\* queue, or reaches SelectThread, comes back to guest code past a more urgent
\* runnable thread, on whatever fiber it comes back.
THEOREM UrgentFirst == Spec => Urgency
<1>1. Init => KernelInv /\ UrgentInv
  BY KernelInit, UrgentInit
<1>2. KernelInv /\ UrgentInv /\ [Next]_vars => (KernelInv /\ UrgentInv)'
  <2> SUFFICES ASSUME KernelInv, UrgentInv, [Next]_vars PROVE KernelInv' /\ UrgentInv'
    OBVIOUS
  <2>1. CASE Next
    BY <2>1, KernelNext, UrgentNext
  <2>2. CASE UNCHANGED vars
    BY <2>2, KernelNext DEF vars, UrgentInv, Outranks
  <2> QED BY <2>1, <2>2
<1>3. ASSUME KernelInv, UrgentInv, [Next]_vars
      PROVE  [disabled = 0 /\ stack'[fiber'] = <<>>
              /\ <<RunQueues, stack>>' # <<RunQueues, stack>>
              => \A p \in os'.pending : os'.prio[fiber'] <= p]_vars
  <2> SUFFICES ASSUME Next, disabled = 0, stack'[fiber'] = <<>>,
                      <<RunQueues, stack>>' # <<RunQueues, stack>>
               PROVE  Outranks(os', fiber')
    BY <1>3 DEF Outranks
  <2>1. Owed /\ KernelInv'
    BY <1>3, NextOwes, KernelNext
  <2>2. Reached(stack'[fiber'])
    BY DEF Reached
  <2>3. Answered
    BY <2>1, <2>2 DEF Owed
  <2>4. ~ UNCHANGED <<Runs(os), stack>>
    BY DEF Runs, RunQueues
  <2>5. ~ os'.resched => os'.state[fiber'] = "running"
    BY <2>1, <2>2, ReachedRuns
  <2> QED BY <2>1, <2>3, <2>4, <2>5 DEF Answered, Owed
<1> QED BY <1>1, <1>2, <1>3, PTL DEF Spec, Urgency
=============================================================================
