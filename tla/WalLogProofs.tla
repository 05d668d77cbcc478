----------------------------- MODULE WalLogProofs -----------------------------
(***************************************************************************)
(* The WAL writer implements the abstract log.  LogNow, the refinement     *)
(* mapping, concatenates what the segments hold; that it is sorted, and    *)
(* grows with the active segment, is an induction over the segments.       *)
(***************************************************************************)
EXTENDS WalWriterProofs, WellFoundedInduction

\* Natural numbers are well-founded: a set of them has a least member.
LEMMA Least ==
  ASSUME NEW T \in SUBSET Nat, T # {}
  PROVE  \E n \in T : \A m \in T : n <= m
<1>1. PICK n \in T : \A m \in T : ~(<<m, n>> \in OpToRel(<, Nat))
  BY WFMin, NatLessThanWellFounded, Zenon
<1>2. \A m \in T : ~(m < n)
  BY <1>1, Zenon DEF OpToRel
<1> QED  BY <1>2

\* Induction up to n, on a set.
LEMMA Climb ==
  ASSUME NEW n \in Nat, NEW T, 0 \in T,
         \A k \in 0..n : k < n /\ k \in T => k + 1 \in T
  PROVE  \A k \in 0..n : k \in T
<1> DEFINE Miss == {k \in 0..n : k \notin T}
<1> SUFFICES ASSUME Miss # {} PROVE FALSE
  OBVIOUS
<1>0. Miss \in SUBSET Nat
  OBVIOUS
<1>1. PICK k \in Miss : \A m \in Miss : k <= m
  <2> HIDE DEF Miss
  <2> QED  BY <1>0, Least
<1>2. k # 0 /\ k - 1 \in 0..n /\ k - 1 \in T
  BY <1>1
<1> QED  BY <1>1, <1>2

\* What is in one sequence after another.
LEMMA RangeJoined ==
  ASSUME NEW S, NEW s \in Seq(S), NEW t \in Seq(S)
  PROVE  Range(s \o t) = Range(s) \cup Range(t)
<1>1. /\ DOMAIN (s \o t) = 1..Len(s) + Len(t) /\ DOMAIN s = 1..Len(s) /\ DOMAIN t = 1..Len(t)
      /\ \A i \in 1..Len(s) + Len(t) :
           (s \o t)[i] = IF i <= Len(s) THEN s[i] ELSE t[i - Len(s)]
  BY Joined
<1>2. ASSUME NEW x \in Range(s \o t) PROVE x \in Range(s) \cup Range(t)
  <2>1. PICK i \in 1..Len(s) + Len(t) : x = (s \o t)[i]
    BY <1>1 DEF Range
  <2>2. CASE i <= Len(s)
    BY <1>1, <2>1, <2>2 DEF Range
  <2>3. CASE ~(i <= Len(s))
    <3>1. i - Len(s) \in 1..Len(t) /\ x = t[i - Len(s)]
      BY <1>1, <2>1, <2>3
    <3> QED  BY <1>1, <3>1 DEF Range
  <2> QED  BY <2>2, <2>3
<1>3. ASSUME NEW x \in Range(s) PROVE x \in Range(s \o t)
  <2>1. PICK i \in 1..Len(s) : x = s[i]
    BY <1>1 DEF Range
  <2>2. i \in 1..Len(s) + Len(t) /\ (s \o t)[i] = x
    BY <1>1, <2>1
  <2> QED  BY <1>1, <2>2 DEF Range
<1>4. ASSUME NEW x \in Range(t) PROVE x \in Range(s \o t)
  <2>1. PICK i \in 1..Len(t) : x = t[i]
    BY <1>1 DEF Range
  <2>2. i + Len(s) \in 1..Len(s) + Len(t) /\ (s \o t)[i + Len(s)] = x
    BY <1>1, <2>1
  <2> QED  BY <1>1, <2>2, Zenon DEF Range
<1> QED  BY <1>2, <1>3, <1>4

\* Concat is what its recursion says: the equation has a solution.
LEMMA ConcatUpto ==
  ASSUME NEW S, NEW g \in [Ids -> Seq(S)]
  PROVE  \E f \in [0..MaxSeg -> Seq(S)] :
           /\ f[0] = <<>>
           /\ \A k \in Ids : f[k] = f[k - 1] \o g[k]
           /\ Concat(g) = f[MaxSeg]
<1>0. MaxSeg \in Nat
  BY WalAssumption
<1> DEFINE Upto(n, f) == /\ f \in [0..n -> Seq(S)] /\ f[0] = <<>>
                         /\ \A k \in 1..n : f[k] = f[k - 1] \o g[k]
           T == {n \in Nat : \E f : Upto(n, f)}
<1>1. 0 \in T
  <2> DEFINE e == [k \in 0..0 |-> <<>>]
  <2>1. Upto(0, e)
    OBVIOUS
  <2> QED  BY <2>1, Zenon
<1>2. ASSUME NEW n \in 0..MaxSeg, n < MaxSeg, n \in T PROVE n + 1 \in T
  <2>1. PICK f : Upto(n, f)
    BY <1>2, Zenon
  <2> DEFINE e == [k \in 0..(n + 1) |-> IF k = n + 1 THEN f[n] \o g[n + 1] ELSE f[k]]
  <2>2. n + 1 \in Ids /\ n \in Nat
    BY <1>0, <1>2 DEF Ids
  <2>3. f[n] \o g[n + 1] \in Seq(S)
    BY <2>1, <2>2
  <2>4. e \in [0..(n + 1) -> Seq(S)] /\ e[0] = <<>>
    BY <2>1, <2>2, <2>3
  <2>5. ASSUME NEW k \in 1..(n + 1) PROVE e[k] = e[k - 1] \o g[k]
    <3>1. CASE k = n + 1
      <4>1. n + 1 \in 0..(n + 1) /\ n \in 0..(n + 1) /\ n # n + 1 /\ k - 1 = n
        BY <2>2, <3>1
      <4> QED  BY <3>1, <4>1, Zenon
    <3>2. CASE k # n + 1
      <4>1. k \in 1..n /\ e[k] = f[k] /\ e[k - 1] = f[k - 1]
        BY <2>2, <3>2
      <4> QED  BY <2>1, <4>1, Zenon
    <3> QED  BY <3>1, <3>2, Zenon
  <2>6. Upto(n + 1, e)
    BY <2>4, <2>5, Zenon
  <2>7. n + 1 \in Nat
    BY <2>2
  <2> HIDE DEF Upto, e
  <2> QED  BY <2>6, <2>7, Zenon
<1>3. MaxSeg \in T
  <2> HIDE DEF T
  <2>1. \A k \in 0..MaxSeg : k \in T
    BY <1>0, <1>1, <1>2, Climb
  <2> QED  BY <1>0, <2>1
<1>4. PICK h : Upto(MaxSeg, h)
  BY <1>3, Zenon
<1> DEFINE Eq(f) == f = [k \in 0..MaxSeg |-> IF k = 0 THEN <<>> ELSE f[k - 1] \o g[k]]
           f == CHOOSE f : Eq(f)
<1>5. Eq(h)
  <2>1. h = [k \in 0..MaxSeg |-> h[k]]
    BY <1>4
  <2>2. ASSUME NEW k \in 0..MaxSeg
        PROVE  h[k] = IF k = 0 THEN <<>> ELSE h[k - 1] \o g[k]
    <3>1. k # 0 => k \in 1..MaxSeg
      BY <1>0
    <3> QED  BY <1>4, <3>1, Zenon
  <2> QED  BY <2>1, <2>2, Zenon
<1>6. Eq(f)
  BY <1>5, Zenon
<1>7. Concat(g) = f[MaxSeg]
  BY Zenon DEF Concat
<1> HIDE DEF f
<1>8. \A k \in 0..MaxSeg : f[k] = IF k = 0 THEN <<>> ELSE f[k - 1] \o g[k]
  BY <1>6, Zenon
<1>9. \A k \in 0..MaxSeg : f[k] = h[k]
  <2> DEFINE W == {k \in 0..MaxSeg : f[k] = h[k]}
  <2>1. 0 \in W
    BY <1>0, <1>4, <1>8
  <2>2. ASSUME NEW k \in 0..MaxSeg, k < MaxSeg, k \in W PROVE k + 1 \in W
    <3>1. k + 1 \in 0..MaxSeg /\ k + 1 \in 1..MaxSeg /\ (k + 1) - 1 = k /\ k + 1 # 0
      BY <1>0, <2>2
    <3>2. f[k + 1] = f[k] \o g[k + 1]
      BY <1>8, <3>1, Zenon
    <3>3. h[k + 1] = h[k] \o g[k + 1]
      BY <1>4, <3>1, Zenon
    <3> QED  BY <2>2, <3>1, <3>2, <3>3, Zenon
  <2> HIDE DEF W
  <2>3. \A k \in 0..MaxSeg : k \in W
    BY <1>0, <2>1, <2>2, Climb
  <2> QED  BY <2>3 DEF W
<1>10. f = h
  BY <1>4, <1>6, <1>9, Zenon
<1> QED  BY <1>4, <1>7, <1>10, Zenon DEF Ids

\* Strictly increasing; and all of s before all of t.
Sorted(s) == \A a, b \in DOMAIN s : a < b => s[a] < s[b]
Under(s, t) == \A a \in DOMAIN s, b \in DOMAIN t : s[a] < t[b]

\* Sorted sequences, each under the next, are sorted when put together.
LEMMA SortedCat ==
  ASSUME NEW s \in Seq(Nat), NEW t \in Seq(Nat), Sorted(s), Sorted(t), Under(s, t)
  PROVE  Sorted(s \o t) /\ s \o t \in Seq(Nat) /\ Range(s \o t) = Range(s) \cup Range(t)
<1>1. /\ s \o t \in Seq(Nat) /\ Len(s \o t) = Len(s) + Len(t)
      /\ \A i \in 1..Len(s) + Len(t) :
           (s \o t)[i] = IF i <= Len(s) THEN s[i] ELSE t[i - Len(s)]
  BY Joined
<1>2. DOMAIN (s \o t) = 1..Len(s) + Len(t) /\ DOMAIN s = 1..Len(s) /\ DOMAIN t = 1..Len(t)
  BY <1>1
<1>3. ASSUME NEW a \in 1..Len(s) + Len(t), NEW b \in 1..Len(s) + Len(t), a < b
      PROVE  (s \o t)[a] < (s \o t)[b]
  <2>1. CASE b <= Len(s)
    <3>1. a \in DOMAIN s /\ b \in DOMAIN s /\ (s \o t)[a] = s[a] /\ (s \o t)[b] = s[b]
      BY <1>1, <1>2, <1>3, <2>1
    <3> QED  BY <1>3, <3>1 DEF Sorted
  <2>2. CASE a <= Len(s) /\ b > Len(s)
    <3>1. b - Len(s) \in DOMAIN t /\ a \in DOMAIN s
      BY <1>2, <2>2
    <3> QED  BY <1>1, <2>2, <3>1 DEF Under
  <2>3. CASE a > Len(s)
    <3>1. b - Len(s) \in DOMAIN t /\ a - Len(s) \in DOMAIN t /\ a - Len(s) < b - Len(s)
      BY <1>2, <1>3, <2>3
    <3>2. (s \o t)[a] = t[a - Len(s)] /\ (s \o t)[b] = t[b - Len(s)]
      BY <1>1, <1>3, <2>3
    <3> QED  BY <3>1, <3>2 DEF Sorted
  <2>4. b <= Len(s) \/ (a <= Len(s) /\ b > Len(s)) \/ a > Len(s)
    OBVIOUS
  <2> QED  BY <2>1, <2>2, <2>3, <2>4, Zenon
<1> QED  BY <1>1, <1>2, <1>3, RangeJoined DEF Sorted

\* A log of sorted segments, each under those after it, is sorted and holds
\* exactly what the segments hold.
LEMMA ConcatSorted ==
  ASSUME NEW g \in [Ids -> Seq(Nat)],
         \A i \in Ids : Sorted(g[i]),
         \A i, j \in Ids : i < j => Under(g[i], g[j])
  PROVE  /\ Concat(g) \in Seq(Nat) /\ Sorted(Concat(g))
         /\ Range(Concat(g)) = UNION {Range(g[i]) : i \in Ids}
<1>0. MaxSeg \in Nat
  BY WalAssumption
<1>1. PICK f \in [0..MaxSeg -> Seq(Nat)] :
        /\ f[0] = <<>>
        /\ \A k \in Ids : f[k] = f[k - 1] \o g[k]
        /\ Concat(g) = f[MaxSeg]
  BY ConcatUpto, Zenon
<1> DEFINE P(k) == Sorted(f[k]) /\ (\A x : x \in Range(f[k]) <=> \E i \in 1..k : x \in Range(g[i]))
           T == {k \in 0..MaxSeg : P(k)}
<1> HIDE DEF T
<1>2. 0 \in T
  <2>1. Sorted(f[0]) /\ Range(f[0]) = {}
    BY <1>1 DEF Sorted, Range
  <2>2. 1..0 = {}
    OBVIOUS
  <2> QED  BY <1>0, <2>1, <2>2 DEF T
<1>3. ASSUME NEW k \in 0..MaxSeg, k < MaxSeg, k \in T PROVE k + 1 \in T
  <2>0. P(k)
    BY <1>3, Zenon DEF T
  <2>1. /\ k + 1 \in Ids /\ k + 1 \in 0..MaxSeg /\ (k + 1) - 1 = k
        /\ f[k] \in Seq(Nat) /\ g[k + 1] \in Seq(Nat)
    BY <1>0, <1>3 DEF Ids
  <2>2. f[k + 1] = f[k] \o g[k + 1]
    BY <1>1, <2>1, Zenon
  <2>3. Under(f[k], g[k + 1])
    <3>1. ASSUME NEW a \in DOMAIN f[k], NEW b \in DOMAIN g[k + 1]
          PROVE  f[k][a] < g[k + 1][b]
      <4>1. f[k][a] \in Range(f[k])
        BY DEF Range
      <4>2. PICK i \in 1..k : f[k][a] \in Range(g[i])
        BY <2>0, <4>1, Zenon
      <4>3. i \in Ids /\ i < k + 1
        BY <1>0, <1>3 DEF Ids
      <4>4. PICK c \in DOMAIN g[i] : f[k][a] = g[i][c]
        BY <4>2 DEF Range
      <4>5. Under(g[i], g[k + 1])
        BY <2>1, <4>3
      <4> QED  BY <4>4, <4>5, Zenon DEF Under
    <3> QED  BY <3>1 DEF Under
  <2>4. Sorted(f[k]) /\ Sorted(g[k + 1])
    BY <2>0, <2>1
  <2>5. Sorted(f[k + 1]) /\ Range(f[k + 1]) = Range(f[k]) \cup Range(g[k + 1])
    BY <2>1, <2>2, <2>3, <2>4, SortedCat
  <2>6. \A i : i \in 1..(k + 1) <=> i \in 1..k \/ i = k + 1
    BY <2>1
  <2>7. P(k + 1)
    BY <2>0, <2>5, <2>6, Zenon
  <2> HIDE DEF P
  <2> QED  BY <2>1, <2>7, Zenon DEF T
<1>4. \A k \in 0..MaxSeg : k \in T
  BY <1>0, <1>2, <1>3, Climb, Zenon
<1>5. MaxSeg \in T
  BY <1>0, <1>4
<1>6. Ids = 1..MaxSeg /\ MaxSeg \in 0..MaxSeg
  BY <1>0 DEF Ids
<1>7. P(MaxSeg)
  BY <1>5 DEF T
<1> QED  BY <1>1, <1>6, <1>7

\* h is g with w at the end of its i-th sequence, the last that is not empty.
Grown(g, h, i, w) ==
  /\ h[i] = g[i] \o w
  /\ \A j \in Ids : j # i => h[j] = g[j]
  /\ \A j \in Ids : j > i => g[j] = <<>>

\* Growing the last segment that holds anything grows the log by as much.
LEMMA ConcatGrow ==
  ASSUME NEW S, NEW g \in [Ids -> Seq(S)], NEW h \in [Ids -> Seq(S)],
         NEW i \in Ids, NEW w \in Seq(S), Grown(g, h, i, w)
  PROVE  Concat(h) = Concat(g) \o w /\ Concat(g) \in Seq(S)
<1>0. MaxSeg \in Nat /\ i \in 1..MaxSeg
  BY WalAssumption DEF Ids
<1>1. PICK f \in [0..MaxSeg -> Seq(S)] :
        /\ f[0] = <<>>
        /\ \A k \in Ids : f[k] = f[k - 1] \o g[k]
        /\ Concat(g) = f[MaxSeg]
  BY ConcatUpto, Zenon
<1>2. PICK e \in [0..MaxSeg -> Seq(S)] :
        /\ e[0] = <<>>
        /\ \A k \in Ids : e[k] = e[k - 1] \o h[k]
        /\ Concat(h) = e[MaxSeg]
  BY ConcatUpto, Zenon
<1> DEFINE P(k) == (k < i => e[k] = f[k]) /\ (k >= i => e[k] = f[k] \o w)
           T == {k \in 0..MaxSeg : P(k)}
<1> HIDE DEF T
<1>3. 0 \in T
  BY <1>0, <1>1, <1>2 DEF T
<1>4. ASSUME NEW k \in 0..MaxSeg, k < MaxSeg, k \in T PROVE k + 1 \in T
  <2>0. P(k)
    BY <1>4, Zenon DEF T
  <2>1. /\ k + 1 \in Ids /\ k + 1 \in 0..MaxSeg /\ (k + 1) - 1 = k
    BY <1>0, <1>4 DEF Ids
  <2>2. f[k + 1] = f[k] \o g[k + 1] /\ e[k + 1] = e[k] \o h[k + 1]
    BY <1>1, <1>2, <2>1, Zenon
  <2>9. f[k] \in Seq(S) /\ e[k] \in Seq(S) /\ g[k + 1] \in Seq(S) /\ h[k + 1] \in Seq(S)
    BY <2>1, Zenon
  <2>3. ASSUME k + 1 < i PROVE P(k + 1)
    <3>1. e[k] = f[k] /\ h[k + 1] = g[k + 1] /\ ~(k + 1 >= i)
      BY <1>0, <2>0, <2>1, <2>3 DEF Grown
    <3> QED  BY <2>2, <3>1, Zenon
  <2>4. ASSUME k + 1 = i PROVE P(k + 1)
    <3>1. e[k] = f[k] /\ ~(k + 1 < i)
      BY <1>0, <2>0, <2>1, <2>4
    <3>2. h[k + 1] = g[k + 1] \o w
      BY <2>4, Zenon DEF Grown
    <3>3. f[k + 1] \o w = f[k] \o h[k + 1]
      <4>1. Regroups(f[k], g[k + 1], w)
        BY <2>9, Assoc
      <4> QED  BY <2>2, <3>2, <4>1, Zenon DEF Regroups
    <3> QED  BY <2>2, <3>1, <3>3, Zenon
  <2>5. ASSUME k + 1 > i PROVE P(k + 1)
    <3>1. k >= i /\ ~(k + 1 < i) /\ k + 1 # i
      BY <1>0, <2>5
    <3>2. e[k] = f[k] \o w /\ h[k + 1] = <<>> /\ g[k + 1] = <<>>
      BY <2>0, <2>1, <2>5, <3>1, Zenon DEF Grown
    <3>3. f[k + 1] = f[k] /\ e[k + 1] = e[k]
      BY <2>9, <2>2, <3>2, JoinedEmpty
    <3> QED  BY <3>1, <3>2, <3>3, Zenon
  <2>6. P(k + 1)
    <3>1. k + 1 < i \/ k + 1 = i \/ k + 1 > i
      BY <1>0, <2>1
    <3> QED  BY <2>3, <2>4, <2>5, <3>1, Zenon
  <2> HIDE DEF P
  <2> QED  BY <2>1, <2>6, Zenon DEF T
<1>5. \A k \in 0..MaxSeg : k \in T
  BY <1>0, <1>3, <1>4, Climb, Zenon
<1>6. MaxSeg \in T /\ MaxSeg \in 0..MaxSeg
  BY <1>0, <1>5
<1>7. P(MaxSeg) /\ MaxSeg >= i
  BY <1>0, <1>6 DEF T
<1> QED  BY <1>1, <1>2, <1>6, <1>7

\* What the segments hold is in order, half frames aside.
LEMMA FramesSorted ==
  Layout
  => /\ \A i \in Ids : /\ Frames(Units(i)) \in Seq(Frame) /\ Frames(Units(i)) \in Seq(Nat)
                       /\ Sorted(Frames(Units(i)))
                       /\ \A f \in Range(Frames(Units(i))) : f <= sent
     /\ \A i, j \in Ids : i < j => Under(Frames(Units(i)), Frames(Units(j)))
<1>h. HAVE Layout
<1>0. Frame \subseteq Nat
  BY DEF Frame
<1>1. ASSUME NEW i \in Ids
      PROVE  /\ Units(i) \in Seq(Unit) /\ Framed(Units(i)) /\ Ordered(Units(i)) /\ UpTo(Units(i), sent)
             /\ Frames(Units(i)) \in Seq(Frame) /\ Frames(Units(i)) \in Seq(Nat)
             /\ DOMAIN Frames(Units(i)) = 1..(Len(Units(i)) \div 2)
             /\ \A k \in DOMAIN Frames(Units(i)) :
                  /\ 2 * k \in DOMAIN Units(i) /\ Frames(Units(i))[k] = Units(i)[2 * k][1]
                  /\ Units(i)[2 * k][2] = 2
  <2>1. /\ Units(i) \in Seq(Unit) /\ Framed(Units(i)) /\ Ordered(Units(i)) /\ UpTo(Units(i), sent)
    BY <1>h DEF Layout, Tidy
  <2>2. /\ Frames(Units(i)) \in Seq(Frame)
        /\ DOMAIN Frames(Units(i)) = 1..(Len(Units(i)) \div 2)
        /\ \A k \in 1..(Len(Units(i)) \div 2) :
             2 * k \in DOMAIN Units(i) /\ Frames(Units(i))[k] = Units(i)[2 * k][1]
    BY <2>1, FramesOf
  <2>3. Frames(Units(i)) \in Seq(Nat)
    <3> DEFINE F == Frames(Units(i))
    <3> HIDE DEF F
    <3>1. F \in Seq(Frame)
      BY <2>2 DEF F
    <3>a. F \in [1..Len(F) -> Frame] /\ Len(F) \in Nat
      BY <3>1
    <3>2. F \in [1..Len(F) -> Nat] /\ Len(F) \in Nat
      BY <1>0, <3>a, Zenon
    <3>3. F \in Seq(Nat)
      BY <3>2
    <3> QED  BY <3>3 DEF F
  <2>4. \A k \in 1..(Len(Units(i)) \div 2) : Units(i)[2 * k][2] = 2
    BY <2>1 DEF Framed
  <2> QED  BY <2>1, <2>2, <2>3, <2>4
<1>2. ASSUME NEW i \in Ids PROVE Sorted(Frames(Units(i)))
  <2> DEFINE u == Units(i)
             F == Frames(Units(i))
  <2>0. /\ \A k \in DOMAIN F : 2 * k \in DOMAIN u /\ F[k] = u[2 * k][1] /\ u[2 * k][2] = 2 /\ k \in Nat
        /\ \A a, b \in DOMAIN u : a < b => Lex(u[a], u[b])
    BY <1>1 DEF Ordered
  <2> HIDE DEF u, F
  <2>1. ASSUME NEW a \in DOMAIN F, NEW b \in DOMAIN F, a < b PROVE F[a] < F[b]
    <3>1. 2 * a < 2 * b
      BY <2>0, <2>1
    <3>2. Lex(u[2 * a], u[2 * b])
      BY <2>0, <3>1
    <3> QED  BY <2>0, <3>2 DEF Lex
  <2>2. Sorted(F)
    BY <2>1 DEF Sorted
  <2> QED  BY <2>2 DEF F
<1>3. ASSUME NEW i \in Ids, NEW f \in Range(Frames(Units(i))) PROVE f <= sent
  <2>1. PICK k \in DOMAIN Frames(Units(i)) : f = Frames(Units(i))[k]
    BY DEF Range
  <2> QED  BY <1>1, <2>1, Zenon DEF UpTo
<1>4. ASSUME NEW i \in Ids, NEW j \in Ids, i < j
      PROVE  Under(Frames(Units(i)), Frames(Units(j)))
  <2>1. Below(Units(i), Units(j))
    BY <1>h, <1>4 DEF Layout
  <2>2. ASSUME NEW a \in DOMAIN Frames(Units(i)), NEW b \in DOMAIN Frames(Units(j))
        PROVE  Frames(Units(i))[a] < Frames(Units(j))[b]
    BY <1>1, <2>1, Zenon DEF Below
  <2> QED  BY <2>2, Zenon DEF Under
<1> QED  BY <1>1, <1>2, <1>3, <1>4

\* The log is in the order the frames were sent, and holds what the segments hold.
LEMMA LogFacts ==
  Layout
  => /\ LogNow \in Seq(Nat) /\ Sorted(LogNow)
     /\ Range(LogNow) = UNION {Range(Frames(Units(i))) : i \in Ids}
     /\ \A f \in Range(LogNow) : f <= sent
<1>h. HAVE Layout
<1> DEFINE g == [i \in Ids |-> Frames(Units(i))]
<1>1. /\ \A i \in Ids : Frames(Units(i)) \in Seq(Nat) /\ Sorted(Frames(Units(i)))
                        /\ \A f \in Range(Frames(Units(i))) : f <= sent
      /\ \A i, j \in Ids : i < j => Under(Frames(Units(i)), Frames(Units(j)))
  BY <1>h, FramesSorted
<1>2. /\ g \in [Ids -> Seq(Nat)]
      /\ \A i \in Ids : g[i] = Frames(Units(i))
  BY <1>1
<1>3. LogNow = Concat(g)
  BY DEF LogNow
<1> HIDE DEF g
<1>4. /\ \A i \in Ids : Sorted(g[i])
      /\ \A i, j \in Ids : i < j => Under(g[i], g[j])
  BY <1>1, <1>2
<1>5. /\ Concat(g) \in Seq(Nat) /\ Sorted(Concat(g))
      /\ Range(Concat(g)) = UNION {Range(g[i]) : i \in Ids}
  BY <1>2, <1>4, ConcatSorted
<1>6. {Range(g[i]) : i \in Ids} = {Range(Frames(Units(i))) : i \in Ids}
  BY <1>2
<1>7. Range(LogNow) = UNION {Range(Frames(Units(i))) : i \in Ids}
  BY <1>3, <1>5, <1>6, Zenon
<1> QED  BY <1>1, <1>3, <1>5, <1>7, Zenon

\* The log grows by what the active segment grows by.
LEMMA LogGrows ==
  ASSUME NEW a \in Ids, NEW w \in Seq(Frame)
  PROVE  (/\ Layout /\ \A i \in Ids : i > a => Units(i) = <<>>
          /\ \A i \in Ids : Frames(Units(i)') = IF i = a THEN Frames(Units(i)) \o w
                                                ELSE Frames(Units(i)))
         => LogNow' = LogNow \o w /\ LogNow \in Seq(Frame)
<1>h. HAVE /\ Layout /\ \A i \in Ids : i > a => Units(i) = <<>>
           /\ \A i \in Ids : Frames(Units(i)') = IF i = a THEN Frames(Units(i)) \o w
                                                 ELSE Frames(Units(i))
<1> DEFINE g == [i \in Ids |-> Frames(Units(i))]
           h == [i \in Ids |-> Frames(Units(i)')]
<1>0. \A i \in Ids : Frames(Units(i)) \in Seq(Frame)
  BY <1>h, FramesSorted
<1>a. Frames(Units(a)) \o w \in Seq(Frame)
  BY <1>0, Joined
<1>1. \A i \in Ids : Frames(Units(i)') \in Seq(Frame)
  BY <1>h, <1>0, <1>a, Zenon
<1>2. g \in [Ids -> Seq(Frame)] /\ h \in [Ids -> Seq(Frame)]
      /\ \A i \in Ids : g[i] = Frames(Units(i)) /\ h[i] = Frames(Units(i)')
  BY <1>0, <1>1
<1>3. LogNow = Concat(g) /\ LogNow' = Concat(h)
  BY DEF LogNow, Concat, Ids, Frames, Whole
<1> HIDE DEF g, h
<1>4. ASSUME NEW j \in Ids, j > a PROVE g[j] = <<>>
  <2>1. Units(j) = <<>> /\ Framed(Units(j)) /\ Units(j) \in Seq(Unit)
    BY <1>h, <1>4 DEF Layout, Tidy
  <2>2. Len(Frames(Units(j))) = 0 \div 2 /\ Frames(Units(j)) \in Seq(Frame)
    BY <2>1, FramesOf, Zenon
  <2>3. Len(Frames(Units(j))) = 0
    BY <2>2
  <2> QED  BY <1>2, <2>2, <2>3
<1>5. Grown(g, h, a, w)
  <2>1. h[a] = g[a] \o w
    BY <1>h, <1>2, Zenon
  <2>2. \A j \in Ids : j # a => h[j] = g[j]
    BY <1>h, <1>2, Zenon
  <2> QED  BY <1>4, <2>1, <2>2, Zenon DEF Grown
<1>6. Concat(h) = Concat(g) \o w /\ Concat(g) \in Seq(Frame)
  BY <1>2, <1>5, ConcatGrow, Zenon
<1> QED  BY <1>3, <1>6, Zenon

\* The log is the same when the segments hold the same frames.
LEMMA LogKept ==
  (\A i \in Ids : Frames(Units(i)') = Frames(Units(i)))
  => LogNow' = LogNow
<1>h. HAVE (\A i \in Ids : Frames(Units(i)') = Frames(Units(i)))
<1> DEFINE g == [i \in Ids |-> Frames(Units(i))]
           h == [i \in Ids |-> Frames(Units(i)')]
<1>1. g = h
  BY <1>h, Zenon
<1>2. LogNow = Concat(g) /\ LogNow' = Concat(h)
  BY DEF LogNow, Concat, Ids, Frames, Whole
<1> QED  BY <1>1, <1>2, Zenon

\* What an fsync covered, told by position.
OnDisk(i) == {seg[i][2 * k][1] : k \in 1..(dur[i] \div 2)}

\* The durable frames are the ones on the disk, and they are in the log.
DurableToldBy ==
  /\ Durable = UNION {OnDisk(i) : i \in present}
  /\ Durable \subseteq Range(LogNow)

\* The layout tells which frames are durable.
LEMMA DurableFacts == Disk /\ Layout => DurableToldBy
<1> SUFFICES ASSUME Disk, Layout PROVE DurableToldBy
  OBVIOUS
<1>1. ASSUME NEW i \in Ids
      PROVE  /\ Range(Frames(Take(seg[i], dur[i]))) = OnDisk(i)
             /\ OnDisk(i) \subseteq Range(Frames(Units(i)))
  <2>1. /\ seg[i] \in Seq(Unit) /\ dur[i] \in Nat /\ dur[i] <= Len(seg[i]) /\ buf \in Seq(Unit)
        /\ Units(i) \in Seq(Unit) /\ Tidy(Units(i)) /\ Framed(Units(i)) /\ Len(seg[i]) \in Nat
    BY DEF Disk, Layout, Tidy
  <2>2. Begins(Units(i), seg[i])
    <3>1. Begins(seg[i] \o buf, seg[i]) /\ Begins(seg[i], seg[i])
      BY <2>1, Concatenated DEF Begins
    <3> QED  BY <3>1 DEF Units
  <2> DEFINE u == Units(i)
             t == Take(seg[i], dur[i])
             d == dur[i]
  <2>3. dur[i] \in 0..Len(seg[i])
    BY <2>1
  <2>4. t \in Seq(Unit) /\ Len(t) = d /\ \A a \in 1..d : t[a] = seg[i][a]
    BY <2>1, <2>3, TakeDrop, Zenon
  <2>5. /\ Len(u) \in Nat /\ d <= Len(u) /\ d \in Nat
        /\ \A a \in 1..d : u[a] = seg[i][a]
    BY <2>1, <2>2 DEF Begins
  <2> HIDE DEF t, u, d
  <2>6. Begins(u, t)
    BY <2>4, <2>5 DEF Begins
  <2>7. Tidy(u) /\ u \in Seq(Unit)
    BY <2>1 DEF u
  <2>8. Tidy(t)
    <3>1. Len(t) \in 0..Len(u) /\ t = Take(u, Len(t))
      BY <2>4, <2>6, <2>7, BeginsTake
    <3> QED  BY <2>7, <3>1, TidyTake
  <2>9. /\ DOMAIN Frames(t) = 1..(d \div 2)
        /\ \A k \in 1..(d \div 2) : 2 * k \in DOMAIN t /\ Frames(t)[k] = t[2 * k][1]
    BY <2>4, <2>8, FramesOf DEF Tidy
  <2>10. /\ DOMAIN Frames(u) = 1..(Len(u) \div 2)
         /\ \A k \in 1..(Len(u) \div 2) : Frames(u)[k] = u[2 * k][1]
    BY <2>7, FramesOf DEF Tidy
  <2>11. DOMAIN t = 1..d
    BY <2>4
  <2>12. \A k \in 1..(d \div 2) : k \in 1..(Len(u) \div 2)
    BY <2>5
  <2>13. \A k \in 1..(d \div 2) : Frames(t)[k] = seg[i][2 * k][1] /\ Frames(u)[k] = seg[i][2 * k][1]
    BY <2>4, <2>5, <2>9, <2>10, <2>11, <2>12, Zenon
  <2>14. OnDisk(i) = {seg[i][2 * k][1] : k \in 1..(d \div 2)}
    BY DEF OnDisk, d
  <2>15. Range(Frames(t)) = {Frames(t)[k] : k \in 1..(d \div 2)}
    BY <2>9, Zenon DEF Range
  <2>16. Range(Frames(t)) = OnDisk(i)
    BY <2>13, <2>14, <2>15
  <2>17. OnDisk(i) \subseteq Range(Frames(u))
    BY <2>10, <2>12, <2>13, <2>14 DEF Range
  <2> QED  BY <2>16, <2>17 DEF t, u
<1>2. present \subseteq Ids
  BY DEF Disk
<1>3. Durable = UNION {OnDisk(i) : i \in present}
  <2>1. {Range(Frames(Take(seg[i], dur[i]))) : i \in present} = {OnDisk(i) : i \in present}
    BY <1>1, <1>2
  <2> QED  BY <2>1, Zenon DEF Durable
<1>4. Range(LogNow) = UNION {Range(Frames(Units(i))) : i \in Ids}
  BY LogFacts
<1>5. Durable \subseteq Range(LogNow)
  BY <1>1, <1>2, <1>3, <1>4
<1> QED  BY <1>3, <1>5, Zenon DEF DurableToldBy

\* No frame leaves the disk, so none leaves what is durable.
LEMMA DurableKept ==
  Disk /\ Layout /\ Disk' /\ Layout' /\ Safe
  => Durable \subseteq Durable' /\ Durable' \subseteq Range(LogNow')
<1>h. HAVE Disk /\ Layout /\ Disk' /\ Layout' /\ Safe
<1>1. DurableToldBy
  BY <1>h, DurableFacts
<1>2. DurableToldBy'
  BY <1>h, DurableFacts, PTL
<1>3. ASSUME NEW i \in present PROVE i \in present' /\ OnDisk(i) \subseteq OnDisk(i)'
  <2>1. i \in Ids
    BY <1>h DEF Disk
  <2>2. /\ i \in present' /\ dur[i] \div 2 <= dur'[i] \div 2
        /\ \A a \in 1..(2 * (dur[i] \div 2)) : seg'[i][a] = seg[i][a]
    BY <1>h, <2>1 DEF Safe
  <2>3. dur[i] \div 2 \in Nat /\ dur'[i] \div 2 \in Nat
    <3>1. dur[i] \in Nat /\ dur'[i] \in Nat
      BY <1>h, <2>1 DEF Disk
    <3> QED  BY <3>1
  <2>4. \A k \in 1..(dur[i] \div 2) : k \in 1..(dur'[i] \div 2) /\ 2 * k \in 1..(2 * (dur[i] \div 2))
    <3>1. \A x, y \in Nat : x <= y => \A k \in 1..x : k \in 1..y /\ 2 * k \in 1..(2 * x)
      OBVIOUS
    <3> QED  BY <2>2, <2>3, <3>1
  <2> QED  BY <2>2, <2>4 DEF OnDisk
<1>4. Durable \subseteq Durable'
  <2> SUFFICES ASSUME NEW f \in Durable PROVE f \in Durable'
    OBVIOUS
  <2>1. PICK i \in present : f \in OnDisk(i)
    BY <1>1 DEF DurableToldBy
  <2>2. i \in present' /\ f \in OnDisk(i)'
    BY <1>3, <2>1
  <2> QED  BY <1>2, <2>2 DEF DurableToldBy
<1> QED  BY <1>2, <1>4 DEF DurableToldBy

\* Range and IsInjective are the same operators in both modules.
LEMMA AbstractRange ==
  ASSUME NEW s
  PROVE  Abstract!Range(s) = Range(s) /\ (Abstract!IsInjective(s) <=> IsInjective(s))
  BY DEF Abstract!Range, Range, Abstract!IsInjective, IsInjective

\* Sorted is enough for the two things the abstract log asks of an order.
LEMMA SortedFacts ==
  ASSUME NEW s \in Seq(Nat), Sorted(s)
  PROVE  /\ IsInjective(s)
         /\ Abstract!Order(s) = {p \in Range(s) \X Range(s) : p[1] < p[2]}
<1>1. DOMAIN s = 1..Len(s) /\ \A a \in DOMAIN s : s[a] \in Nat /\ a \in Nat
  OBVIOUS
<1>2. \A a, b \in DOMAIN s : s[a] < s[b] <=> a < b
  BY <1>1 DEF Sorted
<1>3. IsInjective(s)
  BY <1>1, <1>2 DEF IsInjective
<1>4. ASSUME NEW p \in Abstract!Order(s) PROVE p \in Range(s) \X Range(s) /\ p[1] < p[2]
  <2>1. PICK j \in DOMAIN s : p \in {<<s[i], s[j]>> : i \in {k \in DOMAIN s : k < j}}
    BY DEF Abstract!Order
  <2>2. PICK i \in DOMAIN s : i < j /\ p = <<s[i], s[j]>>
    BY <2>1
  <2> QED  BY <1>2, <2>2 DEF Range
<1>5. ASSUME NEW x \in Range(s), NEW y \in Range(s), x < y
      PROVE  <<x, y>> \in Abstract!Order(s)
  <2>1. PICK i \in DOMAIN s, j \in DOMAIN s : x = s[i] /\ y = s[j]
    BY DEF Range
  <2>2. i < j
    BY <1>2, <1>5, <2>1
  <2> QED  BY <2>1, <2>2 DEF Abstract!Order
<1> QED  BY <1>3, <1>4, <1>5

\* The log at the end of a step, told like the one at its start.
LogToldBy ==
  /\ LogNow \in Seq(Nat) /\ Sorted(LogNow)
  /\ Range(LogNow) = UNION {Range(Frames(Units(i))) : i \in Ids}
  /\ \A f \in Range(LogNow) : f <= sent

\* LogFacts as a formula that can be primed.
LEMMA LogTold == Layout => LogToldBy
  BY LogFacts DEF LogToldBy

\* A beginning of a segment holds a beginning of its frames.
LEMMA ShorterFrames ==
  ASSUME NEW u, NEW v
  PROVE  Tidy(u) /\ Tidy(v) /\ Begins(u, v)
         => /\ Range(Frames(v)) \subseteq Range(Frames(u))
            /\ Len(v) \div 2 = Len(u) \div 2 => Frames(v) = Frames(u)
<1>h. HAVE Tidy(u) /\ Tidy(v) /\ Begins(u, v)
<1>1. u \in Seq(Unit) /\ v \in Seq(Unit) /\ Framed(u) /\ Framed(v) /\ Len(v) <= Len(u)
  BY <1>h DEF Tidy, Begins
<1>2. /\ Frames(u) \in Seq(Frame) /\ DOMAIN Frames(u) = 1..(Len(u) \div 2)
      /\ Len(Frames(u)) = Len(u) \div 2
      /\ \A k \in 1..(Len(u) \div 2) : 2 * k \in DOMAIN u /\ Frames(u)[k] = u[2 * k][1]
  BY <1>1, FramesOf
<1>3. /\ Frames(v) \in Seq(Frame) /\ DOMAIN Frames(v) = 1..(Len(v) \div 2)
      /\ Len(Frames(v)) = Len(v) \div 2
      /\ \A k \in 1..(Len(v) \div 2) : 2 * k \in DOMAIN v /\ Frames(v)[k] = v[2 * k][1]
  BY <1>1, FramesOf
<1>4. \A a \in DOMAIN v : v[a] = u[a]
  BY <1>h, <1>1 DEF Begins
<1>5. \A k \in 1..(Len(v) \div 2) : k \in 1..(Len(u) \div 2)
  <2>1. Len(u) \in Nat /\ Len(v) \in Nat
    BY <1>1
  <2> QED  BY <1>1, <2>1
<1>6. \A k \in 1..(Len(v) \div 2) : Frames(v)[k] = Frames(u)[k]
  BY <1>2, <1>3, <1>4, <1>5, Zenon
<1>7. Range(Frames(v)) \subseteq Range(Frames(u))
  <2> SUFFICES ASSUME NEW f \in Range(Frames(v)) PROVE f \in Range(Frames(u))
    OBVIOUS
  <2>1. PICK k \in 1..(Len(v) \div 2) : f = Frames(v)[k]
    BY <1>3 DEF Range
  <2>2. k \in DOMAIN Frames(u) /\ f = Frames(u)[k]
    BY <1>2, <1>5, <1>6, <2>1
  <2> QED  BY <2>2 DEF Range
<1>8. ASSUME Len(v) \div 2 = Len(u) \div 2 PROVE Frames(v) = Frames(u)
  BY <1>2, <1>3, <1>6, <1>8, SameSeq
<1> QED  BY <1>7, <1>8

\* The four forms of a step are steps of the abstract log.
LEMMA WriteStep ==
  ASSUME NEW w \in Seq(Frame)
  PROVE  (/\ Layout /\ Layout' /\ Opened /\ Opened' /\ LogNow \in Seq(Frame)
          /\ LogNow' = LogNow \o w /\ acked \subseteq acked'
          /\ acked' \ acked \subseteq Range(w) /\ (\A f \in Range(w) : f > sent /\ f \in Nat)
          /\ sent \in Nat)
         => Abstract!Write(LogNow, LogNow')
<1>h. HAVE /\ Layout /\ Layout' /\ Opened /\ Opened' /\ LogNow \in Seq(Frame)
           /\ LogNow' = LogNow \o w /\ acked \subseteq acked'
           /\ acked' \ acked \subseteq Range(w) /\ (\A f \in Range(w) : f > sent /\ f \in Nat)
           /\ sent \in Nat
<1> DEFINE l == LogNow
           m == LogNow'
<1>1. LogToldBy /\ LogToldBy'
  BY <1>h, LogTold, PTL
<1>2. m \in Seq(Nat) /\ Sorted(m) /\ l \in Seq(Nat) /\ \A f \in Range(l) : f <= sent /\ f \in Nat
  <2>1. LogNow' \in Seq(Nat) /\ Sorted(LogNow') /\ LogNow \in Seq(Nat)
        /\ \A f \in Range(LogNow) : f <= sent
    BY <1>1 DEF LogToldBy
  <2>2. Range(LogNow) \subseteq Nat
    BY <2>1 DEF Range
  <2> QED  BY <2>1, <2>2
<1>3. m = l \o w /\ l \in Seq(Frame)
  BY <1>h
<1> HIDE DEF l, m
<1>4. /\ Len(m) = Len(l) + Len(w) /\ Len(l) \in Nat /\ Len(w) \in Nat /\ m \in Seq(Frame)
      /\ \A a \in 1..Len(l) + Len(w) : m[a] = IF a <= Len(l) THEN l[a] ELSE w[a - Len(l)]
  BY <1>3, Joined
<1>5. Len(l) <= Len(m) /\ \A a \in 1..Len(l) : m[a] = l[a]
  BY <1>4
<1>6. l = SubSeq(m, 1, Len(l))
  <2>1. Len(l) \in 0..Len(m)
    BY <1>4, <1>5
  <2>2. /\ Take(m, Len(l)) \in Seq(Frame) /\ Len(Take(m, Len(l))) = Len(l)
        /\ \A a \in 1..Len(l) : Take(m, Len(l))[a] = m[a]
    BY <1>4, <2>1, TakeDrop, Zenon
  <2>3. l = Take(m, Len(l))
    BY <1>3, <1>5, <2>2, SameSeq
  <2> QED  BY <2>3 DEF Take
<1>7. IsInjective(m)
  BY <1>2, SortedFacts
<1>8. Range(m) = Range(l) \cup Range(w)
  BY <1>3, RangeJoined
<1>9. acked' \ acked \subseteq Range(m) \ Range(l)
  <2>1. ASSUME NEW f \in Range(w) PROVE f \notin Range(l)
    BY <1>h, <1>2
  <2> QED  BY <1>h, <1>8, <2>1
<1>10. Abstract!Write(l, m)
  BY <1>h, <1>5, <1>6, <1>7, <1>9, AbstractRange DEF Abstract!Write
<1> QED  BY <1>10 DEF l, m

\* An end of the process is a Stop of the log.
LEMMA StopStep ==
  Layout /\ Layout' /\ ~Opened' /\ Shorter /\ acked' = acked
  => Abstract!Stop(LogNow, LogNow')
<1>h. HAVE Layout /\ Layout' /\ ~Opened' /\ Shorter /\ acked' = acked
<1>1. LogToldBy /\ LogToldBy'
  BY <1>h, LogTold, PTL
<1>2. ASSUME NEW i \in Ids PROVE Range(Frames(Units(i)')) \subseteq Range(Frames(Units(i)))
  <2>1. Tidy(Units(i)) /\ Tidy(Units(i)') /\ Begins(Units(i), Units(i)')
    BY <1>h DEF Layout, Shorter
  <2> QED  BY <2>1, ShorterFrames
<1>3. Range(LogNow') \subseteq Range(LogNow)
  <2>1. /\ Range(LogNow) = UNION {Range(Frames(Units(i))) : i \in Ids}
        /\ Range(LogNow') = UNION {Range(Frames(Units(i)')) : i \in Ids}
    BY <1>1, Zenon DEF LogToldBy, Range, Frames, Whole, Ids
  <2> QED  BY <1>2, <2>1
<1>4. Abstract!Order(LogNow') \subseteq Abstract!Order(LogNow)
  <2>1. /\ LogNow \in Seq(Nat) /\ Sorted(LogNow) /\ LogNow' \in Seq(Nat) /\ Sorted(LogNow')
    BY <1>1 DEF LogToldBy, Sorted
  <2>2. /\ Abstract!Order(LogNow) = {p \in Range(LogNow) \X Range(LogNow) : p[1] < p[2]}
        /\ Abstract!Order(LogNow') = {p \in Range(LogNow') \X Range(LogNow') : p[1] < p[2]}
    BY <2>1, SortedFacts
  <2> QED  BY <1>3, <2>2
<1> QED  BY <1>h, <1>3, <1>4, AbstractRange DEF Abstract!Stop

\* An opening is a Start of the log: recovery removes no whole frame.
LEMMA StartStep ==
  Layout /\ Layout' /\ ~Opened /\ Opened' /\ Cleaned /\ acked' = acked
  => Abstract!Start(LogNow, LogNow')
<1>h. HAVE Layout /\ Layout' /\ ~Opened /\ Opened' /\ Cleaned /\ acked' = acked
<1>1. ASSUME NEW i \in Ids PROVE Frames(Units(i)') = Frames(Units(i))
  <2>1. Tidy(Units(i)) /\ Tidy(Units(i)') /\ Begins(Units(i), Units(i)')
        /\ Len(Units(i)') \div 2 = Len(Units(i)) \div 2
    BY <1>h DEF Layout, Cleaned
  <2> QED  BY <2>1, ShorterFrames
<1>2. LogNow' = LogNow
  BY <1>1, LogKept
<1> QED  BY <1>h, <1>2 DEF Abstract!Start

\* Every step of the writer is a step of the log, or leaves it alone.
LEMMA AbstractStep ==
  WalInv /\ WalInv' /\ Next
  => Abstract!Next
<1>h. HAVE WalInv /\ WalInv' /\ Next
<1>0. Disk /\ Layout /\ Disk' /\ Layout' /\ sent \in Nat /\ sent \in 0..MaxFrame
  BY <1>h DEF WalInv, Counted
<1>1. Safe /\ (Quiet \/ Stops \/ Starts \/ Appends)
  BY <1>h, StepForm
<1>2. Durable \subseteq Durable' /\ Durable' \subseteq Range(LogNow')
  BY <1>0, <1>1, DurableKept
<1>3. Abstract!Write(LogNow, LogNow') \/ Abstract!Start(LogNow, LogNow') \/ Abstract!Stop(LogNow, LogNow')
  <2>1. CASE Quiet
    <3>1. LogNow' = LogNow
      BY <2>1, LogKept DEF Quiet, Same
    <3>2. LogToldBy
      BY <1>0, LogTold
    <3>3. LogNow \in Seq(Nat) /\ IsInjective(LogNow)
      BY <3>2, SortedFacts DEF LogToldBy
    <3>4. Len(LogNow) <= Len(LogNow) /\ LogNow = SubSeq(LogNow, 1, Len(LogNow))
      <4> DEFINE l == LogNow
      <4> HIDE DEF l
      <4>1. l \in Seq(Nat) /\ Len(l) \in Nat /\ Len(l) <= Len(l) /\ Len(l) \in 0..Len(l)
        BY <3>3 DEF l
      <4>2. /\ Take(l, Len(l)) \in Seq(Nat) /\ Len(Take(l, Len(l))) = Len(l)
            /\ \A a \in 1..Len(l) : Take(l, Len(l))[a] = l[a]
        BY <4>1, TakeDrop, Zenon
      <4>3. l = Take(l, Len(l))
        BY <4>1, <4>2, SameSeq
      <4> QED  BY <4>1, <4>3 DEF l, Take
    <3> QED  BY <2>1, <3>1, <3>3, <3>4, AbstractRange DEF Abstract!Write, Quiet
  <2>2. CASE Stops
    BY <1>0, <2>2, StopStep DEF Stops
  <2>3. CASE Starts
    BY <1>0, <2>3, StartStep DEF Starts
  <2>4. CASE Appends
    <3>1. PICK n \in 1..2 :
           /\ sent + n <= MaxFrame /\ sent' = sent + n
           /\ \E k \in 0..(2 * n) :
                /\ Grew(Take(Encoded(n), k))
                /\ \/ acked' = acked
                   \/ k = 2 * n /\ acked' = acked \cup ((sent + 1)..(sent + n))
      BY <2>4 DEF Appends
    <3>2. PICK k \in 0..(2 * n) :
                /\ Grew(Take(Encoded(n), k))
                /\ \/ acked' = acked
                   \/ k = 2 * n /\ acked' = acked \cup ((sent + 1)..(sent + n))
      BY <3>1
    <3> DEFINE u == Encoded(n)
               w == Take(u, k)
    <3>3. /\ Frames(w) \in Seq(Frame)
          /\ \A i \in Ids : /\ Frames(Units(i)') = IF i = id THEN Frames(Units(i)) \o Frames(w)
                                                         ELSE Frames(Units(i))
                            /\ i > id => Units(i) = <<>>
      BY <1>0, <2>4, <3>1, <3>2, LayoutGrow, Zenon DEF Appends
    <3>4. id \in Ids
      BY <1>0, <2>4, ActiveFacts DEF Appends
    <3>5. /\ Tidy(u) /\ u \in Seq(Unit) /\ Len(u) = 2 * n
          /\ Range(Frames(u)) = (sent + 1)..(sent + n)
      BY <1>0, <3>1, EncodedFacts, Zenon DEF Tidy
    <3> HIDE DEF u
    <3>6. Tidy(w) /\ Begins(u, w)
      <4>1. k \in 0..Len(u) /\ k <= Len(u)
        BY <3>5
      <4>2. Tidy(w) /\ Len(w) = k /\ \A a \in 1..k : w[a] = u[a]
        BY <3>5, <4>1, TidyTake, TakeDrop, Zenon
      <4> QED  BY <4>1, <4>2 DEF Begins
    <3> HIDE DEF w
    <3>7. Range(Frames(w)) \subseteq (sent + 1)..(sent + n)
      BY <3>5, <3>6, ShorterFrames, Zenon
    <3>8. \A f \in Range(Frames(w)) : f > sent /\ f \in Nat
      <4>1. \A f \in (sent + 1)..(sent + n) : f > sent /\ f \in Nat
        BY <1>0
      <4> QED  BY <3>7, <4>1, Zenon
    <3>9. acked \subseteq acked' /\ acked' \ acked \subseteq Range(Frames(w))
      <4>1. CASE acked' = acked
        BY <4>1
      <4>2. CASE k = 2 * n /\ acked' = acked \cup ((sent + 1)..(sent + n))
        <5>1. w = u
          BY <3>5, <4>2, TakeAll DEF w
        <5> QED  BY <3>5, <4>2, <5>1
      <4> QED  BY <3>2, <4>1, <4>2
    <3>10. LogNow' = LogNow \o Frames(w) /\ LogNow \in Seq(Frame)
      BY <1>0, <3>3, <3>4, LogGrows
    <3> QED  BY <1>0, <2>4, <3>3, <3>8, <3>9, <3>10, WriteStep, Zenon DEF Appends
  <2> QED  BY <1>1, <2>1, <2>2, <2>3, <2>4
<1> QED  BY <1>2, <1>3, AbstractRange DEF Abstract!Next

\* The empty directory is the empty log.
LEMMA AbstractInit == Init => Abstract!Init
<1> SUFFICES ASSUME Init PROVE Abstract!Init
  OBVIOUS
<1>1. WalInv
  BY WalInit
<1>2. LogToldBy
  BY <1>1, LogTold DEF WalInv
<1>3. \A i \in Ids : Units(i) = <<>> /\ Framed(<<>>)
  <2>1. \A i \in Ids : seg[i] = <<>> /\ i # id
    BY DEF Init, Ids
  <2> QED  BY <2>1 DEF Units, Framed
<1>4. \A i \in Ids : Range(Frames(Units(i))) = {}
  <2>0. <<>> \in Seq(Unit) /\ Len(<<>>) = 0 /\ 1..(0 \div 2) = {}
    OBVIOUS
  <2>1. Framed(<<>>) => DOMAIN Frames(<<>>) = 1..(Len(<<>>) \div 2)
    BY <2>0, FramesOf, Zenon
  <2>2. Framed(<<>>) => Range(Frames(<<>>)) = {}
    BY <2>0, <2>1 DEF Range
  <2> QED  BY <1>3, <2>2
<1>5. LogNow = <<>>
  <2>1. LogNow \in Seq(Nat) /\ Range(LogNow) = {}
    BY <1>2, <1>4 DEF LogToldBy
  <2> DEFINE l == LogNow
  <2> HIDE DEF l
  <2>2. l \in Seq(Nat) /\ DOMAIN l = {}
    BY <2>1 DEF l, Range
  <2>3. Len(l) = 0
    BY <2>2
  <2>4. l = <<>>
    BY <2>2, <2>3
  <2> QED  BY <2>4 DEF l
<1>6. Durable = {} /\ acked = {} /\ Opened = FALSE
  BY DEF Init, Durable, Opened
<1> QED  BY <1>5, <1>6 DEF Abstract!Init

\* The writer implements the log of module Log: frames only ever go to its end, in
\* the order append got them; an end of the process takes away at most frames
\* that are not durable, never one from the middle; a frame that is durable
\* stays; and recovery brings back all that is left.
THEOREM WriterImplementsLog == Spec => ImplementsLog
<1>1. WalInv /\ WalInv' /\ [Next]_vars => [Abstract!Next]_<<Opened, LogNow, Durable, acked>>
  <2> SUFFICES ASSUME WalInv, WalInv', [Next]_vars
               PROVE  [Abstract!Next]_<<Opened, LogNow, Durable, acked>>
    OBVIOUS
  <2>1. CASE Next
    BY <2>1, AbstractStep
  <2>2. CASE UNCHANGED vars
    <3>1. /\ UNCHANGED <<present, seg, dur, id, buf, bytes, synced, torn, stop>>
          /\ UNCHANGED <<pc, cap, retry, sent, acked, mishaps>>
      BY <2>2 DEF vars, disk, active, thread, hist
    <3>2. \A i \in Ids : Frames(Units(i)') = Frames(Units(i))
      BY <3>1 DEF Units
    <3>3. LogNow' = LogNow
      BY <3>2, LogKept
    <3>4. Durable' = Durable
      BY <3>1 DEF Durable, Range, Frames, Whole, Take
    <3> QED  BY <3>1, <3>3, <3>4 DEF Opened
  <2> QED  BY <2>1, <2>2
<1> QED  BY <1>1, AbstractInit, LogLaidOut, PTL DEF Spec, ImplementsLog, Abstract!Spec
=============================================================================
