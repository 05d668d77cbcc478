---------------------------- MODULE WalWriterLemmas ----------------------------
(***************************************************************************)
(* What the proofs about the WAL writer rest on: sequences of half frames, *)
(* the inductive invariant WalInv, and its preservation by append, by a    *)
(* roll and by the steps that touch no file.                               *)
(*                                                                         *)
(* The invariant speaks of Units(i), a segment's file with the buffer      *)
(* after it for the active one: a flush moves units from one to the other  *)
(* and changes neither, so most steps are one of few changes of Units.     *)
(***************************************************************************)
EXTENDS WalWriter, TLAPS

\* Two sequences with the same elements are the same.
LEMMA SameSeq ==
  ASSUME NEW S, NEW s \in Seq(S), NEW t \in Seq(S), Len(s) = Len(t),
         \A i \in 1..Len(s) : s[i] = t[i]
  PROVE  s = t
  OBVIOUS

\* One sequence after another.
LEMMA Joined ==
  ASSUME NEW S, NEW s \in Seq(S), NEW t \in Seq(S)
  PROVE  /\ s \o t \in Seq(S) /\ Len(s \o t) = Len(s) + Len(t)
         /\ \A i \in 1..Len(s) + Len(t) :
              (s \o t)[i] = IF i <= Len(s) THEN s[i] ELSE t[i - Len(s)]
  OBVIOUS

\* An empty sequence adds nothing.
LEMMA JoinedEmpty ==
  ASSUME NEW S, NEW s \in Seq(S)
  PROVE  s \o <<>> = s /\ <<>> \o s = s
  OBVIOUS

\* Take and Drop cut a sequence in two.
LEMMA TakeDrop ==
  ASSUME NEW S, NEW u \in Seq(S), NEW k \in 0..Len(u)
  PROVE  /\ Take(u, k) \in Seq(S) /\ Len(Take(u, k)) = k
         /\ \A a \in 1..k : Take(u, k)[a] = u[a]
         /\ Drop(u, k) \in Seq(S) /\ Len(Drop(u, k)) = Len(u) - k
         /\ Take(u, k) \o Drop(u, k) = u
<1>1. /\ Take(u, k) \in Seq(S) /\ Len(Take(u, k)) = k
      /\ \A a \in 1..k : Take(u, k)[a] = u[a]
  BY DEF Take
<1>2. Drop(u, k) \in Seq(S) /\ Len(Drop(u, k)) = Len(u) - k
      /\ \A a \in 1..(Len(u) - k) : Drop(u, k)[a] = u[k + a]
  BY DEF Drop
<1>3. Take(u, k) \o Drop(u, k) = u
  <2> DEFINE w == Take(u, k) \o Drop(u, k)
  <2>1. w \in Seq(S) /\ Len(w) = Len(u)
    BY <1>1, <1>2
  <2>2. ASSUME NEW a \in 1..Len(u) PROVE w[a] = u[a]
    <3>1. w[a] = IF a <= k THEN Take(u, k)[a] ELSE Drop(u, k)[a - k]
      BY <1>1, <1>2, Joined
    <3> QED  BY <1>1, <1>2, <3>1
  <2> QED  BY <2>1, <2>2, SameSeq, Zenon
<1> QED  BY <1>1, <1>2, <1>3

\* Appending is associative, as a formula the provers do not rewrite.
Regroups(s, t, u) == (s \o t) \o u = s \o (t \o u)

\* It is, for the sequences of any set.
LEMMA Assoc ==
  ASSUME NEW S, NEW s \in Seq(S), NEW t \in Seq(S), NEW u \in Seq(S)
  PROVE  Regroups(s, t, u)
<1> DEFINE l == (s \o t) \o u
           r == s \o (t \o u)
<1>1. /\ s \o t \in Seq(S) /\ Len(s \o t) = Len(s) + Len(t)
      /\ t \o u \in Seq(S) /\ Len(t \o u) = Len(t) + Len(u)
  OBVIOUS
<1>2. l \in Seq(S) /\ r \in Seq(S) /\ Len(l) = Len(s) + Len(t) + Len(u) /\ Len(l) = Len(r)
  BY <1>1
<1>3. ASSUME NEW a \in 1..Len(l) PROVE l[a] = r[a]
  BY <1>1, <1>2
<1> QED  BY <1>2, <1>3, SameSeq DEF Regroups

\* A file of whole frames and at most half a frame after them.
Framed(u) ==
  \A j \in 1..(Len(u) \div 2) : u[2 * j - 1][2] = 1 /\ u[2 * j] = <<u[2 * j - 1][1], 2>>

\* Units come frame by frame, the halves of a frame in order.
Lex(x, y) == x[1] < y[1] \/ (x[1] = y[1] /\ x[2] < y[2])
Ordered(u) == \A a, b \in DOMAIN u : a < b => Lex(u[a], u[b])

\* What every segment is: its frames whole but perhaps the last, and in order.
Tidy(u) == u \in Seq(Unit) /\ Framed(u) /\ Ordered(u)

\* All frames of u come before those of v; none in u is later than n.
Below(u, v) == \A a \in DOMAIN u, b \in DOMAIN v : u[a][1] < v[b][1]
UpTo(u, n) == \A a \in DOMAIN u : u[a][1] <= n

\* The half of a frame: whose it is, and which.
LEMMA UnitFacts ==
  ASSUME NEW u \in Seq(Unit), NEW a \in DOMAIN u
  PROVE  u[a] \in Unit /\ u[a][1] \in Nat /\ u[a][1] \in Frame /\ u[a][2] \in {1, 2}
<1>1. u[a] \in Unit
  OBVIOUS
<1> QED  BY <1>1, WalAssumption DEF Unit, Frame

\* next_frame reads every whole frame of such a file, and stops at the half frame.
LEMMA WholeFramed ==
  ASSUME NEW u \in Seq(Unit), Framed(u)
  PROVE  Whole(u) = Len(u) \div 2
<1> DEFINE S == {k \in 0..(Len(u) \div 2) :
         \A j \in 1..k : u[2 * j - 1][2] = 1 /\ u[2 * j] = <<u[2 * j - 1][1], 2>>}
           h == Len(u) \div 2
<1>0. h \in Nat
  OBVIOUS
<1>1. S = 0..h
  BY <1>0 DEF Framed
<1>a. Whole(u) = Max(S)
  BY DEF Whole
<1> HIDE DEF S, h
<1>2. h \in S /\ \A y \in S : h >= y
  BY <1>0, <1>1
<1>3. \A x \in S : (\A y \in S : x >= y) => x = h
  BY <1>0, <1>1
<1>4. Max(S) = h
  BY <1>2, <1>3 DEF Max
<1> QED  BY <1>a, <1>4 DEF h

\* The frames it reads are the ones the even units complete.
LEMMA FramesOf ==
  ASSUME NEW u \in Seq(Unit), Framed(u)
  PROVE  /\ Frames(u) \in Seq(Frame) /\ Len(Frames(u)) = Len(u) \div 2
         /\ DOMAIN Frames(u) = 1..(Len(u) \div 2)
         /\ \A k \in 1..(Len(u) \div 2) : 2 * k \in DOMAIN u /\ Frames(u)[k] = u[2 * k][1]
<1> DEFINE h == Len(u) \div 2
<1>1. h \in Nat /\ 2 * h <= Len(u) /\ Len(u) \in Nat
  OBVIOUS
<1>2. Frames(u) = [k \in 1..h |-> u[2 * k][1]]
  BY WholeFramed DEF Frames
<1>3. \A k \in 1..h : 2 * k \in DOMAIN u
  BY <1>1
<1> HIDE DEF h
<1>4. \A k \in 1..h : u[2 * k][1] \in Frame
  BY <1>3, UnitFacts
<1>5. Frames(u) \in [1..h -> Frame]
  BY <1>2, <1>4
<1>6. Frames(u) \in Seq(Frame) /\ Len(Frames(u)) = h
  BY <1>1, <1>5
<1> QED  BY <1>1, <1>2, <1>3, <1>6 DEF h

\* A file cut anywhere keeps its form: a crash or a short write leaves at most half a frame.
LEMMA TidyTake ==
  ASSUME NEW u, Tidy(u), NEW k \in 0..Len(u)
  PROVE  Tidy(Take(u, k)) /\ DOMAIN Take(u, k) = 1..k
<1>1. /\ u \in Seq(Unit) /\ Take(u, k) \in Seq(Unit) /\ Len(Take(u, k)) = k
      /\ \A a \in 1..k : Take(u, k)[a] = u[a]
  BY TakeDrop DEF Tidy
<1>2. DOMAIN Take(u, k) = 1..k /\ DOMAIN u = 1..Len(u) /\ k <= Len(u)
  BY <1>1
<1>3. Framed(Take(u, k))
  <2> SUFFICES ASSUME NEW j \in 1..(k \div 2)
               PROVE  /\ Take(u, k)[2 * j - 1][2] = 1
                      /\ Take(u, k)[2 * j] = <<Take(u, k)[2 * j - 1][1], 2>>
    BY <1>1 DEF Framed
  <2>1. j \in 1..(Len(u) \div 2) /\ 2 * j \in 1..k /\ 2 * j - 1 \in 1..k
    BY <1>1, <1>2
  <2>2. u[2 * j - 1][2] = 1 /\ u[2 * j] = <<u[2 * j - 1][1], 2>>
    BY <2>1 DEF Tidy, Framed
  <2> QED  BY <1>1, <2>1, <2>2
<1>4. Ordered(Take(u, k))
  BY <1>1, <1>2 DEF Tidy, Ordered
<1> QED  BY <1>1, <1>2, <1>3, <1>4 DEF Tidy

\* Halving a length that begins with whole frames.
LEMMA HalvedSum ==
  ASSUME NEW h \in Nat, NEW n \in Nat
  PROVE  (2 * h + n) \div 2 = h + (n \div 2) /\ (2 * h) \div 2 = h /\ n \div 2 \in Nat
  OBVIOUS

\* Later frames after whole ones keep the form, and the reader sees both runs.
LEMMA TidyCat ==
  ASSUME NEW u, NEW v, Tidy(u), Tidy(v), Len(u) % 2 = 0, Below(u, v)
  PROVE  /\ Tidy(u \o v)
         /\ Frames(u \o v) = Frames(u) \o Frames(v)
<1>0. u \in Seq(Unit) /\ v \in Seq(Unit) /\ Len(u) \in Nat /\ Len(v) \in Nat
  BY DEF Tidy
<1>1. /\ u \o v \in Seq(Unit) /\ Len(u \o v) = Len(u) + Len(v)
      /\ \A i \in 1..Len(u) + Len(v) :
           (u \o v)[i] = IF i <= Len(u) THEN u[i] ELSE v[i - Len(u)]
  BY <1>0, Joined, Zenon
<1>2. PICK h \in Nat : Len(u) = 2 * h
  BY <1>0
<1>3. /\ Len(u \o v) \div 2 = h + (Len(v) \div 2) /\ Len(u) \div 2 = h
      /\ Len(v) \div 2 \in Nat
  <2>1. Len(u \o v) = 2 * h + Len(v)
    BY <1>1, <1>2
  <2>2. /\ (2 * h + Len(v)) \div 2 = h + (Len(v) \div 2) /\ (2 * h) \div 2 = h
        /\ Len(v) \div 2 \in Nat
    BY <1>0, HalvedSum
  <2> QED  BY <1>2, <2>1, <2>2, Zenon
<1>a. ASSUME NEW a \in 1..Len(u)
      PROVE  (u \o v)[a] = u[a]
  BY <1>0, <1>1
<1>b. ASSUME NEW a \in 1..Len(v)
      PROVE  (u \o v)[2 * h + a] = v[a]
  BY <1>0, <1>1, <1>2
<1>4. Framed(u \o v)
  <2> SUFFICES ASSUME NEW j \in 1..(h + (Len(v) \div 2))
               PROVE  /\ (u \o v)[2 * j - 1][2] = 1
                      /\ (u \o v)[2 * j] = <<(u \o v)[2 * j - 1][1], 2>>
    BY <1>3, Zenon DEF Framed
  <2>1. CASE j <= h
    <3>1. j \in 1..(Len(u) \div 2) /\ 2 * j \in 1..Len(u) /\ 2 * j - 1 \in 1..Len(u)
      BY <1>2, <1>3, <2>1
    <3>2. u[2 * j - 1][2] = 1 /\ u[2 * j] = <<u[2 * j - 1][1], 2>>
      BY <3>1, Zenon DEF Tidy, Framed
    <3> QED  BY <1>a, <3>1, <3>2, Zenon
  <2>2. CASE j > h
    <3> DEFINE i == j - h
    <3>1. /\ i \in 1..(Len(v) \div 2) /\ 2 * i \in 1..Len(v) /\ 2 * i - 1 \in 1..Len(v)
          /\ 2 * j = 2 * h + 2 * i /\ 2 * j - 1 = 2 * h + (2 * i - 1)
      BY <1>0, <1>3, <2>2
    <3> HIDE DEF i
    <3>2. v[2 * i - 1][2] = 1 /\ v[2 * i] = <<v[2 * i - 1][1], 2>>
      BY <3>1, Zenon DEF Tidy, Framed
    <3> QED  BY <1>b, <3>1, <3>2, Zenon
  <2> QED  BY <1>2, <1>3, <2>1, <2>2
<1>5. DOMAIN (u \o v) = 1..Len(u) + Len(v) /\ DOMAIN u = 1..Len(u) /\ DOMAIN v = 1..Len(v)
  BY <1>0, <1>1
<1>6. Ordered(u \o v)
  <2> SUFFICES ASSUME NEW a \in 1..Len(u) + Len(v), NEW b \in 1..Len(u) + Len(v), a < b
               PROVE  Lex((u \o v)[a], (u \o v)[b])
    BY <1>5, Zenon DEF Ordered
  <2>1. CASE b <= Len(u)
    <3>1. a \in 1..Len(u) /\ b \in 1..Len(u)
      BY <1>0, <2>1
    <3> QED  BY <1>5, <1>a, <3>1 DEF Tidy, Ordered
  <2>2. CASE a <= Len(u) /\ b > Len(u)
    <3>1. a \in 1..Len(u) /\ b - Len(u) \in 1..Len(v) /\ b = 2 * h + (b - Len(u))
      BY <1>0, <1>2, <2>2
    <3>2. (u \o v)[a] = u[a] /\ (u \o v)[b] = v[b - Len(u)]
      BY <1>a, <1>b, <3>1, Zenon
    <3> QED  BY <1>5, <3>1, <3>2 DEF Below, Lex
  <2>3. CASE a > Len(u)
    <3>1. /\ a - Len(u) \in 1..Len(v) /\ b - Len(u) \in 1..Len(v) /\ a - Len(u) < b - Len(u)
          /\ b = 2 * h + (b - Len(u)) /\ a = 2 * h + (a - Len(u))
      BY <1>0, <1>2, <2>3
    <3>2. (u \o v)[a] = v[a - Len(u)] /\ (u \o v)[b] = v[b - Len(u)]
      BY <1>b, <3>1
    <3> QED  BY <1>5, <3>1, <3>2, Zenon DEF Tidy, Ordered
  <2> QED  BY <1>0, <2>1, <2>2, <2>3
<1>7. Tidy(u \o v)
  BY <1>1, <1>4, <1>6 DEF Tidy
<1>8. Frames(u \o v) = Frames(u) \o Frames(v)
  <2> DEFINE l == Frames(u \o v)
             r == Frames(u) \o Frames(v)
  <2>1. /\ l \in Seq(Frame) /\ Len(l) = h + (Len(v) \div 2)
        /\ \A k \in 1..(h + (Len(v) \div 2)) : l[k] = (u \o v)[2 * k][1]
    BY <1>1, <1>3, <1>4, FramesOf, Zenon
  <2>2. /\ Frames(u) \in Seq(Frame) /\ Len(Frames(u)) = h
        /\ \A k \in 1..h : Frames(u)[k] = u[2 * k][1]
    BY <1>0, <1>3, FramesOf DEF Tidy
  <2>3. /\ Frames(v) \in Seq(Frame) /\ Len(Frames(v)) = Len(v) \div 2
        /\ \A k \in 1..(Len(v) \div 2) : Frames(v)[k] = v[2 * k][1]
    BY <1>0, FramesOf DEF Tidy
  <2>4. /\ r \in Seq(Frame) /\ Len(r) = h + (Len(v) \div 2)
        /\ \A k \in 1..(h + (Len(v) \div 2)) :
             r[k] = IF k <= h THEN Frames(u)[k] ELSE Frames(v)[k - h]
    <3>1. /\ r \in Seq(Frame) /\ Len(r) = Len(Frames(u)) + Len(Frames(v))
          /\ \A k \in 1..Len(Frames(u)) + Len(Frames(v)) :
               r[k] = IF k <= Len(Frames(u)) THEN Frames(u)[k] ELSE Frames(v)[k - Len(Frames(u))]
      BY <2>2, <2>3, Joined, Zenon
    <3> QED  BY <2>2, <2>3, <3>1, Zenon
  <2> HIDE DEF l, r
  <2>5. ASSUME NEW k \in 1..(h + (Len(v) \div 2)) PROVE l[k] = r[k]
    <3>1. CASE k <= h
      <4>1. k \in 1..h /\ 2 * k \in 1..Len(u)
        BY <1>2, <3>1
      <4> QED  BY <1>a, <2>1, <2>2, <2>4, <3>1, <4>1, Zenon
    <3>2. CASE ~(k <= h)
      <4>1. /\ k - h \in 1..(Len(v) \div 2) /\ 2 * (k - h) \in 1..Len(v)
            /\ 2 * k = 2 * h + 2 * (k - h)
        BY <1>0, <1>3, <3>2
      <4>2. l[k] = v[2 * (k - h)][1]
        BY <1>b, <2>1, <4>1, Zenon
      <4> QED  BY <2>3, <2>4, <3>2, <4>1, <4>2, Zenon
    <3> QED  BY <3>1, <3>2
  <2>6. l = r
    BY <2>1, <2>4, <2>5, SameSeq
  <2> QED  BY <2>6 DEF l, r
<1> QED  BY <1>7, <1>8

\* The segments and the active one: what is not there is empty, the active
\* segment is there with nothing after it, no file has more on the disk than
\* in it, and the counters tell the truth.
Disk ==
  /\ present \subseteq Ids /\ seg \in [Ids -> Seq(Unit)] /\ dur \in [Ids -> Nat]
  /\ id \in 0..MaxSeg /\ buf \in Seq(Unit) /\ Len(buf) <= BufCap
  /\ bytes \in Nat /\ synced \in Nat /\ torn \in BOOLEAN
  /\ \A i \in Ids : dur[i] <= Len(seg[i]) /\ (i \notin present => seg[i] = <<>>)
  /\ ~Opened => buf = <<>>
  /\ Opened =>
       /\ id \in present /\ \A i \in Ids : i > id => seg[i] = <<>>
       /\ synced <= bytes /\ synced <= dur[id] /\ bytes <= Len(seg[id]) + Len(buf)
       /\ ~torn => bytes = Len(seg[id]) + Len(buf) /\ bytes % 2 = 0

\* The committer runs only beside an open segment, and what it carries from one
\* critical section to the next is still true if the segment is still active.
Thread ==
  /\ stop \in BOOLEAN /\ retry \in BOOLEAN
  /\ pc \in {"wait", "sync", "mark", "roll", "gone"}
  /\ cap \in [id : 0..MaxSeg, upto : Nat]
  /\ ~Opened => pc = "gone"
  /\ pc \in {"sync", "mark"} =>
       /\ cap.id \in 1..id
       /\ cap.id = id =>
            /\ cap.upto <= bytes /\ cap.upto <= Len(seg[id])
            /\ pc = "mark" => cap.upto <= dur[id]

\* Every segment, with the buffer at the end of the active one, is whole frames
\* and perhaps half of one, in the order they were sent, and so are the segments.
Layout ==
  /\ \A i \in Ids : Tidy(Units(i)) /\ UpTo(Units(i), sent)
  /\ \A i, j \in Ids : i < j => Below(Units(i), Units(j))

\* The counters of the history.
Counted == sent \in 0..MaxFrame /\ acked \subseteq Frame /\ mishaps \in 0..MaxMishaps

\* The inductive invariant of the writer.
WalInv == Disk /\ Thread /\ Layout /\ Counted

\* f begins with f0.
Begins(f, f0) == Len(f0) <= Len(f) /\ \A a \in 1..Len(f0) : f[a] = f0[a]

\* What the committer carries stays true: a segment that stays active only grows.
Carry ==
  /\ id <= id'
  /\ id' = id => bytes <= bytes' /\ dur[id] <= dur'[id] /\ Len(seg[id]) <= Len(seg'[id])

\* No frame leaves the disk.
Safe ==
  /\ present \subseteq present'
  /\ \A i \in Ids :
       /\ dur[i] \div 2 <= dur'[i] \div 2
       /\ \A a \in 1..(2 * (dur[i] \div 2)) : seg'[i][a] = seg[i][a]

\* A file with more appended to it begins with what it held.
LEMMA Concatenated ==
  ASSUME NEW u \in Seq(Unit), NEW v \in Seq(Unit)
  PROVE  /\ u \o v \in Seq(Unit) /\ Len(u \o v) = Len(u) + Len(v)
         /\ Begins(u \o v, u)
         /\ u \o <<>> = u
<1>1. /\ u \o v \in Seq(Unit) /\ Len(u \o v) = Len(u) + Len(v)
      /\ \A i \in 1..Len(u) + Len(v) :
           (u \o v)[i] = IF i <= Len(u) THEN u[i] ELSE v[i - Len(u)]
  BY Joined
<1>2. \A a \in 1..Len(u) : (u \o v)[a] = u[a]
  BY <1>1
<1>3. u \o <<>> = u
  BY JoinedEmpty
<1> QED  BY <1>1, <1>2, <1>3 DEF Begins

\* Begins is transitive.
LEMMA BeginsTrans ==
  ASSUME NEW u \in Seq(Unit), NEW v \in Seq(Unit), NEW w \in Seq(Unit),
         Begins(w, v), Begins(v, u)
  PROVE  Begins(w, u)
  BY DEF Begins

\* A flush that stops partway moves bytes from the buffer to the file.
LEMMA PartFlushed ==
  ASSUME NEW file \in Seq(Unit), NEW b \in Seq(Unit), NEW s \in PartFlush(file, b)
  PROVE  /\ s.file \in Seq(Unit) /\ s.buf \in Seq(Unit)
         /\ Len(s.buf) <= Len(b) /\ Len(s.file) + Len(s.buf) = Len(file) + Len(b)
         /\ Begins(s.file, file)
         /\ s.file \o s.buf = file \o b
<1>1. PICK k \in 0..(Len(b) - 1) : s = [file |-> file \o Take(b, k), buf |-> Drop(b, k)]
  BY Zenon DEF PartFlush
<1>2. k \in 0..Len(b) /\ s.file = file \o Take(b, k) /\ s.buf = Drop(b, k)
  BY <1>1
<1>3. /\ Take(b, k) \in Seq(Unit) /\ Len(Take(b, k)) = k
      /\ Drop(b, k) \in Seq(Unit) /\ Len(Drop(b, k)) = Len(b) - k
      /\ Take(b, k) \o Drop(b, k) = b
  BY <1>2, TakeDrop, Zenon
<1>4. s.file \in Seq(Unit) /\ Len(s.file) = Len(file) + k /\ Begins(s.file, file)
  <2>1. /\ file \o Take(b, k) \in Seq(Unit) /\ Begins(file \o Take(b, k), file)
        /\ Len(file \o Take(b, k)) = Len(file) + Len(Take(b, k))
    BY <1>3, Concatenated, Zenon
  <2> QED  BY <1>2, <1>3, <2>1, Zenon
<1>5. s.file \o s.buf = file \o b
  <2>1. Regroups(file, Take(b, k), Drop(b, k))
    BY <1>3, Assoc
  <2> QED  BY <1>2, <1>3, <2>1, Zenon DEF Regroups
<1> QED  BY <1>2, <1>3, <1>4, <1>5

\* A step after which the same segment is active, with X in its file and B in
\* the buffer.
LEMMA StayStep ==
  ASSUME NEW X \in Seq(Unit), NEW B \in Seq(Unit), NEW d \in Nat
  PROVE  (/\ Disk /\ Opened /\ id' = id /\ seg' = [seg EXCEPT ![id] = X] /\ buf' = B
          /\ dur' = [dur EXCEPT ![id] = d] /\ Len(B) <= BufCap /\ Begins(X, seg[id])
          /\ dur[id] <= d /\ d <= Len(X) /\ present \subseteq present'
          /\ present' \subseteq Ids /\ bytes' \in Nat /\ synced' \in Nat /\ torn' \in BOOLEAN
          /\ bytes <= bytes' /\ synced' <= bytes' /\ synced' <= d /\ bytes' <= Len(X) + Len(B)
          /\ (~torn' => bytes' = Len(X) + Len(B) /\ bytes' % 2 = 0))
         => /\ Disk' /\ Opened' /\ Carry /\ Safe
            /\ \A i \in Ids : Units(i)' = IF i = id THEN X \o B ELSE Units(i)
<1>h. HAVE /\ Disk /\ Opened /\ id' = id /\ seg' = [seg EXCEPT ![id] = X] /\ buf' = B
           /\ dur' = [dur EXCEPT ![id] = d] /\ Len(B) <= BufCap /\ Begins(X, seg[id])
           /\ dur[id] <= d /\ d <= Len(X) /\ present \subseteq present'
           /\ present' \subseteq Ids /\ bytes' \in Nat /\ synced' \in Nat /\ torn' \in BOOLEAN
           /\ bytes <= bytes' /\ synced' <= bytes' /\ synced' <= d /\ bytes' <= Len(X) + Len(B)
           /\ (~torn' => bytes' = Len(X) + Len(B) /\ bytes' % 2 = 0)
<1>1. /\ id \in Ids /\ id \in Nat /\ seg[id] \in Seq(Unit) /\ dur[id] \in Nat
      /\ dur[id] <= Len(seg[id]) /\ Len(seg[id]) <= Len(X) /\ Len(seg[id]) \in Nat
      /\ Len(X) \in Nat
  <2>1. id \in Ids /\ id \in Nat
    BY <1>h, WalAssumption DEF Disk, Opened, Ids
  <2> QED  BY <1>h, <2>1 DEF Disk, Begins
<1>2. /\ seg' \in [Ids -> Seq(Unit)] /\ dur' \in [Ids -> Nat]
      /\ seg'[id] = X /\ dur'[id] = d
      /\ \A i \in Ids : i # id => seg'[i] = seg[i] /\ dur'[i] = dur[i]
  BY <1>h, <1>1, Zenon DEF Disk
<1>3. Disk'
  <2>1. id \in present /\ id' \in present' /\ id' \in 0..MaxSeg
    BY <1>h DEF Disk, Opened
  <2>2. ASSUME NEW i \in Ids
        PROVE  dur'[i] <= Len(seg'[i]) /\ (i \notin present' => seg'[i] = <<>>)
    BY <1>h, <1>2, <2>1 DEF Disk
  <2>3. ASSUME NEW i \in Ids, i > id' PROVE seg'[i] = <<>>
    <3>1. i > id /\ i # id
      BY <1>h, <1>1, <2>3 DEF Ids
    <3> QED  BY <1>h, <1>2, <3>1 DEF Disk, Opened
  <2> QED  BY <1>h, <1>2, <2>1, <2>2, <2>3, Zenon DEF Disk, Opened
<1>4. Carry /\ Opened'
  BY <1>h, <1>1, <1>2 DEF Carry, Opened
<1>5. Safe
  <2>1. ASSUME NEW i \in Ids
        PROVE  /\ dur[i] \div 2 <= dur'[i] \div 2
               /\ \A a \in 1..(2 * (dur[i] \div 2)) : seg'[i][a] = seg[i][a]
    <3>1. CASE i = id
      <4>1. \A a \in 1..(2 * (dur[i] \div 2)) : a \in 1..Len(seg[id])
        BY <1>1, <3>1
      <4>2. \A a \in 1..Len(seg[id]) : X[a] = seg[id][a]
        BY <1>h DEF Begins
      <4>3. dur[i] \div 2 <= dur'[i] \div 2
        BY <1>h, <1>1, <1>2, <3>1
      <4> QED  BY <1>2, <3>1, <4>1, <4>2, <4>3, Zenon
    <3>2. CASE i # id
      BY <1>2, <3>2 DEF Disk
    <3> QED  BY <3>1, <3>2
  <2> QED  BY <1>h, <2>1 DEF Safe
<1>6. ASSUME NEW i \in Ids PROVE Units(i)' = IF i = id THEN X \o B ELSE Units(i)
  BY <1>h, <1>2 DEF Units
<1> QED  BY <1>3, <1>4, <1>5, <1>6

\* Shared::roll, of a segment whose file and buffer hold what was handed to it.
LEMMA RollStep ==
  ASSUME NEW file \in Seq(Unit), NEW b \in Seq(Unit), NEW isTorn \in BOOLEAN, NEW kinds
  PROVE  (/\ Disk /\ Opened /\ Len(b) <= BufCap /\ Begins(file, seg[id])
          /\ bytes <= Len(file) + Len(b)
          /\ (~isTorn => bytes = Len(file) + Len(b) /\ bytes % 2 = 0)
          /\ Roll(file, b, isTorn, kinds))
         => /\ Disk' /\ Opened' /\ Carry /\ Safe
            /\ \A i \in Ids : Units(i)' = IF i = id THEN file \o b ELSE Units(i)
<1>h. HAVE /\ Disk /\ Opened /\ Len(b) <= BufCap /\ Begins(file, seg[id])
           /\ bytes <= Len(file) + Len(b)
           /\ (~isTorn => bytes = Len(file) + Len(b) /\ bytes % 2 = 0)
           /\ Roll(file, b, isTorn, kinds)
<1>0. /\ id \in Ids /\ id \in Nat /\ file \o b \in Seq(Unit) /\ Len(file \o b) = Len(file) + Len(b)
      /\ Begins(file \o b, seg[id]) /\ seg[id] \in Seq(Unit) /\ Len(seg[id]) \in Nat
      /\ dur[id] \in Nat /\ dur[id] <= Len(seg[id]) /\ Len(seg[id]) <= Len(file)
      /\ Len(b) \in Nat /\ Len(file) \in Nat
      /\ MaxSeg \in Nat
  <2>1. id \in Ids /\ id \in Nat
    BY <1>h, WalAssumption DEF Disk, Opened, Ids
  <2>2. seg[id] \in Seq(Unit) /\ dur[id] \in Nat /\ dur[id] <= Len(seg[id])
    BY <1>h, <2>1 DEF Disk
  <2>3. Begins(file \o b, file) /\ file \o b \in Seq(Unit) /\ Len(file \o b) = Len(file) + Len(b)
    BY Concatenated
  <2>4. Begins(file \o b, seg[id])
    BY <1>h, <2>2, <2>3, BeginsTrans, Zenon
  <2> QED  BY <1>h, <2>1, <2>2, <2>3, <2>4, WalAssumption DEF Begins
<1> DEFINE all == file \o b
<1>1. CASE RollOver(all, Len(all), kinds)
  <2>1. /\ id + 1 \in Ids /\ id + 1 \notin present
        /\ seg' = [seg EXCEPT ![id] = all] /\ dur' = [dur EXCEPT ![id] = Len(all)]
        /\ present' = present \cup {id + 1}
        /\ id' = id + 1 /\ buf' = <<>> /\ bytes' = 0 /\ synced' = 0 /\ torn' = FALSE
    BY <1>1, Zenon DEF RollOver
  <2> HIDE DEF all
  <2>2. /\ seg' \in [Ids -> Seq(Unit)] /\ dur' \in [Ids -> Nat]
        /\ seg'[id] = all /\ dur'[id] = Len(all)
        /\ \A i \in Ids : i # id => seg'[i] = seg[i] /\ dur'[i] = dur[i]
    BY <1>h, <1>0, <2>1 DEF Disk, all
  <2>3. seg[id + 1] = <<>> /\ seg'[id + 1] = <<>> /\ dur'[id + 1] = 0
    <3>1. seg[id + 1] = <<>> /\ dur[id + 1] \in Nat /\ dur[id + 1] <= Len(seg[id + 1])
      BY <1>h, <2>1, Zenon DEF Disk
    <3>2. Len(<<>>) = 0 /\ id + 1 # id
      BY <1>0
    <3>3. dur[id + 1] = 0
      BY <3>1, <3>2
    <3> QED  BY <2>1, <2>2, <3>1, <3>2, <3>3
  <2>4. Disk'
    <3>0. present \subseteq Ids
      BY <1>h DEF Disk
    <3>1. present' \subseteq Ids /\ id' \in 0..MaxSeg /\ id' # 0
      BY <1>0, <2>1, <3>0 DEF Ids
    <3>2. ASSUME NEW i \in Ids
          PROVE  dur'[i] <= Len(seg'[i]) /\ (i \notin present' => seg'[i] = <<>>)
      <4>1. CASE i = id
        <5>1. id \in present'
          BY <1>h, <2>1 DEF Disk, Opened
        <5> QED  BY <1>0, <2>2, <4>1, <5>1 DEF all
      <4>2. CASE i # id
        BY <1>h, <2>1, <2>2, <4>2 DEF Disk
      <4> QED  BY <4>1, <4>2
    <3>3. ASSUME NEW i \in Ids, i > id' PROVE seg'[i] = <<>>
      <4>1. i > id /\ i # id
        BY <1>0, <2>1, <3>3 DEF Ids
      <4> QED  BY <1>h, <2>2, <4>1 DEF Disk, Opened
    <3>4. /\ buf' \in Seq(Unit) /\ Len(buf') = 0 /\ Len(buf') <= BufCap
          /\ Len(seg'[id']) = 0 /\ dur'[id'] = 0
      BY <2>1, <2>3, WalAssumption
    <3>5. /\ bytes' \in Nat /\ synced' \in Nat /\ torn' \in BOOLEAN
          /\ synced' <= bytes' /\ synced' <= dur'[id'] /\ bytes' <= Len(seg'[id']) + Len(buf')
          /\ bytes' = Len(seg'[id']) + Len(buf') /\ bytes' % 2 = 0
      <4>1. bytes' = 0 /\ synced' = 0 /\ torn' = FALSE
        BY <2>1
      <4>2. 0 % 2 = 0 /\ 0 \in Nat /\ 0 <= 0 /\ 0 = 0 + 0 /\ 0 <= 0 + 0
        OBVIOUS
      <4> QED  BY <3>4, <4>1, <4>2, Zenon
    <3>6. id' \in present'
      BY <2>1
    <3> QED  BY <2>1, <2>2, <3>1, <3>2, <3>3, <3>4, <3>5, <3>6, Zenon DEF Disk, Opened
  <2>5. Carry /\ Opened'
    BY <1>0, <2>1 DEF Carry, Opened
  <2>6. Safe
    <3>1. ASSUME NEW i \in Ids
          PROVE  /\ dur[i] \div 2 <= dur'[i] \div 2
                 /\ \A a \in 1..(2 * (dur[i] \div 2)) : seg'[i][a] = seg[i][a]
      <4>1. CASE i = id
        <5>1. dur[id] <= dur'[id]
          BY <1>0, <2>2 DEF all
        <5>2. \A a \in 1..(2 * (dur[i] \div 2)) : a \in 1..Len(seg[id])
          BY <1>0, <4>1
        <5>3. \A a \in 1..Len(seg[id]) : all[a] = seg[id][a]
          BY <1>0, Zenon DEF Begins, all
        <5>4. dur[i] \div 2 <= dur'[i] \div 2
          BY <1>0, <2>2, <4>1, <5>1
        <5> QED  BY <2>2, <4>1, <5>2, <5>3, <5>4, Zenon
      <4>2. CASE i # id
        BY <2>2, <4>2 DEF Disk
      <4> QED  BY <4>1, <4>2
    <3> QED  BY <2>1, <3>1 DEF Safe
  <2>7. ASSUME NEW i \in Ids, i = id PROVE Units(i)' = all
    <3>1. i # id'
      BY <1>0, <2>1, <2>7
    <3> QED  BY <2>2, <2>7, <3>1 DEF Units
  <2>8. ASSUME NEW i \in Ids, i # id PROVE Units(i)' = Units(i)
    <3>1. CASE i = id + 1
      <4>1. <<>> \o <<>> = <<>>
        BY Concatenated
      <4> QED  BY <2>1, <2>3, <2>8, <3>1, <4>1 DEF Units
    <3>2. CASE i # id + 1
      BY <2>1, <2>2, <2>8, <3>2 DEF Units
    <3> QED  BY <3>1, <3>2
  <2> QED  BY <2>1, <2>4, <2>5, <2>6, <2>7, <2>8 DEF all
<1>2. CASE /\ \/ present' = present
              \/ id + 1 \in Ids /\ present' = present \cup {id + 1}
           /\ seg' = [seg EXCEPT ![id] = all]
           /\ dur' = [dur EXCEPT ![id] = Len(all)]
           /\ buf' = <<>> /\ synced' = bytes
           /\ torn' = isTorn
           /\ UNCHANGED <<id, bytes>>
  <2>1. /\ all \in Seq(Unit) /\ <<>> \in Seq(Unit) /\ Len(all) \in Nat
        /\ Len(<<>>) = 0 /\ Len(<<>>) <= BufCap /\ all \o <<>> = all
    BY <1>0, Concatenated, WalAssumption
  <2>2. present \subseteq present' /\ present' \subseteq Ids
    BY <1>h, <1>2 DEF Disk
  <2>3. /\ bytes' \in Nat /\ synced' \in Nat /\ torn' \in BOOLEAN
        /\ bytes <= bytes' /\ synced' <= bytes' /\ synced' <= Len(all)
        /\ bytes' <= Len(all) + Len(<<>>) /\ dur[id] <= Len(all)
        /\ ~torn' => bytes' = Len(all) + Len(<<>>) /\ bytes' % 2 = 0
    BY <1>h, <1>0, <1>2, <2>1 DEF Disk
  <2>4. id' = id /\ buf' = <<>>
    BY <1>2
  <2> HIDE DEF all
  <2>5. /\ Disk' /\ Opened' /\ Carry /\ Safe
        /\ \A i \in Ids : Units(i)' = IF i = id THEN all \o <<>> ELSE Units(i)
    <3>1. Begins(all, seg[id]) /\ Len(all) <= Len(all)
      BY <1>0, <2>1 DEF all
    <3> QED  BY <1>h, <1>2, <2>1, <2>2, <2>3, <2>4, <3>1, StayStep, Zenon
  <2> QED  BY <1>2, <2>1, <2>5 DEF all
<1>3. CASE /\ \E s \in {[file |-> file \o b, buf |-> <<>>]} \cup PartFlush(file, b) :
                seg' = [seg EXCEPT ![id] = s.file] /\ buf' = s.buf
           /\ torn' = isTorn
           /\ UNCHANGED <<present, dur, id, bytes, synced>>
  <2>1. PICK s \in {[file |-> file \o b, buf |-> <<>>]} \cup PartFlush(file, b) :
          seg' = [seg EXCEPT ![id] = s.file] /\ buf' = s.buf
    BY <1>3, Zenon
  <2>2. /\ s.file \in Seq(Unit) /\ s.buf \in Seq(Unit)
        /\ Len(s.buf) <= Len(b) /\ Len(s.file) + Len(s.buf) = Len(file) + Len(b)
        /\ Begins(s.file, file)
        /\ s.file \o s.buf = all
    <3>1. CASE s = [file |-> file \o b, buf |-> <<>>]
      <4>1. s.file = file \o b /\ s.buf = <<>>
        BY <3>1
      <4>2. (file \o b) \o <<>> = file \o b /\ Begins(file \o b, file)
        BY <1>0, Concatenated
      <4> QED  BY <1>0, <4>1, <4>2
    <3>2. CASE s \in PartFlush(file, b)
      BY <3>2, PartFlushed, Zenon
    <3> QED  BY <2>1, <3>1, <3>2, Zenon
  <2>3. Begins(s.file, seg[id]) /\ Len(s.file) \in Nat /\ Len(s.buf) \in Nat
    BY <1>h, <1>0, <2>2, BeginsTrans
  <2>4. /\ bytes' \in Nat /\ synced' \in Nat /\ torn' \in BOOLEAN
        /\ bytes <= bytes' /\ synced' <= bytes' /\ synced' <= dur[id]
        /\ bytes' <= Len(s.file) + Len(s.buf) /\ dur[id] <= dur[id] /\ dur[id] <= Len(s.file)
        /\ ~torn' => bytes' = Len(s.file) + Len(s.buf) /\ bytes' % 2 = 0
        /\ Len(s.buf) <= BufCap
    <3>1. /\ bytes \in Nat /\ synced \in Nat /\ synced <= bytes /\ synced <= dur[id]
          /\ bytes' = bytes /\ synced' = synced /\ torn' = isTorn /\ BufCap \in Nat
      BY <1>h, <1>3, WalAssumption DEF Disk
    <3>2. Len(file) <= Len(s.file)
      BY <2>2 DEF Begins
    <3>3. dur[id] <= Len(s.file) /\ Len(s.buf) <= BufCap
      BY <1>h, <1>0, <2>2, <2>3, <3>1, <3>2
    <3>4. /\ bytes <= Len(s.file) + Len(s.buf)
          /\ ~isTorn => bytes = Len(s.file) + Len(s.buf) /\ bytes % 2 = 0
      BY <1>h, <2>2, Zenon
    <3>5. bytes <= bytes /\ dur[id] <= dur[id]
      BY <1>0, <3>1
    <3> QED  BY <3>1, <3>3, <3>4, <3>5, Zenon
  <2>5. /\ id' = id /\ dur' = [dur EXCEPT ![id] = dur[id]]
        /\ present \subseteq present' /\ present' \subseteq Ids
    BY <1>h, <1>0, <1>3 DEF Disk
  <2>6. /\ Disk' /\ Opened' /\ Carry /\ Safe
        /\ \A i \in Ids : Units(i)' = IF i = id THEN s.file \o s.buf ELSE Units(i)
    BY <1>h, <1>0, <2>1, <2>2, <2>3, <2>4, <2>5, StayStep, Zenon
  <2> QED  BY <1>3, <2>2, <2>6
<1> QED  BY <1>h, <1>1, <1>2, <1>3, Zenon DEF Roll

\* What a step may do to the segments' contents.
Same == \A i \in Ids : Units(i)' = Units(i)
Grew(w) == \A i \in Ids : Units(i)' = IF i = id THEN Units(i) \o w ELSE Units(i)

\* What append_batch receives is a tidy sequence of frames never sent before.
LEMMA EncodedFacts ==
  ASSUME NEW n \in 1..2
  PROVE  sent \in 0..MaxFrame /\ sent + n <= MaxFrame
         => /\ Tidy(Encoded(n)) /\ Len(Encoded(n)) = 2 * n
            /\ \A a \in 1..(2 * n) : Encoded(n)[a][1] \in (sent + 1)..(sent + n)
            /\ Range(Frames(Encoded(n))) = (sent + 1)..(sent + n)
<1>h. HAVE sent \in 0..MaxFrame /\ sent + n <= MaxFrame
<1> DEFINE u == Encoded(n)
           F(j) == sent + ((j + 1) \div 2)
           H(j) == 2 - (j % 2)
<1>0. sent \in Nat /\ n \in Nat /\ 2 * n \in Nat /\ MaxFrame \in Nat
  BY <1>h, WalAssumption
<1>1. \A j \in 1..(2 * n) : F(j) \in (sent + 1)..(sent + n) /\ H(j) \in {1, 2}
  BY <1>0
<1>2. \A j \in 1..(2 * n) : <<F(j), H(j)>> \in Unit
  BY <1>h, <1>0, <1>1 DEF Unit, Frame
<1>3. u = [j \in 1..(2 * n) |-> <<F(j), H(j)>>]
  BY DEF Encoded
<1>4. \A a, b \in 1..(2 * n) : a < b => F(a) < F(b) \/ (F(a) = F(b) /\ H(a) < H(b))
  BY <1>0
<1>5. \A j \in 1..n : F(2 * j - 1) = sent + j /\ F(2 * j) = sent + j
                      /\ H(2 * j - 1) = 1 /\ H(2 * j) = 2
                      /\ 2 * j \in 1..(2 * n) /\ 2 * j - 1 \in 1..(2 * n)
  BY <1>0
<1> HIDE DEF F, H, u
<1>6. u \in [1..(2 * n) -> Unit]
  BY <1>2, <1>3
<1>7. u \in Seq(Unit) /\ Len(u) = 2 * n /\ DOMAIN u = 1..(2 * n)
  BY <1>0, <1>6
<1>8. \A a \in 1..(2 * n) : u[a][1] = F(a) /\ u[a][2] = H(a) /\ u[a] = <<F(a), H(a)>>
  BY <1>3
<1>9. (2 * n) \div 2 = n
  BY <1>0
<1>10. Framed(u)
  <2>1. ASSUME NEW j \in 1..n
        PROVE  u[2 * j - 1][2] = 1 /\ u[2 * j] = <<u[2 * j - 1][1], 2>>
    <3>1. 2 * j \in 1..(2 * n) /\ 2 * j - 1 \in 1..(2 * n)
      BY <1>5
    <3>2. u[2 * j - 1][2] = H(2 * j - 1) /\ u[2 * j] = <<F(2 * j), H(2 * j)>>
          /\ u[2 * j - 1][1] = F(2 * j - 1)
      BY <1>8, <3>1
    <3> QED  BY <1>5, <3>2
  <2> QED  BY <1>7, <1>9, <2>1 DEF Framed
<1>11. Ordered(u)
  BY <1>h, <1>4, <1>7, <1>8 DEF Ordered, Lex
<1>12. \A k \in 1..n : Frames(u)[k] = sent + k
  <2>1. \A k \in 1..n : Frames(u)[k] = u[2 * k][1]
    BY <1>7, <1>9, <1>10, FramesOf
  <2> QED  BY <1>5, <1>8, <2>1
<1>13. Range(Frames(u)) = {Frames(u)[k] : k \in 1..n}
  BY <1>7, <1>9, <1>10, FramesOf DEF Range
<1>14. Range(Frames(u)) = (sent + 1)..(sent + n)
  <2>1. ASSUME NEW f \in (sent + 1)..(sent + n) PROVE f \in Range(Frames(u))
    <3>1. f - sent \in 1..n /\ f = sent + (f - sent)
      BY <1>0
    <3> QED  BY <1>12, <1>13, <3>1
  <2>2. ASSUME NEW k \in 1..n PROVE Frames(u)[k] \in (sent + 1)..(sent + n)
    BY <1>0, <1>12
  <2> QED  BY <1>13, <2>1, <2>2
<1> QED  BY <1>1, <1>7, <1>8, <1>10, <1>11, <1>14 DEF Tidy, u

\* The committer's part when it does not move, and the segment does.
LEMMA ThreadKept ==
  (/\ Disk /\ Disk' /\ Thread /\ Opened /\ Opened' /\ Carry /\ cap' = cap
   /\ stop' \in BOOLEAN /\ retry' \in BOOLEAN
   /\ (pc' = pc \/ pc' \in {"wait", "roll", "gone"}))
  => Thread'
<1>h. HAVE /\ Disk /\ Disk' /\ Thread /\ Opened /\ Opened' /\ Carry /\ cap' = cap
           /\ stop' \in BOOLEAN /\ retry' \in BOOLEAN
           /\ (pc' = pc \/ pc' \in {"wait", "roll", "gone"})
<1>1. /\ id \in Nat /\ id' \in Nat /\ id \in Ids /\ id' \in Ids /\ id <= id'
      /\ bytes \in Nat /\ bytes' \in Nat
  BY <1>h, WalAssumption DEF Disk, Opened, Carry, Ids
<1>2. /\ dur[id] \in Nat /\ dur'[id] \in Nat /\ Len(seg[id]) \in Nat /\ Len(seg'[id]) \in Nat
  <2>1. /\ seg \in [Ids -> Seq(Unit)] /\ seg' \in [Ids -> Seq(Unit)]
        /\ dur \in [Ids -> Nat] /\ dur' \in [Ids -> Nat]
    BY <1>h, Zenon DEF Disk
  <2>2. seg[id] \in Seq(Unit) /\ seg'[id] \in Seq(Unit)
    BY <1>1, <2>1
  <2> QED  BY <1>h, <1>1, <2>1, <2>2
<1>3. cap.id \in 0..MaxSeg /\ cap.upto \in Nat
  BY <1>h DEF Thread
<1>4. CASE pc' \in {"wait", "roll", "gone"}
  BY <1>h, <1>4 DEF Thread, Opened
<1>5. CASE pc' = pc /\ pc \in {"sync", "mark"}
  <2>1. cap.id \in 1..id /\ cap.id \in 1..id'
    BY <1>h, <1>1, <1>3, <1>5 DEF Thread
  <2>2. ASSUME cap.id = id'
        PROVE  /\ cap.upto <= bytes' /\ cap.upto <= Len(seg'[id'])
               /\ pc = "mark" => cap.upto <= dur'[id']
    <3>1. id' = id /\ cap.id = id
      BY <1>1, <2>1, <2>2
    <3>2. bytes <= bytes' /\ dur[id] <= dur'[id] /\ Len(seg[id]) <= Len(seg'[id])
      BY <1>h, <3>1 DEF Carry
    <3>3. /\ cap.upto <= bytes /\ cap.upto <= Len(seg[id])
          /\ pc = "mark" => cap.upto <= dur[id]
      BY <1>h, <1>5, <3>1 DEF Thread
    <3> QED  BY <1>h, <1>1, <1>2, <1>3, <3>1, <3>2, <3>3
  <2> QED  BY <1>h, <1>5, <2>1, <2>2 DEF Thread
<1> QED  BY <1>h, <1>4, <1>5 DEF Thread

\* WalWriter::append_bytes, Ok.
LEMMA AppendStep ==
  ASSUME NEW n \in 1..2
  PROVE  Disk /\ Thread /\ Counted /\ AppendBytes(n)
         => /\ Disk' /\ Thread' /\ Safe /\ Opened' /\ Grew(Encoded(n))
<1>h. HAVE Disk /\ Thread /\ Counted /\ AppendBytes(n)
<1> DEFINE u == Encoded(n)
<1>0. /\ Opened /\ ~torn /\ sent + n <= MaxFrame /\ sent \in 0..MaxFrame /\ n \in Nat
      /\ present' = present /\ dur' = dur /\ id' = id /\ synced' = synced /\ torn' = torn
      /\ bytes' = bytes + Len(u)
      /\ stop' = stop /\ pc' = pc /\ cap' = cap /\ retry' = retry
  BY <1>h DEF AppendBytes, Counted, thread
<1>1. u \in Seq(Unit) /\ Len(u) = 2 * n
  BY <1>0, EncodedFacts, Zenon DEF Tidy
<1>2. /\ id \in Ids /\ seg[id] \in Seq(Unit) /\ buf \in Seq(Unit) /\ dur[id] \in Nat
      /\ dur[id] <= Len(seg[id]) /\ bytes = Len(seg[id]) + Len(buf)
      /\ synced \in Nat /\ synced <= bytes /\ synced <= dur[id] /\ BufCap \in Nat
      /\ Len(buf) <= BufCap /\ bytes \in Nat /\ Len(seg[id]) \in Nat /\ Len(buf) \in Nat
  <2>1. id \in Ids
    BY <1>h, <1>0 DEF Disk, Opened, Ids
  <2> QED  BY <1>h, <1>0, <2>1, WalAssumption DEF Disk
<1>a. bytes % 2 = 0 /\ n \in Nat
  BY <1>h, <1>0 DEF Disk
<1>b. /\ \A a, b \in Nat : a + (b + 2 * n) = (a + b) + 2 * n
      /\ \A a \in Nat : /\ a % 2 = 0 => (a + 2 * n) % 2 = 0
                        /\ a + 2 * n \in Nat /\ a <= a + 2 * n
  BY <1>a
<1>c. \A a, b, c \in Nat : a <= b /\ b <= c => a <= c
  OBVIOUS
<1> HIDE DEF u
<1>4. PICK X \in Seq(Unit), B \in Seq(Unit) :
        /\ seg' = [seg EXCEPT ![id] = X] /\ buf' = B
        /\ Begins(X, seg[id]) /\ Len(B) <= BufCap /\ Len(X) + Len(B) = bytes + 2 * n
        /\ X \o B = (seg[id] \o buf) \o u
  <2>1. CASE Len(u) >= BufCap
    <3>1. seg' = [seg EXCEPT ![id] = (seg[id] \o buf) \o u] /\ buf' = <<>>
      BY <1>h, <2>1 DEF AppendBytes, u
    <3>2. /\ seg[id] \o buf \in Seq(Unit) /\ Len(seg[id] \o buf) = bytes
          /\ Begins(seg[id] \o buf, seg[id])
      BY <1>2, Concatenated
    <3> DEFINE X == (seg[id] \o buf) \o u
    <3>3. X \in Seq(Unit) /\ Len(X) = bytes + 2 * n /\ Begins(X, seg[id] \o buf)
      BY <1>1, <3>2, Concatenated, Zenon
    <3>4. Begins(X, seg[id])
      BY <1>2, <3>2, <3>3, BeginsTrans, Zenon
    <3>5. <<>> \in Seq(Unit) /\ Len(<<>>) = 0 /\ X \o <<>> = X
      BY <1>1, <3>3, Concatenated
    <3>6. Len(<<>>) <= BufCap /\ Len(X) + Len(<<>>) = bytes + 2 * n
      BY <1>0, <1>2, <3>3, <3>5
    <3> QED  BY <3>1, <3>3, <3>4, <3>5, <3>6, Zenon
  <2>2. CASE ~(Len(u) >= BufCap) /\ Len(buf) + Len(u) > BufCap
    <3>1. seg' = [seg EXCEPT ![id] = seg[id] \o buf] /\ buf' = u
      BY <1>h, <2>2 DEF AppendBytes, u
    <3>2. /\ seg[id] \o buf \in Seq(Unit) /\ Len(seg[id] \o buf) = bytes
          /\ Begins(seg[id] \o buf, seg[id])
      BY <1>2, Concatenated
    <3>3. Len(u) <= BufCap /\ Len(seg[id] \o buf) + Len(u) = bytes + 2 * n
      BY <1>h, <1>0, <1>1, <1>2, <2>2, <3>2
    <3> QED  BY <1>1, <3>1, <3>2, <3>3, Zenon
  <2>3. CASE ~(Len(u) >= BufCap) /\ ~(Len(buf) + Len(u) > BufCap)
    <3>1. seg' = seg /\ buf' = buf \o u
      BY <1>h, <2>3 DEF AppendBytes, u
    <3>2. seg' = [seg EXCEPT ![id] = seg[id]]
      BY <1>h, <1>2, <3>1 DEF Disk
    <3>3. buf \o u \in Seq(Unit) /\ Len(buf \o u) = Len(buf) + Len(u)
      BY <1>1, <1>2, Concatenated, Zenon
    <3>4. Begins(seg[id], seg[id])
      BY <1>2 DEF Begins
    <3>5. Len(buf \o u) <= BufCap /\ Len(seg[id]) + Len(buf \o u) = bytes + 2 * n
      <4>1. Len(buf) + 2 * n <= BufCap
        BY <1>h, <1>0, <1>1, <1>2, <2>3
      <4>2. Len(buf \o u) = Len(buf) + 2 * n
        BY <1>1, <3>3
      <4>3. Len(seg[id]) + (Len(buf) + 2 * n) = bytes + 2 * n
        BY <1>2, <1>b, Zenon
      <4> QED  BY <4>1, <4>2, <4>3, Zenon
    <3>6. seg[id] \o (buf \o u) = (seg[id] \o buf) \o u
      <4>1. Regroups(seg[id], buf, u)
        BY <1>1, <1>2, Assoc
      <4> QED  BY <4>1, Zenon DEF Regroups
    <3> QED  BY <1>2, <3>1, <3>2, <3>3, <3>4, <3>5, <3>6, Zenon
  <2> QED  BY <2>1, <2>2, <2>3, Zenon
<1>5. dur' = [dur EXCEPT ![id] = dur[id]]
  BY <1>h, <1>0, <1>2 DEF Disk
<1>6. /\ bytes' = bytes + 2 * n /\ bytes' \in Nat /\ bytes <= bytes' /\ synced <= bytes'
      /\ bytes' % 2 = 0 /\ Len(seg[id]) <= Len(X)
  <2>1. Len(seg[id]) <= Len(X)
    BY <1>4 DEF Begins
  <2>2. (bytes + 2 * n) % 2 = 0
    BY <1>h, <1>2, <1>a, <1>b, Zenon
  <2>3. bytes' = bytes + 2 * n
    BY <1>0, <1>1 DEF u
  <2> QED  BY <1>2, <1>b, <1>c, <2>1, <2>2, <2>3, Zenon
<1>7. /\ dur[id] <= Len(X) /\ dur[id] <= dur[id]
  <2>1. Len(X) \in Nat /\ dur[id] <= dur[id]
    BY <1>h, <1>2, <1>4
  <2> QED  BY <1>2, <1>6, <1>c, <2>1, Zenon
<1>8. /\ present \subseteq present' /\ present' \subseteq Ids /\ torn' \in BOOLEAN
      /\ synced' \in Nat /\ synced' <= bytes' /\ synced' <= dur[id]
      /\ bytes' <= Len(X) + Len(B)
      /\ ~torn' => bytes' = Len(X) + Len(B) /\ bytes' % 2 = 0
  <2>1. present \subseteq Ids /\ torn \in BOOLEAN
    BY <1>h DEF Disk
  <2>2. bytes' = Len(X) + Len(B) /\ bytes' <= bytes'
    BY <1>4, <1>6
  <2> QED  BY <1>0, <1>2, <1>6, <2>1, <2>2, Zenon
<1>9. /\ Disk' /\ Opened' /\ Carry /\ Safe
      /\ \A i \in Ids : Units(i)' = IF i = id THEN X \o B ELSE Units(i)
  BY <1>h, <1>0, <1>2, <1>4, <1>5, <1>6, <1>7, <1>8, StayStep, Zenon
<1>10. Grew(u)
  BY <1>4, <1>9, Zenon DEF Grew, Units
<1>11. Thread'
  BY <1>h, <1>0, <1>9, ThreadKept DEF Thread
<1> QED  BY <1>9, <1>10, <1>11 DEF u

\* The active segment's part of Disk, in one place.
LEMMA ActiveFacts ==
  Disk /\ Opened
  => /\ id \in Ids /\ id \in Nat /\ id \in present
     /\ seg[id] \in Seq(Unit) /\ Len(seg[id]) \in Nat /\ buf \in Seq(Unit) /\ Len(buf) \in Nat
     /\ dur[id] \in Nat /\ dur[id] <= Len(seg[id]) /\ bytes \in Nat
     /\ bytes <= Len(seg[id]) + Len(buf) /\ Len(buf) <= BufCap
<1>h. HAVE Disk /\ Opened
<1>1. id \in Ids /\ id \in Nat
  BY <1>h, WalAssumption DEF Disk, Opened, Ids
<1> QED  BY <1>h, <1>1 DEF Disk

\* WalWriter::append_bytes, Err.
LEMMA AppendFailStep ==
  ASSUME NEW n \in 1..2
  PROVE  Disk /\ Thread /\ Counted /\ AppendBytesFails(n)
         => /\ Disk' /\ Thread' /\ Safe /\ Opened'
            /\ \E k \in 0..(2 * n) : Grew(Take(Encoded(n), k))
<1>h. HAVE Disk /\ Thread /\ Counted /\ AppendBytesFails(n)
<1> DEFINE u == Encoded(n)
<1>0. /\ Opened /\ ~torn /\ sent + n <= MaxFrame /\ sent \in 0..MaxFrame /\ n \in Nat
      /\ stop' = stop
      /\ pc' = pc /\ cap' = cap /\ retry' = retry
  BY <1>h DEF AppendBytesFails, Counted, thread
<1>1. u \in Seq(Unit) /\ Len(u) = 2 * n
  BY <1>0, EncodedFacts, Zenon DEF Tidy
<1>2. /\ id \in Ids /\ seg[id] \in Seq(Unit) /\ buf \in Seq(Unit) /\ Len(seg[id]) \in Nat
      /\ Len(buf) \in Nat /\ bytes \in Nat /\ bytes <= Len(seg[id]) + Len(buf)
      /\ Len(buf) <= BufCap
  BY <1>h, <1>0, ActiveFacts
<1>3. PICK kinds \in RollFaults,
           s \in PartFlush(seg[id], buf) \cup
                 (IF Len(u) < BufCap THEN {}
                  ELSE {[file |-> seg[id] \o buf \o Take(u, k), buf |-> <<>>] :
                          k \in 0..(Len(u) - 1)}) :
             Roll(s.file, s.buf, TRUE, {"write"} \cup kinds)
  BY <1>h, Zenon DEF AppendBytesFails
<1> HIDE DEF u
<1>a. BufCap \in Nat /\ \A a, b, c \in Nat : a <= b /\ b <= c => a <= c
  BY WalAssumption
<1>4. PICK k \in 0..(2 * n) :
        /\ s.file \in Seq(Unit) /\ s.buf \in Seq(Unit) /\ Len(s.buf) <= BufCap
        /\ Begins(s.file, seg[id]) /\ bytes <= Len(s.file) + Len(s.buf)
        /\ s.file \o s.buf = (seg[id] \o buf) \o Take(u, k)
  <2>1. CASE s \in PartFlush(seg[id], buf)
    <3>1. /\ s.file \in Seq(Unit) /\ s.buf \in Seq(Unit)
          /\ Len(s.buf) <= Len(buf) /\ Len(s.file) + Len(s.buf) = Len(seg[id]) + Len(buf)
          /\ Begins(s.file, seg[id]) /\ s.file \o s.buf = seg[id] \o buf
      BY <1>2, <2>1, PartFlushed, Zenon
    <3>2. 0 \in 0..(2 * n) /\ 0 \in 0..Len(u)
      BY <1>0, <1>1
    <3>3. Take(u, 0) \in Seq(Unit) /\ Len(Take(u, 0)) = 0
      BY <1>1, <3>2, TakeDrop
    <3>4. Take(u, 0) = <<>>
      BY <3>3
    <3>5. seg[id] \o buf \in Seq(Unit)
      BY <1>2, Concatenated
    <3>6. (seg[id] \o buf) \o <<>> = seg[id] \o buf
      BY <3>5, Concatenated
    <3>7. Len(s.buf) \in Nat
      BY <3>1
    <3>8. Len(s.buf) <= BufCap
      BY <1>2, <1>a, <3>1, <3>7, Zenon
    <3> QED  BY <1>2, <3>1, <3>2, <3>4, <3>6, <3>8, Zenon
  <2>2. CASE s \notin PartFlush(seg[id], buf)
    <3>0. s \in {[file |-> seg[id] \o buf \o Take(u, k), buf |-> <<>>] : k \in 0..(Len(u) - 1)}
      BY <1>3, <2>2, Zenon
    <3>1. PICK k \in 0..(Len(u) - 1) :
            s = [file |-> (seg[id] \o buf) \o Take(u, k), buf |-> <<>>]
      BY <3>0, Zenon
    <3>2. k \in 0..(2 * n) /\ k \in 0..Len(u)
      BY <1>0, <1>1
    <3>3. Take(u, k) \in Seq(Unit) /\ Len(Take(u, k)) = k
      BY <1>1, <3>2, TakeDrop
    <3>4. /\ seg[id] \o buf \in Seq(Unit) /\ Len(seg[id] \o buf) = Len(seg[id]) + Len(buf)
          /\ Begins(seg[id] \o buf, seg[id])
      BY <1>2, Concatenated
    <3> DEFINE X == (seg[id] \o buf) \o Take(u, k)
    <3>5. /\ X \in Seq(Unit) /\ Len(X) = Len(seg[id] \o buf) + k /\ Begins(X, seg[id] \o buf)
          /\ X \o <<>> = X
      <4>1. X \in Seq(Unit) /\ Len(X) = Len(seg[id] \o buf) + k /\ Begins(X, seg[id] \o buf)
        BY <1>h, <3>3, <3>4, Concatenated, Zenon
      <4> QED  BY <4>1, Concatenated
    <3>6. Begins(X, seg[id])
      BY <1>2, <3>4, <3>5, BeginsTrans, Zenon
    <3>7. s.file = X /\ s.buf = <<>>
      BY <3>1, Zenon
    <3> HIDE DEF X
    <3>8. bytes <= Len(X) + 0
      BY <1>2, <3>2, <3>4, <3>5
    <3>9. <<>> \in Seq(Unit) /\ Len(<<>>) = 0 /\ 0 <= BufCap
      BY <1>a
    <3> QED  BY <3>2, <3>5, <3>6, <3>7, <3>8, <3>9, Zenon DEF X
  <2> QED  BY <2>1, <2>2, Zenon
<1>5. /\ Disk' /\ Opened' /\ Carry /\ Safe
      /\ \A i \in Ids : Units(i)' = IF i = id THEN s.file \o s.buf ELSE Units(i)
  BY <1>h, <1>0, <1>3, <1>4, RollStep, Zenon
<1>6. Grew(Take(u, k))
  <2>1. \A i \in Ids : i = id => Units(i) = seg[id] \o buf
    BY DEF Units
  <2>2. ASSUME NEW i \in Ids
        PROVE  Units(i)' = IF i = id THEN Units(i) \o Take(u, k) ELSE Units(i)
    BY <1>4, <1>5, <2>1, Zenon
  <2> QED  BY <2>2, Zenon DEF Grew
<1>7. Thread'
  BY <1>h, <1>0, <1>5, ThreadKept, Zenon DEF Thread
<1> QED  BY <1>4, <1>5, <1>6, <1>7, Zenon DEF u

\* A roll, whoever takes the lock for it: seal, or the committer.
LEMMA RollHere ==
  ASSUME NEW kinds
  PROVE  Disk /\ Opened /\ Roll(seg[id], buf, torn, kinds)
         => /\ Disk' /\ Opened' /\ Carry /\ Safe /\ Same
<1>h. HAVE Disk /\ Opened /\ Roll(seg[id], buf, torn, kinds)
<1>1. /\ id \in Ids /\ seg[id] \in Seq(Unit) /\ buf \in Seq(Unit) /\ Len(seg[id]) \in Nat
      /\ bytes <= Len(seg[id]) + Len(buf) /\ Len(buf) <= BufCap
  BY <1>h, ActiveFacts
<1>2. Begins(seg[id], seg[id])
  BY <1>1 DEF Begins
<1>3. torn \in BOOLEAN /\ (~torn => bytes = Len(seg[id]) + Len(buf) /\ bytes % 2 = 0)
  BY <1>h DEF Disk
<1>4. /\ Disk' /\ Opened' /\ Carry /\ Safe
      /\ \A i \in Ids : Units(i)' = IF i = id THEN seg[id] \o buf ELSE Units(i)
  BY <1>h, <1>1, <1>2, <1>3, RollStep, Zenon
<1>5. Same
  BY <1>4, Zenon DEF Same, Units
<1> QED  BY <1>4, <1>5

\* WalWriter::seal.
LEMMA SealStep ==
  Disk /\ Thread /\ Seal
  => Disk' /\ Thread' /\ Safe /\ Opened' /\ Same
<1>h. HAVE Disk /\ Thread /\ Seal
<1>1. PICK kinds \in RollFaults : Roll(seg[id], buf, torn, kinds)
  BY <1>h DEF Seal
<1>2. /\ Disk' /\ Opened' /\ Carry /\ Safe /\ Same
  BY <1>h, <1>1, RollHere DEF Seal
<1>3. /\ Opened /\ stop' = stop /\ pc' = pc /\ cap' = cap /\ retry' = retry
  BY <1>h DEF Seal, thread, hist
<1>4. Thread'
  BY <1>h, <1>2, <1>3, ThreadKept DEF Thread
<1> QED  BY <1>2, <1>4

\* The committer rolls a full or a torn segment.
LEMMA CommitterRollStep ==
  Disk /\ Thread /\ CommitterRoll
  => Disk' /\ Thread' /\ Safe /\ Opened' /\ Same
<1>h. HAVE Disk /\ Thread /\ CommitterRoll
<1>1. /\ Opened /\ stop' = stop /\ pc' = "wait" /\ cap' = cap /\ retry' = retry
  BY <1>h DEF CommitterRoll, Thread, hist
<1>2. CASE bytes >= SegMax \/ torn
  <2>1. PICK kinds \in RollFaults : Roll(seg[id], buf, torn, kinds)
    BY <1>h, <1>2 DEF CommitterRoll
  <2>2. /\ Disk' /\ Opened' /\ Carry /\ Safe /\ Same
    BY <1>h, <1>1, <2>1, RollHere
  <2>3. Thread'
    BY <1>h, <1>1, <2>2, ThreadKept DEF Thread
  <2> QED  BY <2>2, <2>3
<1>3. CASE ~(bytes >= SegMax \/ torn)
  <2>1. UNCHANGED <<present, seg, dur, id, buf, bytes, synced, torn>>
    BY <1>h, <1>3 DEF CommitterRoll, disk, active
  <2>2. Disk' /\ Opened'
    BY <1>h, <1>1, <2>1 DEF Disk, Opened
  <2>3. Safe /\ Same
    BY <1>h, <2>1 DEF Safe, Same, Units, Disk
  <2>4. Thread'
    BY <1>h, <1>1, <2>1, <2>2 DEF Thread
  <2> QED  BY <2>2, <2>3, <2>4
<1> QED  BY <1>2, <1>3

\* The steps that only move the committer, or ask it to stop.
LEMMA QuietStep ==
  Disk /\ Thread /\ (CloseBegin \/ CommitterStop \/ CommitterIdle)
  => Disk' /\ Thread' /\ Safe /\ Opened' /\ Same
<1>h. HAVE Disk /\ Thread /\ (CloseBegin \/ CommitterStop \/ CommitterIdle)
<1>1. /\ UNCHANGED <<present, seg, dur, id, buf, bytes, synced, torn>>
      /\ cap' = cap /\ retry' = retry
      /\ stop' \in BOOLEAN /\ Opened
      /\ pc' = pc \/ pc' \in {"roll", "gone"}
  BY <1>h, Zenon DEF CloseBegin, CommitterStop, CommitterIdle, disk, active, thread, hist, Thread
<1>3. Disk' /\ Opened'
  BY <1>h, <1>1 DEF Disk, Opened
<1>4. Safe /\ Same
  BY <1>h, <1>1 DEF Safe, Same, Units, Disk
<1>5. Thread'
  BY <1>h, <1>1, <1>3 DEF Thread, Opened
<1> QED  BY <1>3, <1>4, <1>5
=============================================================================
