---------------------- MODULE SegmentedDownloadProofs ----------------------
(* The engine keeps its segments apart and its journal honest, and delivers  *)
(* the file whole, for every size of file, number of connections and retries.*)
EXTENDS SegmentedDownload, FiniteSetTheorems, WellFoundedInduction, TLAPS

---------------------------------------------------------------------------
(* The sum of what the segments count *)

\* The library's induction theorems take an operator; the least element of a set
\* is induction without one.
LEMMA LeastNat ==
  ASSUME NEW T, T \subseteq Nat, T # {}
  PROVE  \E n \in T : \A m \in T : n <= m
<1> DEFINE R == OpToRel(<, Nat)
<1>1. IsWellFoundedOn(R, Nat) BY NatLessThanWellFounded
<1>2. \A i, j \in Nat : <<i, j>> \in R <=> i < j BY DEF OpToRel
<1> HIDE DEF R
<1>3. PICK n \in T : \A m \in T : ~ (<<m, n>> \in R) BY <1>1, WFMin
<1>4. n \in Nat /\ \A m \in T : m \in Nat /\ ~ (m < n) BY <1>2, <1>3
<1>5. \A m \in T : n <= m
  <2> SUFFICES ASSUME NEW m \in T PROVE n <= m
    OBVIOUS
  <2>1. m \in Nat /\ ~ (m < n) BY <1>4
  <2> QED BY SMT, <1>4, <2>1
<1> QED BY <1>5

LEMMA LeastSubset ==
  ASSUME NEW D, IsFiniteSet(D), NEW T, T \subseteq SUBSET D, T # {}
  PROVE  \E s \in T : \A u \in SUBSET s : u # s => u \notin T
<1> DEFINE size(s) == Cardinality(s)
           N == {size(s) : s \in T}
<1>1. \A s \in T : IsFiniteSet(s) /\ size(s) \in Nat BY FS_Subset, FS_CardinalityType
<1>2. PICK n \in N : \A m \in N : n <= m
  <2>1. N \subseteq Nat /\ N # {} BY <1>1
  <2> HIDE DEF N
  <2> QED BY <2>1, LeastNat
<1>3. PICK s \in T : size(s) = n BY <1>2
<1>4. ASSUME NEW u \in SUBSET s, u # s, u \in T PROVE FALSE
  <2>1. IsFiniteSet(s) /\ size(s) \in Nat /\ size(u) \in Nat BY <1>1, <1>4
  <2>2. size(s) <= size(u) BY <1>2, <1>3, <1>4
  <2>3. size(u) <= size(s) /\ (size(s) = size(u) => s = u) BY <1>4, <2>1, FS_Subset
  <2> HIDE DEF size
  <2>4. size(s) = size(u) BY SMT, <2>1, <2>2, <2>3
  <2> QED BY <1>4, <2>3, <2>4
<1> QED BY <1>4

OneOf(s) == CHOOSE x \in s : TRUE
Sums(f, g) ==
  g = [s \in SUBSET DOMAIN f |-> IF s = {} THEN 0 ELSE f[OneOf(s)] + g[s \ {OneOf(s)}]]
Total(f) == (CHOOSE g : Sums(f, g))[DOMAIN f]

LEMMA SumIsTotal ==
  ASSUME NEW ss PROVE SumDone(ss) = Total([k \in DOMAIN ss |-> ss[k].done])
BY DEF SumDone, FoldFunction, FoldFunctionOnSet, MapThenFoldSet, Total, Sums, OneOf

Numbers(f) == IsFiniteSet(DOMAIN f) /\ \A x \in DOMAIN f : f[x] \in Nat

LEMMA SumsExist ==
  ASSUME NEW f, Numbers(f)
  PROVE  \E g : Sums(f, g)
<1> DEFINE D == DOMAIN f
           Small(n) == {s \in SUBSET D : Cardinality(s) <= n}
           Step(h, s) == IF s = {} THEN 0 ELSE f[OneOf(s)] + h[s \ {OneOf(s)}]
           Upto(n, h) == h = [s \in Small(n) |-> Step(h, s)]
           Bad == {n \in Nat : ~ \E h : Upto(n, h)}
<1>0. \A s \in SUBSET D : IsFiniteSet(s) /\ Cardinality(s) \in Nat
  BY FS_Subset, FS_CardinalityType DEF Numbers
<1>1. \A s \in SUBSET D : s # {} => OneOf(s) \in s BY DEF OneOf
<1>2. \A s \in SUBSET D : s # {} =>
        s \ {OneOf(s)} \in SUBSET D /\ Cardinality(s \ {OneOf(s)}) = Cardinality(s) - 1
  BY <1>0, <1>1, FS_RemoveElement
<1>3. Bad = {}
  <2> SUFFICES ASSUME Bad # {} PROVE FALSE
    OBVIOUS
  <2>1. PICK n \in Bad : \A m \in Bad : n <= m
    <3>1. Bad \subseteq Nat OBVIOUS
    <3> HIDE DEF Bad
    <3> QED BY <3>1, LeastNat
  <2>2. CASE n = 0
    <3> DEFINE h == [s \in Small(0) |-> 0]
    <3>1. \A s \in Small(0) : s = {}
      <4> SUFFICES ASSUME NEW s \in Small(0) PROVE s = {}
        OBVIOUS
      <4>1. Cardinality(s) = 0 BY <1>0
      <4> QED BY <1>0, <4>1, FS_EmptySet
    <3>2. Upto(0, h) BY <3>1
    <3> QED BY <2>1, <2>2, <3>2
  <2>3. CASE n # 0
    <3>1. n \in Nat /\ n - 1 \in Nat /\ ~ (n <= n - 1) BY <2>3
    <3>2. n - 1 \notin Bad BY <2>1, <3>1
    <3>3. PICK h : Upto(n - 1, h) BY <3>1, <3>2
    <3> DEFINE g == [s \in Small(n) |-> Step(h, s)]
    <3>4. \A s \in Small(n - 1) : s \in Small(n) /\ g[s] = h[s]
      <4>1. \A s \in Small(n - 1) : s \in Small(n) BY <1>0, <3>1
      <4>2. \A s \in Small(n - 1) : h[s] = Step(h, s) BY <3>3
      <4> QED BY <4>1, <4>2
    <3>5. \A s \in Small(n) : s # {} => s \ {OneOf(s)} \in Small(n - 1)
      BY <1>0, <1>2, <3>1
    <3>6. \A s \in Small(n) : Step(h, s) = Step(g, s) BY <3>4, <3>5
    <3>7. Upto(n, g) BY <3>6
    <3> QED BY <2>1, <3>1, <3>7
  <2> QED BY <2>2, <2>3
<1>4. PICK n \in Nat : n = Cardinality(D) BY FS_CardinalityType DEF Numbers
<1>5. PICK h : Upto(n, h) BY <1>3
<1>6. Small(n) = SUBSET D BY <1>4, FS_Subset DEF Numbers
<1>7. Sums(f, h) BY <1>5, <1>6 DEF Sums
<1> QED BY <1>7

LEMMA TotalUnfolds ==
  ASSUME NEW f, Numbers(f)
  PROVE  LET g == CHOOSE g : Sums(f, g) IN
         /\ Total(f) = g[DOMAIN f] /\ g[{}] = 0
         /\ \A s \in SUBSET DOMAIN f :
              s # {} => OneOf(s) \in s /\ g[s] = f[OneOf(s)] + g[s \ {OneOf(s)}]
<1> DEFINE g == CHOOSE g : Sums(f, g)
<1>1. Sums(f, g) BY SumsExist
<1>2. Total(f) = g[DOMAIN f] BY DEF Total
<1> HIDE DEF g
<1>3. \A s \in SUBSET DOMAIN f :
        g[s] = IF s = {} THEN 0 ELSE f[OneOf(s)] + g[s \ {OneOf(s)}]
  BY <1>1 DEF Sums
<1>4. \A s \in SUBSET DOMAIN f : s # {} => OneOf(s) \in s BY DEF OneOf
<1> QED BY <1>2, <1>3, <1>4 DEF g

LEMMA TotalNat ==
  ASSUME NEW f, Numbers(f)
  PROVE  Total(f) \in Nat
<1> DEFINE g == CHOOSE g : Sums(f, g)
           D == DOMAIN f
           Bad == {s \in SUBSET D : g[s] \notin Nat}
<1>1. /\ Total(f) = g[D] /\ g[{}] = 0
      /\ \A s \in SUBSET D :
           s # {} => OneOf(s) \in s /\ g[s] = f[OneOf(s)] + g[s \ {OneOf(s)}]
  BY TotalUnfolds
<1> HIDE DEF g
<1>2. Bad = {}
  <2> SUFFICES ASSUME Bad # {} PROVE FALSE
    OBVIOUS
  <2>1. IsFiniteSet(D) /\ Bad \subseteq SUBSET D BY DEF Numbers
  <2> HIDE DEF Bad
  <2>2. PICK s \in Bad : \A u \in SUBSET s : u # s => u \notin Bad BY <2>1, LeastSubset
  <2> USE DEF Bad
  <2>3. s \in SUBSET D /\ g[s] \notin Nat OBVIOUS
  <2>4. s # {}
    <3>1. g[{}] \in Nat BY <1>1
    <3> QED BY <2>3, <3>1
  <2>5. g[s \ {OneOf(s)}] \in Nat BY <1>1, <2>2, <2>3, <2>4
  <2>6. f[OneOf(s)] \in Nat BY <1>1, <2>3, <2>4 DEF Numbers
  <2>7. g[s] = f[OneOf(s)] + g[s \ {OneOf(s)}] BY <1>1, <2>3, <2>4
  <2> QED BY SMT, <2>3, <2>5, <2>6, <2>7
<1> QED BY <1>1, <1>2

\* One entry grows by one, and so does the sum.
LEMMA TotalGrows ==
  ASSUME NEW f, Numbers(f), NEW k \in DOMAIN f, NEW h, DOMAIN h = DOMAIN f,
         h[k] = f[k] + 1, \A x \in DOMAIN f : x # k => h[x] = f[x]
  PROVE  Total(h) = Total(f) + 1
<1> DEFINE g == CHOOSE g : Sums(f, g)
           e == CHOOSE e : Sums(h, e)
           D == DOMAIN f
           More(s) == IF k \in s THEN 1 ELSE 0
           Bad == {s \in SUBSET D : ~ (g[s] \in Nat /\ e[s] = g[s] + More(s))}
<1>1. /\ Total(f) = g[D] /\ g[{}] = 0
      /\ \A s \in SUBSET D :
           s # {} => OneOf(s) \in s /\ g[s] = f[OneOf(s)] + g[s \ {OneOf(s)}]
  BY TotalUnfolds
<1>2. \A x \in D : f[x] \in Nat BY DEF Numbers
<1>3. Numbers(h)
  <2>1. h[k] \in Nat BY <1>2
  <2> QED BY <1>2, <2>1 DEF Numbers
<1>4. /\ Total(h) = e[D] /\ e[{}] = 0
      /\ \A s \in SUBSET D :
           s # {} => OneOf(s) \in s /\ e[s] = h[OneOf(s)] + e[s \ {OneOf(s)}]
  BY <1>3, TotalUnfolds
<1> HIDE DEF g, e
<1>5. Bad = {}
  <2> SUFFICES ASSUME Bad # {} PROVE FALSE
    OBVIOUS
  <2>1. IsFiniteSet(D) /\ Bad \subseteq SUBSET D BY DEF Numbers
  <2> HIDE DEF Bad
  <2>2. PICK s \in Bad : \A u \in SUBSET s : u # s => u \notin Bad BY <2>1, LeastSubset
  <2> USE DEF Bad
  <2> DEFINE x == OneOf(s)
             r == s \ {x}
  <2>3. s \in SUBSET D OBVIOUS
  <2>4. s # {}
    <3>1. g[{}] \in Nat /\ e[{}] = g[{}] + 0 /\ k \notin {} BY <1>1, <1>4
    <3>2. ~ (g[s] \in Nat /\ e[s] = g[s] + More(s)) BY <2>2
    <3> QED BY <3>1, <3>2
  <2>5. x \in s /\ x \in D /\ r \in SUBSET D /\ r # s /\ g[s] = f[x] + g[r] /\ e[s] = h[x] + e[r]
    BY <1>1, <1>4, <2>3, <2>4
  <2>6. g[r] \in Nat /\ e[r] = g[r] + More(r) BY <2>2, <2>5
  <2>7. f[x] \in Nat BY <1>2, <2>5
  <2>8. ~ (g[s] \in Nat /\ e[s] = g[s] + More(s)) BY <2>2
  <2> HIDE DEF x, Bad
  <2>9. CASE x = k
    <3>1. More(s) = 1 /\ More(r) = 0 /\ h[x] = f[x] + 1 BY <2>5, <2>9
    <3> HIDE DEF More, r
    <3> QED BY SMT, <2>5, <2>6, <2>7, <2>8, <3>1
  <2>10. CASE x # k
    <3>1. More(s) = More(r) /\ More(r) \in {0, 1} /\ h[x] = f[x] BY <2>5, <2>10
    <3> HIDE DEF More, r
    <3> QED BY SMT, <2>5, <2>6, <2>7, <2>8, <3>1
  <2> QED BY <2>9, <2>10
<1>6. D \in SUBSET D /\ k \in D OBVIOUS
<1> QED BY <1>1, <1>4, <1>5, <1>6

LEMMA TotalOfOne ==
  ASSUME NEW f, DOMAIN f = {1}, f[1] = 0
  PROVE  Total(f) = 0
<1>1. Numbers(f)
  <2>1. IsFiniteSet({1}) BY FS_Singleton
  <2>2. 0 \in Nat OBVIOUS
  <2> QED BY <2>1, <2>2 DEF Numbers
<1> DEFINE g == CHOOSE g : Sums(f, g)
<1>2. /\ Total(f) = g[{1}] /\ g[{}] = 0
      /\ \A s \in SUBSET {1} :
           s # {} => OneOf(s) \in s /\ g[s] = f[OneOf(s)] + g[s \ {OneOf(s)}]
  BY <1>1, TotalUnfolds
<1> HIDE DEF g
<1>3. OneOf({1}) = 1 /\ g[{1}] = f[OneOf({1})] + g[{1} \ {OneOf({1})}] BY <1>2
<1>4. {1} \ {OneOf({1})} = {} BY <1>3
<1> QED BY <1>2, <1>3, <1>4

LEMMA SegmentsCounted ==
  ASSUME NEW ss \in Seq(Segment)
  PROVE  SumDone(ss) \in Nat /\ Numbers([k \in DOMAIN ss |-> ss[k].done])
<1> DEFINE f == [k \in DOMAIN ss |-> ss[k].done]
<1>1. Len(ss) \in Nat /\ DOMAIN ss = 1 .. Len(ss) /\ \A k \in DOMAIN ss : ss[k] \in Segment
  BY SMT
<1>2. IsFiniteSet(DOMAIN ss) BY <1>1, FS_Interval
<1>3. \A k \in DOMAIN ss : ss[k].done \in Nat
  <2> SUFFICES ASSUME NEW k \in DOMAIN ss PROVE ss[k].done \in Nat
    OBVIOUS
  <2>1. ss[k].done \in 0 .. FileSize + Slack BY <1>1 DEF Segment
  <2> QED BY SMT, <2>1, SizeAssumption
<1>4. Numbers(f) BY <1>2, <1>3 DEF Numbers
<1>5. SumDone(ss) = Total(f) BY SumIsTotal
<1> QED BY <1>4, <1>5, TotalNat

LEMMA SumSame ==
  ASSUME NEW ss, NEW tt, DOMAIN tt = DOMAIN ss, \A k \in DOMAIN ss : tt[k].done = ss[k].done
  PROVE  SumDone(tt) = SumDone(ss)
<1>1. [k \in DOMAIN tt |-> tt[k].done] = [k \in DOMAIN ss |-> ss[k].done] OBVIOUS
<1> QED BY <1>1, SumIsTotal

LEMMA SumGrows ==
  ASSUME NEW ss \in Seq(Segment), NEW k \in DOMAIN ss, NEW tt, DOMAIN tt = DOMAIN ss,
         tt[k].done = ss[k].done + 1, \A j \in DOMAIN ss : j # k => tt[j] = ss[j]
  PROVE  SumDone(tt) = SumDone(ss) + 1
<1> DEFINE f == [j \in DOMAIN ss |-> ss[j].done]
           h == [j \in DOMAIN tt |-> tt[j].done]
<1>1. Numbers(f) BY SegmentsCounted
<1>2. DOMAIN f = DOMAIN ss /\ DOMAIN h = DOMAIN f /\ h[k] = f[k] + 1
      /\ \A j \in DOMAIN f : j # k => h[j] = f[j]
  OBVIOUS
<1>3. SumDone(ss) = Total(f) /\ SumDone(tt) = Total(h) BY SumIsTotal
<1> HIDE DEF f, h
<1>4. Total(h) = Total(f) + 1 BY <1>1, <1>2, TotalGrows
<1> QED BY <1>3, <1>4

LEMMA SumOfNothing ==
  ASSUME NEW ss, DOMAIN ss = {1}, ss[1].done = 0
  PROVE  SumDone(ss) = 0
<1> DEFINE f == [k \in DOMAIN ss |-> ss[k].done]
<1>1. DOMAIN f = {1} /\ f[1] = 0 /\ SumDone(ss) = Total(f) BY SumIsTotal
<1> QED BY <1>1, TotalOfOne

---------------------------------------------------------------------------
(* The shape of a plan, of the segments that run and of a journal *)

\* What a journal keeps of a segment.
Saved == [start : 0 .. FileSize - 1, end : -1 .. FileSize - 1, done : 0 .. FileSize + Slack]

Typed ==
  /\ part \in File /\ final \in File
  /\ journal \in [total : {-1, FileSize}, segs : Seq(Saved)]
  /\ pc \in {"idle", "multi", "returned", "renamed", "cleaning"}
  /\ total \in {-1, FileSize} /\ segs \in Seq(Segment) /\ downloaded \in Nat
  /\ resumable \in BOOLEAN /\ rangeIgnored \in BOOLEAN /\ ioError \in BOOLEAN
  /\ fellBack \in BOOLEAN /\ cancel \in BOOLEAN /\ rc \in Results

\* One segment with an open end, or pieces that tile the file. That pieces which
\* tile also cover is carried along: it is how a whole file is recognised.
OneStream(ss) == Len(ss) = 1 /\ ss[1].start = 0 /\ ss[1].end = -1
Covers(ss) ==
  \A o \in 0 .. FileSize - 1 : \E k \in DOMAIN ss : ss[k].start <= o /\ o <= ss[k].end
Within(s) == s.start <= s.end /\ s.done <= Span(s)
Pieces(ss) == Tiles(ss, FileSize) /\ Covers(ss) /\ \A k \in DOMAIN ss : Within(ss[k])
Shaped(ss) == OneStream(ss) \/ Pieces(ss)

EngineInv ==
  /\ Typed
  /\ pc \in {"multi", "returned", "renamed"} => Shaped(segs)
  /\ pc \in {"multi", "returned"} => downloaded = SumDone(segs)
  /\ journal.segs # <<>> => Shaped(journal.segs)

---------------------------------------------------------------------------
(* Planning *)

LEMMA DivBounds ==
  ASSUME NEW t \in Nat, NEW n \in Nat, n >= 1
  PROVE  /\ t \div n \in Nat
         /\ n * (t \div n) <= t /\ t < n * (t \div n) + n
         /\ n <= t => t \div n >= 1
BY SMT

LEMMA TimesMonotone ==
  ASSUME NEW a \in Nat, NEW b \in Nat, NEW c \in Nat, a <= b
  PROVE  a * c <= b * c
BY SMT

LEMMA TimesStep ==
  ASSUME NEW a \in Int, NEW c \in Int
  PROVE  a * c \in Int /\ (a - 1) * c = a * c - c /\ (a + 1) * c = a * c + c
BY SMT

\* A file is split only where its size is known, and into no more pieces than it
\* has units.
LEMMA PiecesFit ==
  ASSUME NEW t \in {-1, FileSize}, NEW r \in BOOLEAN, PieceCount(t, r) # 1
  PROVE  t = FileSize /\ PieceCount(t, r) \in Nat /\ 1 < PieceCount(t, r) /\ PieceCount(t, r) <= t
<1> DEFINE d == t \div MinSplit
<1>1. t >= MinSplit /\ Connections > 1 BY DEF PieceCount
<1>2. t = FileSize /\ t \in Nat BY <1>1, SizeAssumption
<1>3. d \in Nat /\ MinSplit * d <= t BY <1>2, SizeAssumption, DivBounds
<1>4. d <= MinSplit * d
  <2>1. d \in Nat /\ 1 <= MinSplit /\ MinSplit \in Nat BY <1>3, SizeAssumption
  <2>2. 1 * d <= MinSplit * d BY <2>1, TimesMonotone
  <2> HIDE DEF d
  <2> QED BY SMT, <2>1, <2>2
<1>5. PieceCount(t, r) \in {IF d < 1 THEN 1 ELSE d, Connections}
      /\ PieceCount(t, r) <= (IF d < 1 THEN 1 ELSE d)
  <2> HIDE DEF d
  <2> QED BY SMT, <1>1, <1>3, SizeAssumption DEF PieceCount, d
<1> HIDE DEF d
<1>6. MinSplit * d \in Int BY SMT, <1>3, SizeAssumption
<1> QED BY SMT, <1>2, <1>3, <1>4, <1>5, <1>6, SizeAssumption

\* Offset o of a file of t units lies in a piece of every equal split.
LEMMA PieceFound ==
  ASSUME NEW t \in Nat, NEW n \in Nat, 1 < n, n <= t, NEW o \in Nat, o < t
  PROVE  \E k \in 1 .. n : /\ (k - 1) * (t \div n) <= o
                           /\ o <= IF k = n THEN t - 1 ELSE k * (t \div n) - 1
<1> DEFINE c == t \div n
           q == o \div c
<1>1. c \in Nat /\ c >= 1 /\ n * c <= t BY DivBounds
<1> HIDE DEF c
<1>2. q \in Nat /\ c * q <= o /\ o < c * q + c BY <1>1, DivBounds
<1> HIDE DEF q
<1>3. CASE q < n
  <2> DEFINE k == q + 1
  <2>1. k \in 1 .. n /\ k - 1 = q BY SMT, <1>2, <1>3
  <2>2. (k - 1) * c = c * q BY SMT, <1>1, <1>2, <2>1
  <2>3. k * c = c * q + c BY SMT, <1>1, <1>2
  <2> HIDE DEF k
  <2>4. c * q \in Int BY SMT, <1>1, <1>2
  <2>5. (k - 1) * c <= o BY <1>2, <2>2
  <2>6. o <= k * c - 1 BY SMT, <1>1, <1>2, <2>3, <2>4
  <2>7. o <= IF k = n THEN t - 1 ELSE k * c - 1 BY SMT, <2>6
  <2> QED BY <2>1, <2>5, <2>7 DEF c
<1>4. CASE q >= n
  <2>1. n \in 1 .. n BY SMT
  <2>2. n * c <= q * c BY <1>1, <1>2, <1>4, TimesMonotone
  <2>3. (n - 1) * c = n * c - c /\ n * c \in Int BY <1>1, TimesStep
  <2>4. q * c = c * q /\ c * q \in Int BY SMT, <1>1, <1>2
  <2>5. (n - 1) * c <= o BY SMT, <1>1, <1>2, <2>2, <2>3, <2>4
  <2>6. o <= IF n = n THEN t - 1 ELSE n * c - 1 BY SMT
  <2> QED BY <2>1, <2>5, <2>6 DEF c
<1> QED BY <1>2, <1>3, <1>4, SMT

Fresh(s) == s.done = 0 /\ s.st = "closed"

LEMMA SingleShaped ==
  Single \in Seq(Segment) /\ Shaped(Single) /\ \A k \in DOMAIN Single : Fresh(Single[k])
<1> DEFINE s == Planned(0, -1, 0)
<1>1. s \in Segment /\ s.start = 0 /\ s.end = -1 /\ Fresh(s)
  BY SMT, SizeAssumption DEF Segment, Planned, Replies, Fresh
<1>2. Single = <<s>> BY DEF Single
<1> HIDE DEF s
<1>3. <<s>> \in Seq(Segment) /\ Len(<<s>>) = 1 /\ DOMAIN <<s>> = 1 .. 1 /\ <<s>>[1] = s
  BY SMT, <1>1
<1> QED BY SMT, <1>1, <1>2, <1>3 DEF Shaped, OneStream

LEMMA PlanShaped ==
  ASSUME NEW t \in {-1, FileSize}, NEW r \in BOOLEAN
  PROVE  /\ Plan(t, r) \in Seq(Segment) /\ Shaped(Plan(t, r))
         /\ \A k \in DOMAIN Plan(t, r) : Fresh(Plan(t, r)[k])
<1> DEFINE n == PieceCount(t, r)
           c == t \div n
           from(k) == (k - 1) * c
           to(k) == IF k = n THEN t - 1 ELSE k * c - 1
           p == [k \in 1 .. n |-> Planned(from(k), to(k), 0)]
<1>1. CASE n = 1
  <2>1. Plan(t, r) = Single BY <1>1 DEF Plan
  <2> QED BY <2>1, SingleShaped
<1>2. CASE n # 1
  <2>1. t = FileSize /\ n \in Nat /\ 1 < n /\ n <= t BY <1>2, PiecesFit
  <2>2. Plan(t, r) = p BY <1>2 DEF Plan
  <2>3. t \in Nat /\ c \in Nat /\ c >= 1 /\ n * c <= t BY <2>1, SizeAssumption, DivBounds
  <2> HIDE DEF c, n
  <2>4. \A k \in 1 .. n : from(k) \in Nat /\ to(k) \in Nat /\ from(k) <= to(k) /\ to(k) < t
    <3> SUFFICES ASSUME NEW k \in 1 .. n
                 PROVE  from(k) \in Nat /\ to(k) \in Nat /\ from(k) <= to(k) /\ to(k) < t
      OBVIOUS
    <3>1. k \in Nat /\ 1 <= k /\ k <= n /\ k - 1 \in Nat BY SMT, <2>1
    <3>2. k * c \in Int /\ (k - 1) * c = k * c - c BY <2>3, <3>1, TimesStep
    <3>3. k * c <= n * c BY <2>1, <2>3, <3>1, TimesMonotone
    <3>4. 1 * c <= k * c BY <2>3, <3>1, TimesMonotone
    <3>5. n * c \in Int BY SMT, <2>1, <2>3
    <3>6. from(k) \in Nat /\ from(k) + c = k * c BY SMT, <2>3, <3>2, <3>4
    <3> HIDE DEF from
    <3>7. k * c - 1 <= t - 1 /\ from(k) <= k * c - 1 BY SMT, <2>3, <3>2, <3>3, <3>5, <3>6
    <3> QED BY SMT, <2>3, <3>2, <3>6, <3>7
  <2>5. \A k \in 2 .. n : from(k) = to(k - 1) + 1
    <3> SUFFICES ASSUME NEW k \in 2 .. n PROVE (k - 1) * c = to(k - 1) + 1
      OBVIOUS
    <3>1. k - 1 # n /\ (k - 1) * c \in Int BY SMT, <2>1, <2>3
    <3> QED BY SMT, <3>1
  <2>6. from(1) = 0 /\ to(n) = t - 1 BY SMT, <2>1, <2>3
  <2>7. \A o \in 0 .. t - 1 : \E k \in 1 .. n : from(k) <= o /\ o <= to(k)
    <3> SUFFICES ASSUME NEW o \in 0 .. t - 1
                 PROVE  \E k \in 1 .. n : from(k) <= o /\ o <= to(k)
      OBVIOUS
    <3>1. o \in Nat /\ o < t BY SMT, <2>3
    <3> QED BY <2>1, <2>3, <3>1, PieceFound DEF c
  <2> HIDE DEF from, to
  <2>8. \A k \in 1 .. n : /\ p[k] \in Segment /\ Fresh(p[k]) /\ Within(p[k])
                         /\ p[k].start = from(k) /\ p[k].end = to(k)
    <3> SUFFICES ASSUME NEW k \in 1 .. n
                 PROVE  LET s == Planned(from(k), to(k), 0) IN
                        /\ s \in Segment /\ Fresh(s) /\ Within(s)
                        /\ s.start = from(k) /\ s.end = to(k)
      OBVIOUS
    <3>1. from(k) \in 0 .. FileSize - 1 /\ to(k) \in -1 .. FileSize - 1 /\ from(k) <= to(k)
      BY SMT, <2>1, <2>4, SizeAssumption
    <3>2. 0 \in 0 .. FileSize + Slack /\ 0 \in 0 .. MaxRetries /\ 0 \in 0 .. FileSize + ErrorBody
      BY SMT, SizeAssumption
    <3>3. Planned(from(k), to(k), 0) \in Segment BY <3>1, <3>2 DEF Planned, Segment, Replies
    <3> QED BY SMT, <3>1, <3>3 DEF Planned, Fresh, Within, Span
  <2> DEFINE q == p
  <2>9. q \in [1 .. n -> Segment] BY <2>8
  <2>10. q \in Seq(Segment) /\ Len(q) = n /\ DOMAIN q = 1 .. n BY SMT, <2>1, <2>9
  <2>11. 1 \in 1 .. n /\ n \in 1 .. n /\ \A k \in 2 .. n : k \in 1 .. n /\ k - 1 \in 1 .. n
    BY SMT, <2>1
  <2> HIDE DEF q
  <2>12. q # <<>> BY SMT, <2>1, <2>10
  <2>13. Tiles(q, FileSize)
    BY <2>1, <2>5, <2>6, <2>8, <2>10, <2>11, <2>12 DEF Tiles, q
  <2>14. Covers(q) BY <2>1, <2>7, <2>8, <2>10 DEF Covers, q
  <2> QED BY <2>2, <2>8, <2>10, <2>13, <2>14 DEF Shaped, Pieces, q
<1> QED BY <1>1, <1>2

---------------------------------------------------------------------------
(* What keeps a shape *)

\* tt has the bounds of ss, segment by segment.
SameBounds(ss, tt) ==
  /\ Len(tt) = Len(ss) /\ DOMAIN tt = DOMAIN ss
  /\ \A k \in DOMAIN ss : tt[k].start = ss[k].start /\ tt[k].end = ss[k].end

LEMMA ShapeKept ==
  ASSUME NEW S, NEW ss \in Seq(S), NEW T, NEW tt \in Seq(T), SameBounds(ss, tt), Shaped(ss),
         Pieces(ss) => \A k \in DOMAIN ss : Within(tt[k])
  PROVE  Shaped(tt)
<1>1. Len(ss) \in Nat /\ DOMAIN ss = 1 .. Len(ss) BY SMT
<1>2. CASE OneStream(ss)
  <2>1. 1 \in DOMAIN ss BY SMT, <1>1, <1>2 DEF OneStream
  <2> QED BY <1>2, <2>1 DEF OneStream, Shaped, SameBounds
<1>3. CASE Pieces(ss)
  <2>1. ss # <<>> BY <1>3 DEF Pieces, Tiles
  <2>2. Len(ss) >= 1 BY SMT, <1>1, <2>1
  <2>3. tt # <<>> BY SMT, <2>2 DEF SameBounds
  <2>4. 1 \in DOMAIN ss /\ Len(ss) \in DOMAIN ss
        /\ \A k \in 2 .. Len(ss) : k \in DOMAIN ss /\ k - 1 \in DOMAIN ss
    BY SMT, <1>1, <2>2
  <2>5. Tiles(tt, FileSize) BY <1>3, <2>3, <2>4 DEF Pieces, Tiles, SameBounds
  <2>6. Covers(tt) BY <1>3 DEF Pieces, Covers, SameBounds
  <2> QED BY <1>3, <2>5, <2>6 DEF Shaped, Pieces, SameBounds
<1> QED BY <1>2, <1>3 DEF Shaped

\* A journal that fits is resumed as it says.
LEMMA ResumedShaped ==
  ASSUME Typed, NEW t \in {-1, FileSize}, Fits(journal, t), Shaped(journal.segs)
  PROVE  /\ t = FileSize /\ Resumed(journal) \in Seq(Segment) /\ Shaped(Resumed(journal))
         /\ SameBounds(journal.segs, Resumed(journal))
         /\ \A k \in DOMAIN journal.segs : /\ Resumed(journal)[k].done = journal.segs[k].done
                                           /\ Resumed(journal)[k].st = "closed"
<1> DEFINE js == journal.segs
           ss == Resumed(journal)
<1>1. t = FileSize BY SMT, SizeAssumption DEF Fits
<1>2. js \in Seq(Saved) BY DEF Typed
<1>3. Len(js) \in Nat /\ DOMAIN js = 1 .. Len(js) BY SMT, <1>2
<1>4. ss = [k \in 1 .. Len(js) |-> Planned(js[k].start, js[k].end, js[k].done)]
  BY <1>3 DEF Resumed
<1>5. \A k \in DOMAIN js : js[k] \in Saved BY SMT, <1>2
<1>6. \A k \in DOMAIN js : Within(js[k]) BY DEF Fits, Within
<1> HIDE DEF ss
<1>7. \A k \in DOMAIN js : /\ ss[k] \in Segment /\ Within(ss[k])
                           /\ ss[k].start = js[k].start /\ ss[k].end = js[k].end
                           /\ ss[k].done = js[k].done /\ ss[k].st = "closed"
  <2> SUFFICES ASSUME NEW k \in DOMAIN js
               PROVE  /\ ss[k] \in Segment /\ Within(ss[k])
                      /\ ss[k].start = js[k].start /\ ss[k].end = js[k].end
                      /\ ss[k].done = js[k].done /\ ss[k].st = "closed"
    OBVIOUS
  <2>1. ss[k] = Planned(js[k].start, js[k].end, js[k].done) BY <1>3, <1>4
  <2>2. js[k] \in Saved /\ Within(js[k]) BY <1>5, <1>6
  <2>3. 0 \in 0 .. MaxRetries /\ 0 \in 0 .. FileSize + ErrorBody BY SMT, SizeAssumption
  <2> QED BY <2>1, <2>2, <2>3 DEF Planned, Segment, Saved, Replies, Within, Span
<1>8. ss \in [1 .. Len(js) -> Segment] BY <1>3, <1>4, <1>7
<1>9. ss \in Seq(Segment) /\ Len(ss) = Len(js) /\ DOMAIN ss = DOMAIN js BY SMT, <1>3, <1>8
<1>10. SameBounds(js, ss) BY <1>7, <1>9 DEF SameBounds
<1>11. Shaped(ss) BY <1>2, <1>7, <1>9, <1>10, ShapeKept
<1> QED BY <1>1, <1>7, <1>9, <1>10, <1>11 DEF ss

\* A transfer that starts asks and has no reply yet.
Asking(s) == s.st = "open" /\ s.reply = "none" /\ s.body = 0 /\ s.checked = FALSE

LEMMA LaunchedShaped ==
  ASSUME NEW ss \in Seq(Segment), Shaped(ss)
  PROVE  /\ Launched(ss) \in Seq(Segment) /\ Shaped(Launched(ss)) /\ SameBounds(ss, Launched(ss))
         /\ \A k \in DOMAIN ss :
              /\ Launched(ss)[k].done = ss[k].done
              /\ Asking(Launched(ss)[k])
                 \/ (SegIsDone(Launched(ss)[k]) /\ Launched(ss)[k].st = "complete")
<1> DEFINE tt == Launched(ss)
<1>1. Len(ss) \in Nat /\ DOMAIN ss = 1 .. Len(ss) /\ \A k \in DOMAIN ss : ss[k] \in Segment
  BY SMT
<1>2. \A k \in DOMAIN ss :
        /\ tt[k] \in Segment /\ tt[k].start = ss[k].start /\ tt[k].end = ss[k].end
        /\ tt[k].done = ss[k].done
        /\ Asking(tt[k]) \/ (SegIsDone(tt[k]) /\ tt[k].st = "complete")
  <2> SUFFICES ASSUME NEW k \in DOMAIN ss
               PROVE  /\ tt[k] \in Segment /\ tt[k].start = ss[k].start /\ tt[k].end = ss[k].end
                      /\ tt[k].done = ss[k].done
                      /\ Asking(tt[k]) \/ (SegIsDone(tt[k]) /\ tt[k].st = "complete")
    OBVIOUS
  <2> DEFINE s == ss[k]
  <2>0. s \in Segment BY <1>1
  <2> HIDE DEF s
  <2>1. 0 \in 0 .. FileSize + ErrorBody BY SMT, SizeAssumption
  <2>2. CASE SegIsDone(s)
    <3>1. tt[k] = [s EXCEPT !.st = "complete"] BY <2>2 DEF Launched, s
    <3> QED BY <2>0, <2>2, <3>1 DEF Segment, SegIsDone, Span, s
  <2>3. CASE ~SegIsDone(s)
    <3>1. tt[k] = Requested(s) BY <2>3 DEF Launched, s
    <3> QED BY <2>0, <2>1, <3>1 DEF Requested, Segment, Replies, Asking, s
  <2> QED BY <2>2, <2>3
<1>3. DOMAIN tt = 1 .. Len(ss) BY <1>1 DEF Launched
<1>4. tt \in [1 .. Len(ss) -> Segment] BY <1>1, <1>2 DEF Launched
<1> HIDE DEF tt
<1>5. tt \in Seq(Segment) /\ Len(tt) = Len(ss) BY SMT, <1>1, <1>4
<1>6. SameBounds(ss, tt) BY <1>1, <1>2, <1>3, <1>5 DEF SameBounds
<1>7. Pieces(ss) => \A k \in DOMAIN ss : Within(tt[k]) BY <1>2 DEF Pieces, Within, Span
<1>8. Shaped(tt) BY <1>5, <1>6, <1>7, ShapeKept
<1> QED BY <1>2, <1>5, <1>6, <1>8 DEF tt

---------------------------------------------------------------------------
(* The steps of a transfer *)

\* A step that changes segment k alone, and not its bounds.
LEMMA OneSegment ==
  ASSUME NEW ss \in Seq(Segment), Shaped(ss), NEW k \in DOMAIN ss, NEW s \in Segment,
         s.start = ss[k].start, s.end = ss[k].end, Pieces(ss) => Within(s)
  PROVE  LET tt == [ss EXCEPT ![k] = s] IN
         /\ tt \in Seq(Segment) /\ Shaped(tt) /\ SameBounds(ss, tt) /\ tt[k] = s
         /\ \A j \in DOMAIN ss : j # k => tt[j] = ss[j]
<1> DEFINE tt == [ss EXCEPT ![k] = s]
<1>1. Len(ss) \in Nat /\ DOMAIN ss = 1 .. Len(ss) /\ ss \in [1 .. Len(ss) -> Segment] BY SMT
<1>2. /\ tt \in [1 .. Len(ss) -> Segment] /\ DOMAIN tt = DOMAIN ss /\ tt[k] = s
      /\ \A j \in DOMAIN ss : j # k => tt[j] = ss[j]
  BY <1>1
<1> HIDE DEF tt
<1>3. tt \in Seq(Segment) /\ Len(tt) = Len(ss) BY SMT, <1>1, <1>2
<1>4. SameBounds(ss, tt)
  <2>1. \A j \in DOMAIN ss : tt[j].start = ss[j].start /\ tt[j].end = ss[j].end BY <1>2
  <2> QED BY <1>2, <1>3, <2>1 DEF SameBounds
<1>5. Pieces(ss) => \A j \in DOMAIN ss : Within(tt[j]) BY <1>2 DEF Pieces
<1>6. Shaped(tt) BY <1>3, <1>4, <1>5, ShapeKept
<1> QED BY <1>2, <1>3, <1>4, <1>6 DEF tt

\* The fields of a segment, and what it may grow to.
LEMMA SegmentTyped ==
  ASSUME Typed, NEW k \in DOMAIN segs
  PROVE  /\ segs[k] \in Segment
         /\ segs[k].start \in Nat /\ segs[k].start < FileSize
         /\ segs[k].end \in Int /\ -1 <= segs[k].end /\ segs[k].end < FileSize
         /\ segs[k].done \in Nat /\ segs[k].body \in Nat
<1>1. segs[k] \in Segment BY SMT DEF Typed
<1> DEFINE s == segs[k]
<1> HIDE DEF s
<1>2. /\ s.start \in 0 .. FileSize - 1 /\ s.end \in -1 .. FileSize - 1
      /\ s.done \in 0 .. FileSize + Slack /\ s.body \in 0 .. FileSize + ErrorBody
  BY <1>1 DEF Segment, s
<1>3. /\ s.start \in Nat /\ s.start < FileSize
      /\ s.end \in Int /\ -1 <= s.end /\ s.end < FileSize
      /\ s.done \in Nat /\ s.body \in Nat
  BY SMT, <1>2, SizeAssumption
<1> QED BY <1>1, <1>3 DEF s

RespondTo(s, reply, body) == [s EXCEPT !.reply = reply, !.body = body, !.checked = FALSE]
Abort(s) == [s EXCEPT !.reply = "aborted", !.body = 0]
Drop(s) == [s EXCEPT !.body = @ - 1, !.checked = TRUE]
Take(s) == [s EXCEPT !.body = @ - 1, !.checked = TRUE, !.done = @ + 1]

\* Whatever curl brings changes one segment, in one of four ways.
LEMMA RespondOne ==
  ASSUME Typed, NEW k \in DOMAIN segs, NEW reply \in {"206", "200", "error"},
         NEW body \in 0 .. FileSize + ErrorBody, Respond(k, reply, body)
  PROVE  segs' = [segs EXCEPT ![k] = RespondTo(segs[k], reply, body)]
<1>1. segs[k] \in Segment BY SegmentTyped
<1> QED BY <1>1 DEF Respond, RespondTo, Segment

LEMMA AbortOne ==
  ASSUME Typed, NEW k \in DOMAIN segs, Aborted(k)
  PROVE  segs' = [segs EXCEPT ![k] = Abort(segs[k])]
<1>1. segs[k] \in Segment BY SegmentTyped
<1> QED BY <1>1 DEF Aborted, Abort, Segment

LEMMA DropOne ==
  ASSUME Typed, NEW k \in DOMAIN segs, ReceiveExtra(k)
  PROVE  segs' = [segs EXCEPT ![k] = Drop(segs[k])]
<1>1. segs[k] \in Segment BY SegmentTyped
<1> QED BY <1>1 DEF ReceiveExtra, Drop, Segment

LEMMA TakeOne ==
  ASSUME Typed, NEW k \in DOMAIN segs, ReceiveUnit(k)
  PROVE  segs' = [segs EXCEPT ![k] = Take(segs[k])]
<1>1. segs[k] \in Segment BY SegmentTyped
<1> QED BY <1>1 DEF ReceiveUnit, Take, Segment

LEMMA FileTyped ==
  ASSUME NEW f \in File, NEW t \in Int, NEW at \in Int, NEW unit \in {"right", "wrong"}
  PROVE  Resized(f, t) \in File /\ Opened(f, t) \in File /\ Written(f, at, unit) \in File
<1>1. \A o \in Offsets : f[o] \in {"right", "wrong", "hole", "eof"} BY DEF File
<1>2. Resized(f, t) \in File BY <1>1 DEF Resized, File
<1>3. Written(f, at, unit) \in File BY <1>1 DEF Written, File
<1> QED BY <1>2, <1>3 DEF Opened

\* The journal says of each segment what is counted.
LEMMA SnapshotShaped ==
  ASSUME Typed, Shaped(segs)
  PROVE  /\ Snapshot \in [total : {-1, FileSize}, segs : Seq(Saved)]
         /\ Shaped(Snapshot.segs) /\ SameBounds(segs, Snapshot.segs)
         /\ \A k \in DOMAIN segs : Snapshot.segs[k].done = segs[k].done
<1> DEFINE js == [k \in DOMAIN segs |-> [start |-> segs[k].start, end |-> segs[k].end,
                                        done |-> segs[k].done]]
<1>1. Len(segs) \in Nat /\ DOMAIN segs = 1 .. Len(segs) /\ segs \in Seq(Segment)
      /\ \A k \in DOMAIN segs : segs[k] \in Segment
  BY SMT DEF Typed
<1>2. \A k \in DOMAIN segs : /\ js[k] \in Saved /\ js[k].start = segs[k].start
                             /\ js[k].end = segs[k].end /\ js[k].done = segs[k].done
  BY <1>1 DEF Segment, Saved
<1>3. js \in [1 .. Len(segs) -> Saved] BY <1>1, <1>2
<1>4. Snapshot.total = total /\ Snapshot.segs = js
      /\ Snapshot \in [total : {total}, segs : {js}]
  BY DEF Snapshot
<1> HIDE DEF js
<1>5. js \in Seq(Saved) /\ Len(js) = Len(segs) /\ DOMAIN js = DOMAIN segs BY SMT, <1>1, <1>3
<1>6. SameBounds(segs, js) BY <1>2, <1>5 DEF SameBounds
<1>7. Pieces(segs) => \A k \in DOMAIN segs : Within(js[k]) BY <1>2 DEF Pieces, Within, Span
<1>8. Shaped(js) BY <1>1, <1>5, <1>6, <1>7, ShapeKept
<1> QED BY <1>2, <1>4, <1>5, <1>6, <1>8 DEF Typed

\* What run_multi leaves of the segments.
Dropped ==
  [k \in DOMAIN segs |-> IF k \in Open THEN [segs[k] EXCEPT !.st = "closed"] ELSE segs[k]]

LEMMA DroppedShaped ==
  ASSUME Typed, Shaped(segs)
  PROVE  /\ Dropped \in Seq(Segment) /\ Shaped(Dropped) /\ SameBounds(segs, Dropped)
         /\ \A k \in DOMAIN segs : Dropped[k].done = segs[k].done
         /\ \A k \in DOMAIN segs : Dropped[k].st = "complete" => Dropped[k] = segs[k]
<1> DEFINE tt == Dropped
<1>1. Len(segs) \in Nat /\ DOMAIN segs = 1 .. Len(segs) /\ segs \in Seq(Segment)
      /\ \A k \in DOMAIN segs : segs[k] \in Segment
  BY SMT DEF Typed
<1>2. \A k \in DOMAIN segs :
        /\ tt[k] \in Segment /\ tt[k].start = segs[k].start /\ tt[k].end = segs[k].end
        /\ tt[k].done = segs[k].done
        /\ tt[k].st = "complete" => tt[k] = segs[k]
  <2> SUFFICES ASSUME NEW k \in DOMAIN segs
               PROVE  /\ tt[k] \in Segment /\ tt[k].start = segs[k].start
                      /\ tt[k].end = segs[k].end /\ tt[k].done = segs[k].done
                      /\ tt[k].st = "complete" => tt[k] = segs[k]
    OBVIOUS
  <2>1. CASE k \in Open
    <3>1. tt[k] = [segs[k] EXCEPT !.st = "closed"] BY <2>1 DEF Dropped
    <3>2. segs[k] \in Segment BY <1>1
    <3> QED BY <3>1, <3>2 DEF Segment
  <2>2. CASE k \notin Open
    <3>1. tt[k] = segs[k] BY <2>2 DEF Dropped
    <3> QED BY <1>1, <3>1
  <2> QED BY <2>1, <2>2
<1>3. tt \in [1 .. Len(segs) -> Segment] BY <1>1, <1>2 DEF Dropped
<1> HIDE DEF tt
<1>4. tt \in Seq(Segment) /\ Len(tt) = Len(segs) /\ DOMAIN tt = DOMAIN segs BY SMT, <1>1, <1>3
<1>5. SameBounds(segs, tt) BY <1>2, <1>4 DEF SameBounds
<1>6. Pieces(segs) => \A k \in DOMAIN segs : Within(tt[k]) BY <1>2 DEF Pieces, Within, Span
<1>7. Shaped(tt) BY <1>1, <1>4, <1>5, <1>6, ShapeKept
<1> QED BY <1>2, <1>4, <1>5, <1>7 DEF tt

---------------------------------------------------------------------------
(* Each step keeps the types and the shapes *)

LEMMA EngineStarts == Init => EngineInv
<1> SUFFICES ASSUME Init PROVE EngineInv
  OBVIOUS
<1>1. NoFile \in File BY DEF NoFile, File
<1>2. journal \in [total : {-1, FileSize}, segs : Seq(Saved)] /\ journal.segs = <<>>
  BY SMT DEF Init, NoJournal
<1>3. segs \in Seq(Segment) /\ 0 \in Nat BY SMT DEF Init
<1>4. Typed BY <1>1, <1>2, <1>3 DEF Init, Typed, Results
<1> QED BY <1>2, <1>4 DEF EngineInv, Init

\* A step of one transfer, which counts what it takes.
LEMMA OneKeeps ==
  ASSUME EngineInv, pc = "multi", pc' = "multi", NEW k \in DOMAIN segs, NEW s \in Segment,
         s.start = segs[k].start, s.end = segs[k].end, Pieces(segs) => Within(s),
         segs' = [segs EXCEPT ![k] = s],
         \/ s.done = segs[k].done /\ downloaded' = downloaded
         \/ s.done = segs[k].done + 1 /\ downloaded' = downloaded + 1,
         part' \in File, rangeIgnored' \in BOOLEAN, ioError' \in BOOLEAN,
         UNCHANGED <<final, journal, call, cancel, rc>>
  PROVE  EngineInv'
<1>1. segs \in Seq(Segment) /\ Shaped(segs) BY DEF EngineInv, Typed
<1>2. /\ segs' \in Seq(Segment) /\ Shaped(segs') /\ DOMAIN segs' = DOMAIN segs /\ segs'[k] = s
      /\ \A j \in DOMAIN segs : j # k => segs'[j] = segs[j]
  BY <1>1, OneSegment DEF SameBounds
<1>3. downloaded' = SumDone(segs')
  <2>1. CASE s.done = segs[k].done /\ downloaded' = downloaded
    <3>1. \A j \in DOMAIN segs : segs'[j].done = segs[j].done BY <1>2, <2>1
    <3> QED BY <1>2, <2>1, <3>1, SumSame DEF EngineInv
  <2>2. CASE s.done = segs[k].done + 1 /\ downloaded' = downloaded + 1
    BY <1>1, <1>2, <2>2, SumGrows DEF EngineInv
  <2> QED BY <2>1, <2>2
<1>4. Typed' BY <1>1, <1>2, <1>3, SegmentsCounted DEF EngineInv, Typed, call
<1>5. journal'.segs # <<>> => Shaped(journal'.segs) BY DEF EngineInv
<1> QED BY <1>2, <1>3, <1>4, <1>5 DEF EngineInv

LEMMA RespondKeeps ==
  ASSUME EngineInv, NEW k \in DOMAIN segs, NEW reply \in {"206", "200", "error"},
         NEW body \in 0 .. FileSize + ErrorBody, Respond(k, reply, body)
  PROVE  EngineInv'
<1> DEFINE s == RespondTo(segs[k], reply, body)
<1>1. segs[k] \in Segment BY SegmentTyped DEF EngineInv
<1>2. /\ s \in Segment /\ s.start = segs[k].start /\ s.end = segs[k].end /\ s.done = segs[k].done
  BY <1>1 DEF RespondTo, Segment, Replies
<1>3. Pieces(segs) => Within(s) BY <1>2 DEF Pieces, Within, Span
<1>4. segs' = [segs EXCEPT ![k] = s] BY RespondOne DEF EngineInv
<1> HIDE DEF s
<1> QED BY <1>2, <1>3, <1>4, OneKeeps DEF Respond, disk, call, flags, EngineInv, Typed

LEMMA AbortKeeps ==
  ASSUME EngineInv, NEW k \in DOMAIN segs, pc = "multi", Aborted(k),
         rangeIgnored' \in BOOLEAN, ioError' \in BOOLEAN,
         UNCHANGED <<disk, pc, call, downloaded, cancel, rc>>
  PROVE  EngineInv'
<1> DEFINE s == Abort(segs[k])
<1>1. segs[k] \in Segment /\ 0 \in 0 .. FileSize + ErrorBody
  <2>1. 0 \in 0 .. FileSize + ErrorBody BY SMT, SizeAssumption
  <2> QED BY <2>1, SegmentTyped DEF EngineInv
<1>2. /\ s \in Segment /\ s.start = segs[k].start /\ s.end = segs[k].end /\ s.done = segs[k].done
  BY <1>1 DEF Abort, Segment, Replies
<1>3. Pieces(segs) => Within(s) BY <1>2 DEF Pieces, Within, Span
<1>4. segs' = [segs EXCEPT ![k] = s] BY AbortOne DEF EngineInv
<1> HIDE DEF s
<1> QED BY <1>2, <1>3, <1>4, OneKeeps DEF disk, call, EngineInv, Typed

LEMMA ExtraKeeps ==
  ASSUME EngineInv, NEW k \in DOMAIN segs, ReceiveExtra(k)
  PROVE  EngineInv'
<1> DEFINE s == Drop(segs[k])
<1>1. segs[k] \in Segment /\ segs[k].body - 1 \in 0 .. FileSize + ErrorBody
  <2>1. segs[k] \in Segment /\ segs[k].body > 0 BY SegmentTyped DEF EngineInv, ReceiveExtra, Delivering
  <2>2. segs[k].body \in 0 .. FileSize + ErrorBody BY <2>1 DEF Segment
  <2> QED BY SMT, <2>1, <2>2, SizeAssumption
<1>2. /\ s \in Segment /\ s.start = segs[k].start /\ s.end = segs[k].end /\ s.done = segs[k].done
  BY <1>1 DEF Drop, Segment
<1>3. Pieces(segs) => Within(s) BY <1>2 DEF Pieces, Within, Span
<1>4. segs' = [segs EXCEPT ![k] = s] BY DropOne DEF EngineInv
<1> HIDE DEF s
<1> QED BY <1>2, <1>3, <1>4, OneKeeps
     DEF ReceiveExtra, Delivering, disk, call, flags, EngineInv, Typed

LEMMA UnitTyped == \A s : Unit(s) \in {"right", "wrong"}
BY DEF Unit

LEMMA UnitKeeps ==
  ASSUME EngineInv, NEW k \in DOMAIN segs, ReceiveUnit(k)
  PROVE  EngineInv'
<1> DEFINE s == Take(segs[k])
           at == segs[k].start + segs[k].done
<1>1. /\ segs[k] \in Segment /\ segs[k].body - 1 \in 0 .. FileSize + ErrorBody
      /\ segs[k].done + 1 \in 0 .. FileSize + Slack /\ at \in Int
  <2>1. /\ segs[k] \in Segment /\ segs[k].body > 0 /\ at \in Offsets /\ segs[k].start \in Nat
        /\ segs[k].done \in Nat
    BY SegmentTyped DEF EngineInv, ReceiveUnit, Delivering
  <2>2. segs[k].body \in 0 .. FileSize + ErrorBody BY <2>1 DEF Segment
  <2> QED BY SMT, <2>1, <2>2, SizeAssumption DEF Offsets
<1>2. /\ s \in Segment /\ s.start = segs[k].start /\ s.end = segs[k].end
      /\ s.done = segs[k].done + 1
  BY <1>1 DEF Take, Segment
<1>3. Pieces(segs) => Within(s)
  <2> SUFFICES ASSUME Pieces(segs) PROVE Within(s)
    OBVIOUS
  <2>1. /\ segs[k].start \in Nat /\ segs[k].end \in Int /\ segs[k].done \in Nat
        /\ segs[k].start <= segs[k].end /\ ~SegFull(segs[k])
    BY SegmentTyped DEF EngineInv, Pieces, Within, ReceiveUnit
  <2> HIDE DEF s
  <2> QED BY SMT, <1>2, <2>1 DEF Within, Span, SegFull
<1>4. segs' = [segs EXCEPT ![k] = s] BY TakeOne DEF EngineInv
<1>5. part' \in File BY <1>1, FileTyped, UnitTyped DEF ReceiveUnit, EngineInv, Typed
<1> HIDE DEF s
<1> QED BY <1>2, <1>3, <1>4, <1>5, OneKeeps
     DEF ReceiveUnit, Delivering, disk, call, EngineInv, Typed

LEMMA ReturnKeeps ==
  ASSUME EngineInv, pc = "multi", NEW r \in Results, Return(r)
  PROVE  EngineInv'
<1>1. Typed /\ Shaped(segs) /\ downloaded = SumDone(segs) BY DEF EngineInv
<1>2. segs' = Dropped /\ journal' = Snapshot BY DEF Return, Dropped
<1>3. /\ segs' \in Seq(Segment) /\ Shaped(segs') /\ SameBounds(segs, segs')
      /\ \A k \in DOMAIN segs : segs'[k].done = segs[k].done
  <2>1. /\ Dropped \in Seq(Segment) /\ Shaped(Dropped) /\ SameBounds(segs, Dropped)
        /\ \A k \in DOMAIN segs : Dropped[k].done = segs[k].done
    BY <1>1, DroppedShaped
  <2> QED BY <1>2, <2>1
<1>4. journal' \in [total : {-1, FileSize}, segs : Seq(Saved)] /\ Shaped(journal'.segs)
  BY <1>1, <1>2, SnapshotShaped
<1>5. SumDone(segs') = SumDone(segs) BY <1>3, SumSame DEF SameBounds
<1>6. Typed' BY <1>1, <1>3, <1>4 DEF Return, Typed, call, flags
<1> QED BY <1>1, <1>3, <1>4, <1>5, <1>6 DEF EngineInv, Return, flags

LEMMA OverKeeps ==
  ASSUME EngineInv, NEW k \in DOMAIN segs, NEW ok \in BOOLEAN, Over(k, ok)
  PROVE  EngineInv'
<1>1. segs[k] \in Segment /\ pc = "multi" /\ 0 \in 0 .. FileSize + ErrorBody
  <2>1. 0 \in 0 .. FileSize + ErrorBody BY SMT, SizeAssumption
  <2> QED BY <2>1, SegmentTyped DEF EngineInv, Over
<1>2. CASE \E r \in Results : Return(r) BY <1>1, <1>2, ReturnKeeps
<1>3. CASE /\ segs' = [segs EXCEPT ![k].st = "complete"]
           /\ UNCHANGED <<disk, pc, call, flags, cancel, rc>>
  <2> DEFINE s == [segs[k] EXCEPT !.st = "complete"]
  <2>1. /\ s \in Segment /\ s.start = segs[k].start /\ s.end = segs[k].end
        /\ s.done = segs[k].done
    BY <1>1 DEF Segment
  <2>2. Pieces(segs) => Within(s) BY <2>1 DEF Pieces, Within, Span
  <2>3. segs' = [segs EXCEPT ![k] = s] BY <1>1, <1>3 DEF Segment
  <2> HIDE DEF s
  <2> QED BY <1>1, <1>3, <2>1, <2>2, <2>3, OneKeeps DEF disk, call, flags, EngineInv, Typed
<1>4. CASE /\ segs[k].retries < MaxRetries
           /\ segs' = [segs EXCEPT ![k] = Retried(segs[k])]
           /\ UNCHANGED <<disk, pc, call, flags, cancel, rc>>
  <2> DEFINE s == Retried(segs[k])
  <2>1. segs[k].retries + 1 \in 0 .. MaxRetries
    <3>1. segs[k].retries \in 0 .. MaxRetries BY <1>1 DEF Segment
    <3> QED BY SMT, <1>4, <3>1, SizeAssumption
  <2>2. /\ s \in Segment /\ s.start = segs[k].start /\ s.end = segs[k].end
        /\ s.done = segs[k].done
    BY <1>1, <2>1 DEF Segment, Retried, Requested, Replies
  <2>3. Pieces(segs) => Within(s) BY <2>2 DEF Pieces, Within, Span
  <2> HIDE DEF s
  <2>4. segs' = [segs EXCEPT ![k] = s] BY <1>4 DEF s
  <2> QED BY <1>1, <1>4, <2>2, <2>3, <2>4, OneKeeps DEF disk, call, flags, EngineInv, Typed
<1> QED BY <1>2, <1>3, <1>4 DEF Over, Results

LEMMA TransferKeeps == EngineInv /\ Transfer => EngineInv'
<1> SUFFICES ASSUME EngineInv, Transfer PROVE EngineInv'
  OBVIOUS
<1>1. PICK k \in DOMAIN segs :
        \/ \E reply \in {"206", "200", "error"}, body \in 0 .. FileSize + ErrorBody :
             Respond(k, reply, body)
        \/ ReceiveCancelled(k) \/ ReceiveIgnored(k) \/ ReceiveExtra(k)
        \/ ReceiveUnit(k) \/ ReceiveFails(k)
        \/ \E ok \in BOOLEAN : Over(k, ok)
  BY DEF Transfer
<1>2. CASE ReceiveCancelled(k)
  BY <1>2, AbortKeeps DEF ReceiveCancelled, Delivering, flags, EngineInv, Typed
<1>3. CASE ReceiveIgnored(k)
  BY <1>3, AbortKeeps DEF ReceiveIgnored, Delivering, EngineInv, Typed
<1>4. CASE ReceiveFails(k)
  BY <1>4, AbortKeeps DEF ReceiveFails, Delivering, EngineInv, Typed
<1> QED BY <1>1, <1>2, <1>3, <1>4, RespondKeeps, ExtraKeeps, UnitKeeps, OverKeeps

\* The start of run_multi, for segments of any origin.
LEMMA LaunchKeeps ==
  ASSUME EngineInv, NEW ss \in Seq(Segment), Shaped(ss), segs' = Launched(ss), pc' = "multi",
         downloaded' = SumDone(ss), total' \in {-1, FileSize}, part' = Opened(part, total'),
         resumable' \in BOOLEAN, rangeIgnored' \in BOOLEAN, ioError' \in BOOLEAN,
         fellBack' \in BOOLEAN, cancel' \in BOOLEAN, rc' = "none", UNCHANGED <<final, journal>>
  PROVE  EngineInv'
<1>1. /\ segs' \in Seq(Segment) /\ Shaped(segs') /\ SameBounds(ss, segs')
      /\ \A k \in DOMAIN ss : segs'[k].done = ss[k].done
  BY LaunchedShaped
<1>2. downloaded' = SumDone(segs') /\ downloaded' \in Nat
  BY <1>1, SumSame, SegmentsCounted DEF SameBounds
<1>3. part' \in File
  <2>1. total' \in Int BY SMT, SizeAssumption
  <2> QED BY <2>1, FileTyped DEF EngineInv, Typed
<1>4. Typed' BY <1>1, <1>2, <1>3 DEF EngineInv, Typed, Results
<1>5. journal'.segs # <<>> => Shaped(journal'.segs) BY DEF EngineInv
<1> QED BY <1>1, <1>2, <1>4, <1>5 DEF EngineInv

LEMMA ProbedTyped ==
  ASSUME NEW p \in Probed PROVE p[1] \in {-1, FileSize} /\ p[2] \in BOOLEAN
<1>1. CASE \E h \in HeadReplies : h.length >= 0 /\ p = <<h.length, h.ranges>>
  BY <1>1 DEF HeadReplies
<1>2. CASE \E h \in HeadReplies, b \in ByteReplies :
             p = <<b.length, h.ranges \/ b.ranges \/ b.status = "206">>
  <2>1. PICK h \in HeadReplies, b \in ByteReplies :
          p = <<b.length, h.ranges \/ b.ranges \/ b.status = "206">>
    BY <1>2
  <2>2. p[1] = b.length /\ p[2] \in BOOLEAN BY <2>1
  <2>3. b.length \in {-1, FileSize} BY DEF ByteReplies
  <2> QED BY <2>2, <2>3
<1> QED BY <1>1, <1>2 DEF Probed

LEMMA StartKeeps ==
  ASSUME EngineInv, NEW t \in {-1, FileSize}, NEW r \in BOOLEAN, Start(t, r)
  PROVE  EngineInv'
<1> DEFINE ss == IF Fits(journal, t) THEN Resumed(journal) ELSE Plan(t, r)
<1>1. ss \in Seq(Segment) /\ Shaped(ss)
  <2>1. CASE Fits(journal, t)
    <3>1. Shaped(journal.segs) BY <2>1 DEF EngineInv, Fits
    <3> QED BY <2>1, <3>1, ResumedShaped DEF EngineInv
  <2>2. CASE ~Fits(journal, t) BY <2>2, PlanShaped
  <2> QED BY <2>1, <2>2
<1>2. /\ segs' = Launched(ss) /\ pc' = "multi" /\ downloaded' = SumDone(ss) /\ total' = t
      /\ part' = Opened(part, t) /\ resumable' = r /\ rangeIgnored' = FALSE /\ ioError' = FALSE
      /\ fellBack' = FALSE /\ cancel' = FALSE /\ rc' = "none" /\ UNCHANGED <<final, journal>>
  BY DEF Start
<1> HIDE DEF ss
<1> QED BY <1>1, <1>2, LaunchKeeps

LEMMA FallBackKeeps == EngineInv /\ FallBack => EngineInv'
<1> SUFFICES ASSUME EngineInv, FallBack PROVE EngineInv'
  OBVIOUS
<1>1. Single \in Seq(Segment) /\ Shaped(Single) /\ SumDone(Single) = 0
  <2>1. DOMAIN Single = {1} /\ Single[1].done = 0 BY SMT DEF Single, Planned
  <2> QED BY <2>1, SingleShaped, SumOfNothing
<1> QED BY <1>1, LaunchKeeps DEF FallBack, EngineInv, Typed

\* A call that is over leaves a typed state, whatever it leaves on disk.
LEMMA ReleasedKeeps ==
  ASSUME EngineInv, NEW r \in Results, Released(r), part' = part, final' = final,
         journal' = journal \/ journal' = NoJournal
  PROVE  EngineInv'
<1>1. segs' \in Seq(Segment) /\ 0 \in Nat BY SMT DEF Released
<1>2. NoJournal \in [total : {-1, FileSize}, segs : Seq(Saved)] /\ NoJournal.segs = <<>>
  BY SMT DEF NoJournal
<1>3. Typed' BY <1>1, <1>2 DEF Released, EngineInv, Typed
<1>4. journal'.segs # <<>> => Shaped(journal'.segs) BY <1>2 DEF EngineInv
<1> QED BY <1>3, <1>4 DEF EngineInv, Released

LEMMA OthersKeep ==
  ASSUME EngineInv,
         \/ LoopEnds \/ MultiFails \/ FinishFails \/ Finish \/ UnlinkJournal \/ GiveUp
         \/ StartFails \/ SaveJournal \/ RequestCancel \/ DeletePart \/ DeleteJournal \/ Crash
  PROVE  EngineInv'
<1>0. NoFile \in File BY DEF NoFile, File
<1>1. NoJournal \in [total : {-1, FileSize}, segs : Seq(Saved)] /\ NoJournal.segs = <<>>
  BY SMT DEF NoJournal
<1>2. CASE LoopEnds \/ MultiFails
  BY <1>2, ReturnKeeps DEF LoopEnds, MultiFails, Results
<1>3. CASE FinishFails \/ GiveUp \/ Crash
  <2>1. \E r \in Results : Released(r)
    BY <1>3 DEF FinishFails, GiveUp, Crash, Results, EngineInv, Typed
  <2> QED BY <1>3, <2>1, ReleasedKeeps DEF FinishFails, GiveUp, Crash, disk
<1>4. CASE UnlinkJournal BY <1>4, ReleasedKeeps DEF UnlinkJournal, Results
<1>5. CASE Finish
  BY <1>0, <1>5 DEF Finish, EngineInv, Typed, call, flags
<1>6. CASE StartFails BY <1>6 DEF StartFails, disk, call, flags, EngineInv, Typed, Results
<1>7. CASE SaveJournal
  <2>1. journal' \in [total : {-1, FileSize}, segs : Seq(Saved)] /\ Shaped(journal'.segs)
    BY <1>7, SnapshotShaped DEF SaveJournal, EngineInv
  <2> QED BY <1>7, <2>1 DEF SaveJournal, call, flags, EngineInv, Typed
<1>8. CASE RequestCancel BY <1>8 DEF RequestCancel, disk, call, flags, EngineInv, Typed
<1>9. CASE DeletePart BY <1>0, <1>9 DEF DeletePart, call, flags, EngineInv, Typed
<1>10. CASE DeleteJournal BY <1>1, <1>10 DEF DeleteJournal, call, flags, EngineInv, Typed
<1> QED BY <1>2, <1>3, <1>4, <1>5, <1>6, <1>7, <1>8, <1>9, <1>10

\* The shapes, the types and the sum are kept by every step of the engine, of
\* the server and of the caller.
THEOREM EngineInductive == Spec => []EngineInv
<1>1. ASSUME EngineInv, Next PROVE EngineInv'
  <2>1. CASE \E p \in Probed : Start(p[1], p[2]) BY <1>1, <2>1, StartKeeps, ProbedTyped
  <2> QED BY <1>1, <2>1, TransferKeeps, FallBackKeeps, OthersKeep DEF Next, Ending
<1>2. EngineInv /\ UNCHANGED vars => EngineInv'
  BY DEF EngineInv, Typed, vars
<1> QED BY <1>1, <1>2, EngineStarts, PTL DEF Spec

\* Two segments of a split download never overlap, cover the file together and
\* count no more than their span (plan_segments, download.c; journal_load for
\* those a journal brings back), whatever servers send.
THEOREM TilingKept == Spec => []SegmentsTile
<1>1. EngineInv => SegmentsTile
  <2> SUFFICES ASSUME EngineInv PROVE SegmentsTile
    OBVIOUS
  <2>1. /\ \A k \in DOMAIN segs : segs[k] \in Segment
        /\ \A k \in DOMAIN journal.segs : journal.segs[k] \in Saved
        /\ journal.total \in {-1, FileSize}
    BY SMT DEF EngineInv, Typed
  <2>2. TypeOK BY <2>1 DEF TypeOK, EngineInv, Typed, Saved
  <2>3. ASSUME pc = "multi", Len(segs) > 1
        PROVE  Tiles(segs, FileSize) /\ \A k \in DOMAIN segs : segs[k].done <= Span(segs[k])
    <3>1. Len(segs) # 1 BY SMT, <2>3
    <3> QED BY <2>3, <3>1 DEF EngineInv, Shaped, OneStream, Pieces, Within
  <2> QED BY <2>2, <2>3 DEF SegmentsTile
<1> QED BY <1>1, EngineInductive, PTL

---------------------------------------------------------------------------
(* What is counted is on disk *)

\* Without the two things that break it, and that the code does not prevent: the
\* body of an error reply is counted, and a death after the rename, or between the
\* two deletions of the cleanup, leaves a journal that counts the units of a part
\* file that is gone.
Tame == ErrorBody = 0 /\ CrashPoints \subseteq {"multi", "returned"}

\* What the server still owes to a transfer s: with an open end, or to a range
\* that was ignored, all of the file.
Owed(s) ==
  /\ s.reply \in {"none", "aborted", "error"} => s.body = 0
  /\ s.reply = "206" => /\ s.start + s.done + s.body <= FileSize
                        /\ s.end < 0 => s.start + s.done + s.body = FileSize
  /\ s.reply = "200" => IF s.checked THEN s.end < 0 /\ s.start + s.done + s.body = FileSize
                        ELSE s.body = FileSize

Full(s) == IF s.end < 0 THEN s.start + s.done = FileSize ELSE s.done = Span(s)

Counted(ss, f) ==
  \A k \in DOMAIN ss :
    \A o \in ss[k].start .. ss[k].start + ss[k].done - 1 : o < FileSize /\ f[o] = "right"

\* Nothing lies beyond the end of the file.
Bounded(f) == \A o \in Offsets : o >= FileSize => f[o] = "eof"

HonestInv ==
  /\ Bounded(part)
  /\ pc = "multi" => \A k \in DOMAIN segs : segs[k].st = "open" => Owed(segs[k])
  /\ pc \in {"multi", "returned"} =>
       Counted(segs, part) /\ \A k \in DOMAIN segs : segs[k].st = "complete" => Full(segs[k])
  /\ pc \notin {"renamed", "cleaning"} /\ Fits(journal, FileSize) => Counted(journal.segs, part)
  /\ final = NoFile \/ Whole(final)
  /\ pc = "renamed" => Whole(final)

\* f becomes g, and no right unit is lost.
Keeps(f, g) ==
  /\ Bounded(f) => Bounded(g)
  /\ \A o \in Offsets : o < FileSize /\ f[o] = "right" => g[o] = "right"

LEMMA OffsetsOfFile ==
  \A o \in Nat : o < FileSize => o \in Offsets
BY SMT, SizeAssumption DEF Offsets

LEMMA OpenedKeeps ==
  ASSUME NEW f \in File, NEW t \in {-1, FileSize}
  PROVE  Keeps(f, Opened(f, t))
<1>1. CASE t > 0
  <2>1. t = FileSize /\ \A o \in Offsets : o \in Int BY SMT, <1>1, SizeAssumption DEF Offsets
  <2>2. Opened(f, t) = Resized(f, FileSize) BY <1>1, <2>1 DEF Opened
  <2>3. \A o \in Offsets : o >= FileSize => Resized(f, FileSize)[o] = "eof" BY DEF Resized
  <2>4. \A o \in Offsets : o < FileSize /\ f[o] = "right" => Resized(f, FileSize)[o] = "right"
    <3> SUFFICES ASSUME NEW o \in Offsets, o < FileSize, f[o] = "right"
                 PROVE  Resized(f, FileSize)[o] = "right"
      OBVIOUS
    <3>1. ~ (o >= FileSize) BY SMT, <2>1, SizeAssumption
    <3> QED BY <3>1 DEF Resized
  <2> QED BY <2>2, <2>3, <2>4 DEF Keeps, Bounded
<1>2. CASE ~ (t > 0) BY <1>2 DEF Opened, Keeps
<1> QED BY <1>1, <1>2

LEMMA WrittenKeeps ==
  ASSUME NEW f \in File, NEW at \in Offsets, at < FileSize
  PROVE  Keeps(f, Written(f, at, "right")) /\ Written(f, at, "right")[at] = "right"
<1>1. Written(f, at, "right")[at] = "right" BY DEF Written
<1>2. \A o \in Offsets : f[o] = "right" => Written(f, at, "right")[o] = "right"
  BY DEF Written
<1>3. \A o \in Offsets : o >= FileSize => Written(f, at, "right")[o] = f[o]
  <2> SUFFICES ASSUME NEW o \in Offsets, o >= FileSize
               PROVE  Written(f, at, "right")[o] = f[o]
    OBVIOUS
  <2>1. o # at /\ ~ (o < at) BY SMT, SizeAssumption DEF Offsets
  <2> QED BY <2>1 DEF Written
<1> QED BY <1>1, <1>2, <1>3 DEF Keeps, Bounded

\* Counts that are the same, or less, of units that are kept.
LEMMA CountedKept ==
  ASSUME NEW ss, NEW tt, NEW f, NEW g, Counted(ss, f), Keeps(f, g), DOMAIN tt = DOMAIN ss,
         \A k \in DOMAIN ss : /\ tt[k].start = ss[k].start /\ tt[k].done = ss[k].done
                              /\ ss[k].start \in Nat /\ ss[k].done \in Nat
  PROVE  Counted(tt, g)
<1> SUFFICES ASSUME NEW k \in DOMAIN ss, NEW o \in ss[k].start .. ss[k].start + ss[k].done - 1
             PROVE  o < FileSize /\ g[o] = "right"
  BY DEF Counted
<1>1. o < FileSize /\ f[o] = "right" BY DEF Counted
<1>2. o \in Nat BY SMT
<1> QED BY <1>1, <1>2, OffsetsOfFile DEF Keeps

LEMMA SavedTyped ==
  ASSUME Typed, NEW k \in DOMAIN journal.segs
  PROVE  journal.segs[k].start \in Nat /\ journal.segs[k].done \in Nat
<1> DEFINE s == journal.segs[k]
<1>1. s \in Saved BY SMT DEF Typed
<1> HIDE DEF s
<1>2. s.start \in 0 .. FileSize - 1 /\ s.done \in 0 .. FileSize + Slack BY <1>1 DEF Saved
<1> QED BY SMT, <1>2, SizeAssumption DEF s

\* The journal on disk stays honest while units are only added.
LEMMA JournalKept ==
  ASSUME EngineInv, HonestInv, journal' = journal, Keeps(part, part'),
         pc \notin {"renamed", "cleaning"}
  PROVE  Fits(journal', FileSize) => Counted(journal'.segs, part')
BY CountedKept, SavedTyped DEF HonestInv, EngineInv

\* A segment of a plan that is full by its own count is full.
LEMMA FullOfRange ==
  ASSUME NEW ss, Shaped(ss), NEW k \in DOMAIN ss, SegIsDone(ss[k]),
         Len(ss) \in Nat, DOMAIN ss = 1 .. Len(ss),
         ss[k].start \in Int, ss[k].end \in Int, ss[k].done \in Int
  PROVE  Full(ss[k])
<1>1. ss[k].end >= 0 /\ ss[k].done >= Span(ss[k]) BY DEF SegIsDone
<1>2. ~OneStream(ss)
  <2> SUFFICES ASSUME OneStream(ss) PROVE FALSE
    OBVIOUS
  <2>1. k = 1 BY SMT DEF OneStream
  <2> QED BY SMT, <1>1, <2>1 DEF OneStream
<1>3. Within(ss[k]) BY <1>2 DEF Shaped, Pieces
<1> QED BY SMT, <1>1, <1>3 DEF Within, Span, Full

\* A step of one transfer.
LEMMA OneHonest ==
  ASSUME EngineInv, HonestInv, pc = "multi", pc' = "multi", NEW k \in DOMAIN segs, NEW s,
         segs' = [segs EXCEPT ![k] = s], s.st = "open" => Owed(s), s.st = "complete" => Full(s),
         Keeps(part, part'), UNCHANGED <<final, journal>>,
         \A o \in s.start .. s.start + s.done - 1 : o < FileSize /\ part'[o] = "right"
  PROVE  HonestInv'
<1>1. /\ DOMAIN segs' = DOMAIN segs /\ segs'[k] = s
      /\ \A j \in DOMAIN segs : j # k => segs'[j] = segs[j]
  <2>1. Len(segs) \in Nat /\ segs \in [1 .. Len(segs) -> Segment] BY SMT DEF EngineInv, Typed
  <2> QED BY <2>1
<1>2. \A j \in DOMAIN segs :
        /\ segs[j].start \in Nat /\ segs[j].done \in Nat
        /\ segs[j].st = "open" => Owed(segs[j])
        /\ segs[j].st = "complete" => Full(segs[j])
        /\ \A o \in segs[j].start .. segs[j].start + segs[j].done - 1 :
             o < FileSize /\ part[o] = "right"
  BY SegmentTyped DEF EngineInv, HonestInv, Counted
<1>3. \A j \in DOMAIN segs :
        \A o \in segs[j].start .. segs[j].start + segs[j].done - 1 :
          o < FileSize /\ part'[o] = "right"
  <2> SUFFICES ASSUME NEW j \in DOMAIN segs,
                      NEW o \in segs[j].start .. segs[j].start + segs[j].done - 1
               PROVE  o < FileSize /\ part'[o] = "right"
    OBVIOUS
  <2>1. o < FileSize /\ part[o] = "right" BY <1>2
  <2>2. o \in Nat BY SMT, <1>2
  <2> QED BY <2>1, <2>2, OffsetsOfFile DEF Keeps
<1>4. Counted(segs', part') BY <1>1, <1>3 DEF Counted
<1>5. \A j \in DOMAIN segs' : /\ segs'[j].st = "open" => Owed(segs'[j])
                             /\ segs'[j].st = "complete" => Full(segs'[j])
  BY <1>1, <1>2
<1>6. Fits(journal', FileSize) => Counted(journal'.segs, part') BY JournalKept
<1>7. Bounded(part') BY DEF Keeps, HonestInv
<1> QED BY <1>4, <1>5, <1>6, <1>7 DEF HonestInv

LEMMA PartStays == Keeps(part, part)
BY DEF Keeps

LEMMA CountedSegment ==
  ASSUME HonestInv, pc = "multi", NEW k \in DOMAIN segs
  PROVE  /\ \A o \in segs[k].start .. segs[k].start + segs[k].done - 1 :
              o < FileSize /\ part[o] = "right"
         /\ segs[k].st = "open" => Owed(segs[k])
BY DEF HonestInv, Counted

LEMMA RespondHonest ==
  ASSUME Tame, EngineInv, HonestInv, NEW k \in DOMAIN segs, NEW reply \in {"206", "200", "error"},
         NEW body \in 0 .. FileSize + ErrorBody, Respond(k, reply, body)
  PROVE  HonestInv'
<1> DEFINE o == segs[k]
           s == RespondTo(segs[k], reply, body)
<1>1. /\ o \in Segment /\ o.start \in Nat /\ o.end \in Int /\ -1 <= o.end /\ o.end < FileSize
      /\ o.done \in Nat /\ body \in Int /\ FileSize \in Nat
  <2>1. body \in Int /\ FileSize \in Nat BY SMT, SizeAssumption
  <2> QED BY <2>1, SegmentTyped DEF EngineInv
<1>2. /\ s.start = o.start /\ s.end = o.end /\ s.done = o.done /\ s.st = o.st
      /\ s.reply = reply /\ s.body = body /\ s.checked = FALSE
  BY <1>1 DEF RespondTo, Segment
<1>3. o.st = "open" /\ pc = "multi" BY DEF Respond, Open
<1>4. segs' = [segs EXCEPT ![k] = s] BY RespondOne DEF EngineInv
<1> HIDE DEF s
<1>5. Owed(s)
  <2>1. CASE reply = "206"
    <3>1. \/ o.end >= 0 /\ body = (o.end + 1) - (o.start + o.done)
          \/ body = FileSize - (o.start + o.done)
      <4>1. body \in {(IF o.end >= 0 THEN o.end + 1 ELSE FileSize) - (o.start + o.done),
                     FileSize - (o.start + o.done)}
        BY <2>1 DEF Respond
      <4> DEFINE end == IF o.end >= 0 THEN o.end + 1 ELSE FileSize
      <4>2. (o.end >= 0 /\ end = o.end + 1) \/ end = FileSize OBVIOUS
      <4>3. body = end - (o.start + o.done) \/ body = FileSize - (o.start + o.done) BY <4>1
      <4> HIDE DEF end, o
      <4> QED BY <4>2, <4>3
    <3> HIDE DEF o
    <3>2. o.start + o.done + body <= FileSize /\ (o.end < 0 => o.start + o.done + body = FileSize)
      BY SMT, <1>1, <3>1
    <3> QED BY <1>2, <2>1, <3>2 DEF Owed
  <2>2. CASE reply = "200"
    <3>1. body = FileSize BY <2>2 DEF Respond
    <3> QED BY <1>2, <2>2, <3>1 DEF Owed
  <2>3. CASE reply = "error"
    <3>1. body \in 0 .. ErrorBody BY <2>3 DEF Respond
    <3>2. body = 0 BY SMT, <3>1 DEF Tame
    <3> QED BY <1>2, <2>3, <3>2 DEF Owed
  <2> QED BY <2>1, <2>2, <2>3
<1>6. \A u \in s.start .. s.start + s.done - 1 : u < FileSize /\ part[u] = "right"
  BY <1>2, <1>3, CountedSegment
<1>7. pc' = "multi" /\ part' = part /\ UNCHANGED <<final, journal>> BY <1>3 DEF Respond, disk
<1> QED BY <1>2, <1>3, <1>4, <1>5, <1>6, <1>7, OneHonest, PartStays

LEMMA AbortHonest ==
  ASSUME EngineInv, HonestInv, NEW k \in Open, pc = "multi", Aborted(k), UNCHANGED <<disk, pc>>
  PROVE  HonestInv'
<1> DEFINE s == Abort(segs[k])
<1>1. k \in DOMAIN segs /\ segs[k].st = "open" BY DEF Open
<1>2. segs[k] \in Segment BY <1>1, SegmentTyped DEF EngineInv
<1>3. /\ s.start = segs[k].start /\ s.done = segs[k].done /\ s.st = "open"
      /\ s.reply = "aborted" /\ s.body = 0
  BY <1>1, <1>2 DEF Abort, Segment
<1>4. segs' = [segs EXCEPT ![k] = s] BY <1>1, AbortOne DEF EngineInv
<1> HIDE DEF s
<1>5. Owed(s) BY <1>3 DEF Owed
<1>6. \A u \in s.start .. s.start + s.done - 1 : u < FileSize /\ part[u] = "right"
  BY <1>1, <1>3, CountedSegment
<1> QED BY <1>1, <1>3, <1>4, <1>5, <1>6, OneHonest, PartStays DEF disk

LEMMA ExtraHonest ==
  ASSUME EngineInv, HonestInv, NEW k \in DOMAIN segs, ReceiveExtra(k)
  PROVE  HonestInv'
<1> DEFINE o == segs[k]
           s == Drop(segs[k])
<1>1. /\ o \in Segment /\ o.start \in Nat /\ o.end \in Int /\ -1 <= o.end
      /\ o.done \in Nat /\ o.body \in Nat /\ FileSize \in Nat
  <2>1. FileSize \in Nat BY SMT, SizeAssumption
  <2> QED BY <2>1, SegmentTyped DEF EngineInv
<1>2. /\ pc = "multi" /\ o.st = "open" /\ o.body > 0 /\ ~RangeIgnored(o) /\ o.end >= 0
  BY DEF ReceiveExtra, Delivering, Open, SegFull
<1>3. /\ s.start = o.start /\ s.end = o.end /\ s.done = o.done /\ s.st = o.st
      /\ s.reply = o.reply /\ s.body = o.body - 1 /\ s.checked = TRUE
  BY <1>1 DEF Drop, Segment
<1>4. segs' = [segs EXCEPT ![k] = s] BY DropOne DEF EngineInv
<1>5. Owed(o) BY <1>2, CountedSegment
<1> HIDE DEF s
<1>6. o.reply = "206"
  <2> HIDE DEF o
  <2>1. o.reply \in Replies BY <1>1 DEF Segment
  <2>2. ~ (o.end < 0) /\ o.body # 0 BY SMT, <1>1, <1>2
  <2>3. o.reply \notin {"none", "aborted", "error"} BY <1>5, <2>2 DEF Owed
  <2>4. o.reply # "200" BY <1>2, <1>5, <2>2 DEF Owed, RangeIgnored, Ranged
  <2> QED BY <2>1, <2>3, <2>4 DEF Replies
<1>7. Owed(s)
  <2> HIDE DEF o
  <2>1. o.start + o.done + o.body <= FileSize BY <1>5, <1>6 DEF Owed
  <2>2. s.start + s.done + s.body <= FileSize /\ ~ (s.end < 0) BY SMT, <1>1, <1>2, <1>3, <2>1
  <2> QED BY <1>3, <1>6, <2>2 DEF Owed
<1>8. \A u \in s.start .. s.start + s.done - 1 : u < FileSize /\ part[u] = "right"
  BY <1>2, <1>3, CountedSegment
<1>9. pc' = "multi" /\ part' = part /\ UNCHANGED <<final, journal>>
  BY <1>2 DEF ReceiveExtra, disk
<1> QED BY <1>2, <1>3, <1>4, <1>7, <1>8, <1>9, OneHonest, PartStays

\* The unit that is written is the one that belongs there.
LEMMA UnitRight ==
  ASSUME EngineInv, HonestInv, NEW k \in DOMAIN segs, ReceiveUnit(k)
  PROVE  /\ segs[k].start + segs[k].done < FileSize /\ Unit(segs[k]) = "right"
         /\ Owed(Take(segs[k]))
<1> DEFINE o == segs[k]
           s == Take(segs[k])
<1>1. /\ o \in Segment /\ o.start \in Nat /\ o.end \in Int /\ -1 <= o.end
      /\ o.done \in Nat /\ o.body \in Nat /\ FileSize \in Nat
  <2>1. FileSize \in Nat BY SMT, SizeAssumption
  <2> QED BY <2>1, SegmentTyped DEF EngineInv
<1>2. /\ pc = "multi" /\ o.st = "open" /\ o.body > 0 /\ ~RangeIgnored(o)
  BY DEF ReceiveUnit, Delivering, Open
<1>3. /\ s.start = o.start /\ s.end = o.end /\ s.done = o.done + 1 /\ s.reply = o.reply
      /\ s.body = o.body - 1 /\ s.checked = TRUE
  BY <1>1 DEF Take, Segment
<1>4. Owed(o) BY <1>2, CountedSegment
<1>5. o.end < 0 => o.start = 0
  <2> SUFFICES ASSUME o.end < 0 PROVE o.start = 0
    OBVIOUS
  <2>1. Shaped(segs) BY <1>2 DEF EngineInv
  <2>2. Len(segs) \in Nat /\ DOMAIN segs = 1 .. Len(segs) BY SMT DEF EngineInv, Typed
  <2>3. ~Pieces(segs)
    <3>1. ~ (o.start <= o.end) BY SMT, <1>1
    <3> QED BY <3>1 DEF Pieces, Within
  <2>4. OneStream(segs) BY <2>1, <2>3 DEF Shaped
  <2>5. k = 1 BY SMT, <2>2, <2>4 DEF OneStream
  <2> QED BY <2>4, <2>5 DEF OneStream
<1> HIDE DEF s, o
<1>6. o.reply \in {"206", "200"}
  <2>1. o.reply \in Replies BY <1>1 DEF Segment
  <2>2. o.body # 0 BY SMT, <1>1, <1>2
  <2> QED BY <1>4, <2>1, <2>2 DEF Owed, Replies
<1>7. CASE o.reply = "206"
  <2>1. o.start + o.done + o.body <= FileSize /\ (o.end < 0 => o.start + o.done + o.body = FileSize)
    BY <1>4, <1>7 DEF Owed
  <2>2. /\ o.start + o.done < FileSize /\ s.start + s.done + s.body <= FileSize
        /\ s.end < 0 => s.start + s.done + s.body = FileSize
    BY SMT, <1>1, <1>2, <1>3, <2>1
  <2>3. Owed(s) BY <1>3, <1>7, <2>2 DEF Owed
  <2> QED BY <1>7, <2>2, <2>3 DEF Unit, s, o
<1>8. CASE o.reply = "200"
  <2>1. o.end < 0 /\ o.start + o.done + o.body = FileSize
    <3>1. CASE o.checked BY <1>4, <1>8, <3>1 DEF Owed
    <3>2. CASE ~o.checked
      <4>1. o.body = FileSize /\ ~Ranged(o) BY <1>2, <1>4, <1>8, <3>2 DEF Owed, RangeIgnored
      <4>2. o.end < 0 /\ o.done = 0 BY SMT, <1>1, <4>1 DEF Ranged
      <4> QED BY SMT, <1>1, <1>5, <4>1, <4>2
    <3> QED BY <3>1, <3>2
  <2>2. /\ o.start + o.done < FileSize /\ o.start + o.done = FileSize - o.body /\ s.end < 0
        /\ s.start + s.done + s.body = FileSize
    BY SMT, <1>1, <1>2, <1>3, <2>1
  <2>3. Owed(s) BY <1>3, <1>8, <2>2 DEF Owed
  <2> QED BY <1>8, <2>2, <2>3 DEF Unit, s, o
<1> QED BY <1>6, <1>7, <1>8

LEMMA UnitHonest ==
  ASSUME EngineInv, HonestInv, NEW k \in DOMAIN segs, ReceiveUnit(k)
  PROVE  HonestInv'
<1> DEFINE s == Take(segs[k])
           at == segs[k].start + segs[k].done
<1>1. segs[k] \in Segment /\ segs[k].start \in Nat /\ segs[k].done \in Nat
  BY SegmentTyped DEF EngineInv
<1>2. /\ pc = "multi" /\ segs[k].st = "open" /\ at \in Offsets
      /\ part' = Written(part, at, Unit(segs[k]))
  BY DEF ReceiveUnit, Delivering, Open
<1>3. s.start = segs[k].start /\ s.done = segs[k].done + 1 /\ s.st = "open"
  BY <1>1, <1>2 DEF Take, Segment
<1>4. segs' = [segs EXCEPT ![k] = s] BY TakeOne DEF EngineInv
<1>5. at < FileSize /\ Unit(segs[k]) = "right" /\ Owed(s) BY UnitRight
<1>6. Keeps(part, part') /\ part'[at] = "right"
  BY <1>2, <1>5, WrittenKeeps DEF EngineInv, Typed
<1> HIDE DEF s
<1>7. \A u \in s.start .. s.start + s.done - 1 : u < FileSize /\ part'[u] = "right"
  <2> SUFFICES ASSUME NEW u \in s.start .. s.start + s.done - 1
               PROVE  u < FileSize /\ part'[u] = "right"
    OBVIOUS
  <2>1. u \in Nat /\ (u = at \/ u \in segs[k].start .. segs[k].start + segs[k].done - 1)
    BY SMT, <1>1, <1>3
  <2>2. CASE u = at BY <1>5, <1>6, <2>2
  <2>3. CASE u \in segs[k].start .. segs[k].start + segs[k].done - 1
    <3>1. u < FileSize /\ part[u] = "right" BY <1>2, <2>3, CountedSegment
    <3> QED BY <1>6, <2>1, <3>1, OffsetsOfFile DEF Keeps
  <2> QED BY <2>1, <2>2, <2>3
<1>8. pc' = "multi" /\ UNCHANGED <<final, journal>> BY <1>2 DEF ReceiveUnit
<1> QED BY <1>2, <1>3, <1>4, <1>5, <1>6, <1>7, <1>8, OneHonest

LEMMA ReturnHonest ==
  ASSUME EngineInv, HonestInv, pc = "multi", NEW r \in Results, Return(r)
  PROVE  HonestInv'
<1>1. Typed /\ Shaped(segs) BY DEF EngineInv
<1>2. segs' = Dropped /\ journal' = Snapshot /\ part' = part /\ final' = final /\ pc' = "returned"
  BY DEF Return, Dropped
<1>3. /\ DOMAIN Dropped = DOMAIN segs
      /\ \A k \in DOMAIN segs : /\ Dropped[k].start = segs[k].start
                               /\ Dropped[k].done = segs[k].done
      /\ \A k \in DOMAIN segs : Dropped[k].st = "complete" => Dropped[k] = segs[k]
  BY <1>1, DroppedShaped DEF SameBounds
<1>4. /\ DOMAIN Snapshot.segs = DOMAIN segs
      /\ \A k \in DOMAIN segs : /\ Snapshot.segs[k].start = segs[k].start
                               /\ Snapshot.segs[k].done = segs[k].done
  BY <1>1, SnapshotShaped DEF SameBounds
<1>5. Counted(segs, part) /\ Keeps(part, part)
      /\ \A k \in DOMAIN segs : segs[k].start \in Nat /\ segs[k].done \in Nat
  BY <1>1, SegmentTyped, PartStays DEF HonestInv
<1>6. Counted(Dropped, part) BY <1>3, <1>5, CountedKept
<1>7. Counted(Snapshot.segs, part) BY <1>4, <1>5, CountedKept
<1>8. \A k \in DOMAIN Dropped : Dropped[k].st = "complete" => Full(Dropped[k])
  BY <1>3 DEF HonestInv
<1> QED BY <1>2, <1>6, <1>7, <1>8 DEF HonestInv

LEMMA OverHonest ==
  ASSUME EngineInv, HonestInv, NEW k \in DOMAIN segs, NEW ok \in BOOLEAN, Over(k, ok)
  PROVE  HonestInv'
<1> DEFINE o == segs[k]
<1>1. /\ o \in Segment /\ o.start \in Nat /\ o.end \in Int /\ o.done \in Nat /\ FileSize \in Nat
  <2>1. FileSize \in Nat BY SMT, SizeAssumption
  <2> QED BY <2>1, SegmentTyped DEF EngineInv
<1>2. pc = "multi" /\ o.st = "open" BY DEF Over, Open
<1>3. Owed(o) BY <1>2, CountedSegment
<1>4. CASE \E r \in Results : Return(r) BY <1>2, <1>4, ReturnHonest
<1>5. CASE /\ Accepted(o, ok) /\ (ok => o.body = 0)
           /\ segs' = [segs EXCEPT ![k].st = "complete"]
           /\ UNCHANGED <<disk, pc, call, flags, cancel, rc>>
  <2> DEFINE s == [o EXCEPT !.st = "complete"]
  <2>1. s.start = o.start /\ s.end = o.end /\ s.done = o.done /\ s.st = "complete"
    BY <1>1 DEF Segment
  <2>2. segs' = [segs EXCEPT ![k] = s] BY <1>1, <1>5 DEF Segment
  <2>3. o.body = 0 /\ o.reply \in {"200", "206"} /\ (o.end < 0 \/ SegIsDone(o))
    BY <1>5 DEF Accepted
  <2> HIDE DEF s
  <2>4. Full(o)
    <3>1. CASE SegIsDone(o)
      <4>1. Len(segs) \in Nat /\ DOMAIN segs = 1 .. Len(segs) /\ Shaped(segs)
        <5>1. segs \in Seq(Segment) /\ Shaped(segs) BY <1>2 DEF EngineInv, Typed
        <5>2. Len(segs) \in Nat /\ DOMAIN segs = 1 .. Len(segs) BY SMT, <5>1
        <5> QED BY <5>1, <5>2
      <4> QED BY <1>1, <3>1, <4>1, FullOfRange
    <3>2. CASE o.end < 0
      <4> HIDE DEF o
      <4>1. o.body # FileSize BY SMT, <2>3, SizeAssumption
      <4>2. o.start + o.done + o.body = FileSize BY <1>3, <2>3, <3>2, <4>1 DEF Owed
      <4>3. o.start + o.done = FileSize BY SMT, <1>1, <2>3, <4>2
      <4> QED BY <3>2, <4>3 DEF Full
    <3> QED BY <2>3, <3>1, <3>2
  <2>5. Full(s) BY <2>1, <2>4 DEF Full, Span
  <2>6. \A u \in s.start .. s.start + s.done - 1 : u < FileSize /\ part[u] = "right"
    BY <1>2, <2>1, CountedSegment
  <2>7. pc' = "multi" /\ part' = part /\ UNCHANGED <<final, journal>> BY <1>2, <1>5 DEF disk
  <2> QED BY <1>2, <2>1, <2>2, <2>5, <2>6, <2>7, OneHonest, PartStays
<1>6. CASE /\ segs' = [segs EXCEPT ![k] = Retried(o)]
           /\ UNCHANGED <<disk, pc, call, flags, cancel, rc>>
  <2> DEFINE s == Retried(o)
  <2>1. /\ s.start = o.start /\ s.done = o.done /\ s.st = "open" /\ s.reply = "none" /\ s.body = 0
    BY <1>1 DEF Segment, Retried, Requested
  <2>2. segs' = [segs EXCEPT ![k] = s] BY <1>6
  <2> HIDE DEF s
  <2>3. Owed(s) BY <2>1 DEF Owed
  <2>4. \A u \in s.start .. s.start + s.done - 1 : u < FileSize /\ part[u] = "right"
    BY <1>2, <2>1, CountedSegment
  <2>5. pc' = "multi" /\ part' = part /\ UNCHANGED <<final, journal>> BY <1>2, <1>6 DEF disk
  <2> QED BY <1>2, <2>1, <2>2, <2>3, <2>4, <2>5, OneHonest, PartStays
<1> QED BY <1>4, <1>5, <1>6 DEF Over, Results

LEMMA TransferHonest == Tame /\ EngineInv /\ HonestInv /\ Transfer => HonestInv'
<1> SUFFICES ASSUME Tame, EngineInv, HonestInv, Transfer PROVE HonestInv'
  OBVIOUS
<1>1. PICK k \in DOMAIN segs :
        \/ \E reply \in {"206", "200", "error"}, body \in 0 .. FileSize + ErrorBody :
             Respond(k, reply, body)
        \/ ReceiveCancelled(k) \/ ReceiveIgnored(k) \/ ReceiveExtra(k)
        \/ ReceiveUnit(k) \/ ReceiveFails(k)
        \/ \E ok \in BOOLEAN : Over(k, ok)
  BY DEF Transfer
<1>2. CASE ReceiveCancelled(k) \/ ReceiveIgnored(k) \/ ReceiveFails(k)
  BY <1>2, AbortHonest DEF ReceiveCancelled, ReceiveIgnored, ReceiveFails, Delivering
<1> QED BY <1>1, <1>2, RespondHonest, ExtraHonest, UnitHonest, OverHonest

\* The start of run_multi, for segments that count what is on disk.
LEMMA LaunchHonest ==
  ASSUME EngineInv, HonestInv, pc \notin {"renamed", "cleaning"}, NEW t \in {-1, FileSize},
         NEW ss \in Seq(Segment), Shaped(ss), Counted(ss, part), segs' = Launched(ss),
         pc' = "multi", part' = Opened(part, t), UNCHANGED <<final, journal>>
  PROVE  HonestInv'
<1>1. /\ segs' \in Seq(Segment) /\ Shaped(segs') /\ DOMAIN segs' = DOMAIN ss
      /\ \A k \in DOMAIN ss : segs'[k].start = ss[k].start /\ segs'[k].done = ss[k].done
      /\ \A k \in DOMAIN ss : Asking(segs'[k])
                             \/ (SegIsDone(segs'[k]) /\ segs'[k].st = "complete")
  BY LaunchedShaped DEF SameBounds
<1>2. Keeps(part, part') BY OpenedKeeps DEF EngineInv, Typed
<1>3. \A k \in DOMAIN ss : ss[k].start \in Nat /\ ss[k].done \in Nat
  <2> SUFFICES ASSUME NEW k \in DOMAIN ss PROVE ss[k].start \in Nat /\ ss[k].done \in Nat
    OBVIOUS
  <2>1. ss[k] \in Segment BY SMT
  <2>2. ss[k].start \in 0 .. FileSize - 1 /\ ss[k].done \in 0 .. FileSize + Slack
    BY <2>1 DEF Segment
  <2> QED BY SMT, <2>2, SizeAssumption
<1>4. Counted(segs', part') BY <1>1, <1>2, <1>3, CountedKept
<1>5. Len(segs') \in Nat /\ DOMAIN segs' = 1 .. Len(segs')
      /\ \A k \in DOMAIN segs' : segs'[k] \in Segment
  BY SMT, <1>1
<1>6. ASSUME NEW k \in DOMAIN segs'
      PROVE  /\ segs'[k].st = "open" => Owed(segs'[k])
             /\ segs'[k].st = "complete" => Full(segs'[k])
  <2> DEFINE s == segs'[k]
  <2>1. CASE Asking(s) BY <2>1 DEF Asking, Owed
  <2>2. CASE SegIsDone(s) /\ s.st = "complete"
    <3>1. s \in Segment BY <1>5
    <3> HIDE DEF s
    <3>2. s.start \in Int /\ s.end \in Int /\ s.done \in Int
      <4>1. /\ s.start \in 0 .. FileSize - 1 /\ s.end \in -1 .. FileSize - 1
            /\ s.done \in 0 .. FileSize + Slack
        BY <3>1 DEF Segment
      <4> QED BY SMT, <4>1, SizeAssumption
    <3>3. Full(s) BY <1>1, <1>5, <1>6, <2>2, <3>2, FullOfRange DEF s
    <3> QED BY <2>2, <3>3 DEF s
  <2> QED BY <1>1, <1>6, <2>1, <2>2
<1>7. Fits(journal', FileSize) => Counted(journal'.segs, part') BY <1>2, JournalKept
<1>8. Bounded(part') BY <1>2 DEF Keeps, HonestInv
<1> QED BY <1>4, <1>6, <1>7, <1>8 DEF HonestInv

LEMMA StartHonest ==
  ASSUME EngineInv, HonestInv, NEW t \in {-1, FileSize}, NEW r \in BOOLEAN, Start(t, r)
  PROVE  HonestInv'
<1> DEFINE ss == IF Fits(journal, t) THEN Resumed(journal) ELSE Plan(t, r)
<1>1. ss \in Seq(Segment) /\ Shaped(ss) /\ Counted(ss, part)
  <2>1. CASE Fits(journal, t)
    <3>1. Shaped(journal.segs) BY <2>1 DEF EngineInv, Fits
    <3>2. /\ t = FileSize /\ ss \in Seq(Segment) /\ Shaped(ss)
          /\ DOMAIN ss = DOMAIN journal.segs
          /\ \A k \in DOMAIN journal.segs : /\ ss[k].start = journal.segs[k].start
                                           /\ ss[k].done = journal.segs[k].done
      BY <2>1, <3>1, ResumedShaped DEF EngineInv, SameBounds
    <3>3. Counted(journal.segs, part) BY <2>1, <3>2 DEF HonestInv, Start
    <3> HIDE DEF ss
    <3>4. \A k \in DOMAIN journal.segs : /\ journal.segs[k].start \in Nat
                                        /\ journal.segs[k].done \in Nat
      BY SavedTyped DEF EngineInv
    <3>5. Counted(ss, part) BY <3>2, <3>3, <3>4, PartStays, CountedKept
    <3> QED BY <3>2, <3>5
  <2>2. CASE ~Fits(journal, t)
    <3>1. ss \in Seq(Segment) /\ Shaped(ss) /\ \A k \in DOMAIN ss : Fresh(ss[k])
      BY <2>2, PlanShaped
    <3> HIDE DEF ss
    <3>2. Counted(ss, part)
      <4> SUFFICES ASSUME NEW k \in DOMAIN ss, NEW o \in ss[k].start .. ss[k].start + ss[k].done - 1
                   PROVE  FALSE
        BY DEF Counted
      <4>1. ss[k].done = 0 BY <3>1 DEF Fresh
      <4>2. ss[k].start \in Int
        <5>1. ss[k] \in Segment BY SMT, <3>1
        <5>2. ss[k].start \in 0 .. FileSize - 1 BY <5>1 DEF Segment
        <5> QED BY SMT, <5>2, SizeAssumption
      <4> QED BY SMT, <4>1, <4>2
    <3> QED BY <3>1, <3>2
  <2> QED BY <2>1, <2>2
<1>2. /\ segs' = Launched(ss) /\ pc' = "multi" /\ part' = Opened(part, t)
      /\ UNCHANGED <<final, journal>> /\ pc = "idle"
  BY DEF Start
<1> HIDE DEF ss
<1> QED BY <1>1, <1>2, LaunchHonest

LEMMA FallBackHonest == EngineInv /\ HonestInv /\ FallBack => HonestInv'
<1> SUFFICES ASSUME EngineInv, HonestInv, FallBack PROVE HonestInv'
  OBVIOUS
<1>1. Counted(Single, part)
  <2>1. DOMAIN Single = {1} /\ Single[1].start = 0 /\ Single[1].done = 0 BY SMT DEF Single, Planned
  <2>2. 0 .. 0 + 0 - 1 = {} BY SMT
  <2> QED BY <2>1, <2>2 DEF Counted
<1> QED BY <1>1, SingleShaped, LaunchHonest DEF FallBack, EngineInv, Typed

\* All segments full: the part file is the file.
LEMMA AllFullIsWhole ==
  ASSUME EngineInv, HonestInv, pc = "returned", AllComplete
  PROVE  Whole(part)
<1>1. /\ Bounded(part) /\ Counted(segs, part) /\ Shaped(segs)
      /\ \A k \in DOMAIN segs : Full(segs[k])
  BY DEF HonestInv, AllComplete, EngineInv
<1>2. Len(segs) \in Nat /\ DOMAIN segs = 1 .. Len(segs) BY SMT DEF EngineInv, Typed
<1>3. ASSUME NEW o \in Offsets, o < FileSize
      PROVE  part[o] = "right"
  <2>1. o \in Nat /\ FileSize \in Nat BY SMT, SizeAssumption DEF Offsets
  <2>2. CASE OneStream(segs)
    <3>1. 1 \in DOMAIN segs /\ segs[1].start = 0 /\ segs[1].end = -1
      BY SMT, <1>2, <2>2 DEF OneStream
    <3>2. segs[1].done \in Nat BY <3>1, SegmentTyped DEF EngineInv
    <3>3. segs[1].start + segs[1].done = FileSize BY SMT, <1>1, <3>1 DEF Full
    <3>4. o \in segs[1].start .. segs[1].start + segs[1].done - 1
      BY SMT, <1>3, <2>1, <3>1, <3>2, <3>3
    <3> QED BY <1>1, <3>1, <3>4 DEF Counted
  <2>3. CASE Pieces(segs)
    <3>1. o \in 0 .. FileSize - 1 BY SMT, <1>3, <2>1
    <3>2. PICK k \in DOMAIN segs : segs[k].start <= o /\ o <= segs[k].end
      BY <2>3, <3>1 DEF Pieces, Covers
    <3>3. segs[k].start \in Nat /\ segs[k].end \in Int /\ segs[k].done \in Nat
      BY SegmentTyped DEF EngineInv
    <3>4. Full(segs[k]) BY <1>1
    <3>5. o \in segs[k].start .. segs[k].start + segs[k].done - 1
      <4>1. ~ (segs[k].end < 0) BY SMT, <2>1, <3>2, <3>3
      <4>2. segs[k].done = segs[k].end - segs[k].start + 1 BY <3>4, <4>1 DEF Full, Span
      <4> QED BY SMT, <2>1, <3>2, <3>3, <4>2
    <3> QED BY <1>1, <3>5 DEF Counted
  <2> QED BY <1>1, <2>2, <2>3 DEF Shaped
<1>4. ASSUME NEW o \in Offsets, ~ (o < FileSize)
      PROVE  part[o] = "eof"
  <2>1. o >= FileSize BY SMT, <1>4, SizeAssumption DEF Offsets
  <2> QED BY <1>1, <2>1 DEF Bounded
<1> QED BY <1>3, <1>4 DEF Whole

LEMMA EmptyBounded == Bounded(NoFile)
BY DEF Bounded, NoFile

LEMMA NothingFits == \A t : ~Fits(NoJournal, t)
BY SMT DEF Fits, NoJournal

LEMMA OthersHonest ==
  ASSUME Tame, EngineInv, HonestInv,
         \/ LoopEnds \/ MultiFails \/ FinishFails \/ Finish \/ UnlinkJournal \/ GiveUp
         \/ StartFails \/ SaveJournal \/ RequestCancel \/ DeletePart \/ DeleteJournal \/ Crash
  PROVE  HonestInv'
<1>1. CASE LoopEnds \/ MultiFails
  BY <1>1, ReturnHonest DEF LoopEnds, MultiFails, Results
<1>2. CASE FinishFails \/ GiveUp \/ Crash
  <2>1. pc \in {"multi", "returned"} BY <1>2 DEF FinishFails, GiveUp, Crash, Tame
  <2>2. pc' = "idle" /\ UNCHANGED disk BY <1>2 DEF FinishFails, GiveUp, Crash, Released
  <2> QED BY <2>1, <2>2 DEF HonestInv, disk
<1>3. CASE UnlinkJournal
  BY <1>3, NothingFits DEF UnlinkJournal, Released, HonestInv
<1>4. CASE Finish
  BY <1>4, AllFullIsWhole, EmptyBounded DEF Finish, HonestInv
<1>5. CASE StartFails BY <1>5 DEF StartFails, disk, HonestInv
<1>6. CASE SaveJournal
  <2>1. pc = "multi" /\ pc' = pc /\ journal' = Snapshot /\ UNCHANGED <<part, final, segs>>
    BY <1>6 DEF SaveJournal
  <2>2. /\ DOMAIN Snapshot.segs = DOMAIN segs
        /\ \A k \in DOMAIN segs : /\ Snapshot.segs[k].start = segs[k].start
                                 /\ Snapshot.segs[k].done = segs[k].done
    BY <2>1, SnapshotShaped DEF SameBounds, EngineInv
  <2>3. Counted(segs, part) /\ \A k \in DOMAIN segs : segs[k].start \in Nat /\ segs[k].done \in Nat
    BY <2>1, SegmentTyped DEF HonestInv, EngineInv
  <2>4. Counted(Snapshot.segs, part) BY <2>2, <2>3, PartStays, CountedKept
  <2> QED BY <2>1, <2>4 DEF HonestInv
<1>7. CASE RequestCancel BY <1>7 DEF RequestCancel, disk, HonestInv
<1>8. CASE DeletePart BY <1>8, EmptyBounded DEF DeletePart, HonestInv
<1>9. CASE DeleteJournal BY <1>9, NothingFits DEF DeleteJournal, HonestInv
<1> QED BY <1>1, <1>2, <1>3, <1>4, <1>5, <1>6, <1>7, <1>8, <1>9

LEMMA HonestStarts == Init => HonestInv
BY EmptyBounded, NothingFits DEF Init, HonestInv

LEMMA HonestStep ==
  ASSUME Tame, EngineInv, HonestInv, [Next]_vars
  PROVE  HonestInv'
<1>1. CASE Next
  <2>1. CASE \E p \in Probed : Start(p[1], p[2]) BY <2>1, StartHonest, ProbedTyped
  <2> QED BY <1>1, <2>1, TransferHonest, FallBackHonest, OthersHonest DEF Next, Ending
<1>2. CASE UNCHANGED vars BY <1>2 DEF vars, HonestInv
<1> QED BY <1>1, <1>2

\* What is counted is on disk and right, and what is on disk beyond it does not
\* matter, as long as no error reply brings a body and the process does not die
\* between the rename and the unlink of the journal.
THEOREM HonestInductive ==
  ASSUME Tame
  PROVE  Spec => []HonestInv
BY EngineInductive, HonestStarts, HonestStep, PTL DEF Spec

\* What a call has counted is the sum of its segments and is on disk and right
\* (seg_write_cb, run_multi and the restart as one stream, download.c).
THEOREM ProgressKept ==
  ASSUME Tame
  PROVE  Spec => []ProgressHonest
<1>1. EngineInv /\ HonestInv => ProgressHonest
  BY DEF EngineInv, HonestInv, Counted, ProgressHonest
<1> QED BY <1>1, EngineInductive, HonestInductive, PTL

\* A journal that the next call would accept counts only what is on disk and
\* right (download.c:12-13), wherever the process dies before the rename.
THEOREM JournalStaysHonest ==
  ASSUME Tame
  PROVE  Spec => []JournalHonest
<1>1. HonestInv => JournalHonest
  BY DEF HonestInv, Counted, JournalHonest
<1> QED BY <1>1, HonestInductive, PTL

\* Only the whole file is ever renamed to the output path (download.c:14-15).
THEOREM FinalStaysWhole ==
  ASSUME Tame
  PROVE  Spec => []FinalWhole
<1>1. HonestInv => FinalWhole BY DEF HonestInv, FinalWhole
<1> QED BY <1>1, HonestInductive, PTL

---------------------------------------------------------------------------
(* The engine implements FileDelivery *)

LEMMA WholeIsAFile == \A f : Whole(f) => f # NoFile
<1> SUFFICES ASSUME Whole(NoFile) PROVE FALSE
  OBVIOUS
<1>1. 0 \in Offsets /\ 0 < FileSize BY SMT, SizeAssumption DEF Offsets
<1>2. NoFile[0] = "right" BY <1>1 DEF Whole
<1> QED BY <1>1, <1>2 DEF NoFile

LEMMA DeliveryStarts == Init => Delivery!Init
BY DEF Init, Delivery!Init

\* Steps within a call, and of the caller's cleanup, are not seen from outside.
LEMMA Unseen ==
  ASSUME final' = final,
         \/ /\ pc \in {"multi", "returned", "renamed"} /\ pc' \in {"multi", "returned", "renamed"}
         \/ pc \in {"idle", "cleaning"} /\ pc' \in {"idle", "cleaning"} /\ rc' = rc
  PROVE  UNCHANGED Delivery!vars
<1>1. (pc \in {"multi", "returned", "renamed"})' = (pc \in {"multi", "returned", "renamed"})
  OBVIOUS
<1>2. (rc = "ok" /\ pc \in {"idle", "cleaning"})' = (rc = "ok" /\ pc \in {"idle", "cleaning"})
  OBVIOUS
<1> QED BY <1>1, <1>2 DEF Delivery!vars, Whole

LEMMA DeliveryStep ==
  ASSUME Tame, EngineInv, HonestInv, [Next]_vars
  PROVE  [Delivery!Next]_(Delivery!vars)
<1>1. CASE \E p \in Probed : Start(p[1], p[2])
  BY <1>1 DEF Start, Delivery!Next, Delivery!Begin, Whole
<1>2. CASE StartFails
  BY <1>2 DEF StartFails, disk, Delivery!Next, Delivery!Fail, Whole
<1>3. CASE Transfer
  <2>1. /\ final' = final /\ pc = "multi" /\ pc' \in {"multi", "returned"}
    <3>1. ASSUME NEW k, NEW ok, Over(k, ok)
          PROVE  final' = final /\ pc = "multi" /\ pc' \in {"multi", "returned"}
      BY <3>1 DEF Over, Return, disk
    <3>2. ASSUME NEW k, NEW reply, NEW body, Respond(k, reply, body)
          PROVE  final' = final /\ pc = "multi" /\ pc' = "multi"
      BY <3>2 DEF Respond, disk
    <3>3. ASSUME NEW k, \/ ReceiveCancelled(k) \/ ReceiveIgnored(k) \/ ReceiveExtra(k)
                        \/ ReceiveUnit(k) \/ ReceiveFails(k)
          PROVE  final' = final /\ pc = "multi" /\ pc' = "multi"
      BY <3>3 DEF ReceiveCancelled, ReceiveIgnored, ReceiveExtra, ReceiveUnit, ReceiveFails,
                  Delivering, disk
    <3> QED BY <1>3, <3>1, <3>2, <3>3 DEF Transfer
  <2> QED BY <2>1, Unseen
<1>4. CASE SaveJournal \/ LoopEnds \/ MultiFails \/ FallBack \/ RequestCancel
  <2>1. /\ final' = final /\ pc \in {"multi", "returned", "renamed"}
        /\ pc' \in {"multi", "returned", "renamed"}
    BY <1>4 DEF SaveJournal, LoopEnds, MultiFails, Return, FallBack, RequestCancel, disk
  <2> QED BY <2>1, Unseen
<1>5. CASE FinishFails \/ GiveUp \/ Crash
  <2>1. pc' = "idle" /\ rc' # "ok" /\ final' = final
    BY <1>5 DEF FinishFails, GiveUp, Crash, Released, disk
  <2> QED BY <2>1 DEF Delivery!Next, Delivery!Fail, Whole
<1>6. CASE Finish
  <2>1. Whole(final') BY <1>6, AllFullIsWhole DEF Finish
  <2>2. final' # NoFile BY <2>1, WholeIsAFile
  <2> QED BY <1>6, <2>1, <2>2 DEF Finish, Delivery!Next, Delivery!Deliver, Whole
<1>7. CASE UnlinkJournal
  <2>1. Whole(final) BY <1>7 DEF UnlinkJournal, HonestInv
  <2>2. final # NoFile BY <2>1, WholeIsAFile
  <2> QED BY <1>7, <2>1, <2>2
       DEF UnlinkJournal, Released, Delivery!Next, Delivery!Succeed, Whole
<1>8. CASE DeletePart \/ DeleteJournal
  <2>1. final' = final /\ rc' = rc /\ pc \in {"idle", "cleaning"} /\ pc' \in {"idle", "cleaning"}
    BY <1>8 DEF DeletePart, DeleteJournal
  <2> QED BY <2>1, Unseen
<1>9. CASE UNCHANGED vars
  BY <1>9 DEF vars, Delivery!vars, Whole
<1> QED BY <1>1, <1>2, <1>3, <1>4, <1>5, <1>6, <1>7, <1>8, <1>9 DEF Next, Ending

\* A call of dlm_download_file keeps what dlm.h:57-60 and download.c:14-15
\* promise: the output path changes only by getting the whole file, and success
\* is reported only then.
THEOREM PromiseKept ==
  ASSUME Tame
  PROVE  Spec => Promise
BY EngineInductive, HonestInductive, DeliveryStarts, DeliveryStep, PTL
   DEF Promise, Spec, Delivery!Spec
=============================================================================
