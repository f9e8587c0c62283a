-------------------------- MODULE FileNamesProofs --------------------------
(* For every text, wherever it comes from and however often it crosses the   *)
(* bridge: the buffers of jni_common.h are long enough, and the VM is given  *)
(* what it takes; and what Java made of a text once, it makes of it for ever.*)
(* Every name native code makes of a URL, of a title or of a file of an item *)
(* stays one component of a path, whatever bytes it is made of, and the link *)
(* to a file asks for that file.                                             *)
EXTENDS FileNames, FiniteSetTheorems, WellFoundedInduction, TLAPS

---------------------------------------------------------------------------
(* Positions, counted *)

LEMMA LeastNat ==
  ASSUME NEW T, T \subseteq Nat, T # {}
  PROVE  \E n \in T : \A m \in T : n <= m
<1> DEFINE R == OpToRel(<, Nat)
<1>1. IsWellFoundedOn(R, Nat) BY NatLessThanWellFounded
<1>2. \A a, b \in Nat : <<a, b>> \in R <=> a < b BY DEF OpToRel
<1> HIDE DEF R
<1>3. PICK n \in T : \A m \in T : ~ (<<m, n>> \in R) BY <1>1, WFMin
<1>4. n \in Nat /\ \A m \in T : m \in Nat /\ ~ (m < n) BY <1>2, <1>3
<1>5. \A m \in T : n <= m
  <2> SUFFICES ASSUME NEW m \in T PROVE n <= m
    OBVIOUS
  <2>1. m \in Nat /\ ~ (m < n) BY <1>4
  <2> QED BY SMT, <1>4, <2>1
<1> QED BY <1>5

LEMMA IntervalFinite == \A n \in Nat : IsFiniteSet(1 .. n) /\ Cardinality(1 .. n) = n
BY SMT, FS_Interval

\* A set of positions that lacks none before one it has is an interval.
LEMMA Leading ==
  ASSUME NEW n \in Nat, NEW P \in SUBSET (1 .. n), \A k \in P : \A j \in 1 .. k : j \in P
  PROVE  P = 1 .. Cardinality(P)
<1> DEFINE T == {m \in 1 .. (n + 1) : m \notin P}
<1>1. n + 1 \in T BY SMT
<1>2. PICK m \in T : \A k \in T : m <= k
  <2>1. T \subseteq Nat /\ T # {} BY <1>1
  <2> HIDE DEF T
  <2> QED BY <2>1, LeastNat
<1>3. m \in 1 .. (n + 1) /\ m \notin P BY <1>2
<1>4. \A k \in 1 .. (m - 1) : k \in P
  <2> SUFFICES ASSUME NEW k \in 1 .. (m - 1), k \notin P PROVE FALSE
    OBVIOUS
  <2>1. k \in 1 .. (n + 1) /\ ~ (m <= k) BY SMT, <1>3
  <2> QED BY <1>2, <2>1
<1>5. \A k \in P : k \in 1 .. (m - 1)
  <2> SUFFICES ASSUME NEW k \in P PROVE k \in 1 .. (m - 1)
    OBVIOUS
  <2>1. k \in 1 .. n /\ ~ (m \in 1 .. k) BY <1>3
  <2> QED BY SMT, <1>3, <2>1
<1>6. P = 1 .. (m - 1) BY <1>4, <1>5
<1>7. Cardinality(1 .. (m - 1)) = m - 1 BY SMT, <1>3, FS_Interval
<1> QED BY <1>6, <1>7

LEMMA UpToExact ==
  ASSUME NEW T, NEW b \in Seq(T), NEW S
  PROVE  /\ UpTo(b, S) \in Seq(T \ S)
         /\ (\A k \in DOMAIN b : b[k] \notin S) => UpTo(b, S) = b
<1> DEFINE P == {k \in DOMAIN b : \A j \in 1 .. k : b[j] \notin S}
           c == Cardinality(P)
<1>1. Len(b) \in Nat /\ DOMAIN b = 1 .. Len(b) /\ \A k \in 1 .. Len(b) : b[k] \in T BY SMT
<1>2. P \in SUBSET (1 .. Len(b)) BY <1>1
<1>3. ASSUME NEW k \in P, NEW j \in 1 .. k PROVE j \in P
  <2>1. k \in 1 .. Len(b) /\ \A h \in 1 .. k : b[h] \notin S BY <1>1
  <2>2. j \in 1 .. Len(b) /\ \A h \in 1 .. j : h \in 1 .. k BY SMT, <1>1, <2>1
  <2> QED BY <1>1, <2>1, <2>2
<1>4. P = 1 .. c /\ c \in 0 .. Len(b)
  <2> HIDE DEF P
  <2>1. P = 1 .. Cardinality(P) BY <1>1, <1>2, <1>3, Leading
  <2>2. IsFiniteSet(1 .. Len(b)) /\ Cardinality(1 .. Len(b)) = Len(b) BY <1>1, IntervalFinite
  <2>3. Cardinality(P) <= Len(b) /\ Cardinality(P) \in Nat
    BY <1>2, <2>2, FS_Subset, FS_CardinalityType
  <2> QED BY SMT, <1>1, <2>1, <2>3
<1>5. UpTo(b, S) = SubSeq(b, 1, c) BY DEF UpTo
<1>6. \A k \in 1 .. c : b[k] \notin S
  <2>1. \A k \in P : b[k] \notin S
    <3> SUFFICES ASSUME NEW k \in P PROVE b[k] \notin S
      OBVIOUS
    <3>1. k \in 1 .. k BY SMT, <1>1
    <3> QED BY <3>1
  <2> QED BY <1>4, <2>1
<1>7. (\A k \in DOMAIN b : b[k] \notin S) => P = 1 .. Len(b)
  <2> SUFFICES ASSUME \A k \in DOMAIN b : b[k] \notin S, NEW k \in 1 .. Len(b), NEW j \in 1 .. k
               PROVE  b[j] \notin S
    BY <1>1
  <2>1. j \in 1 .. Len(b) BY SMT, <1>1
  <2> QED BY <1>1, <2>1
<1>8. (\A k \in DOMAIN b : b[k] \notin S) => c = Len(b)
  <2>1. Cardinality(1 .. Len(b)) = Len(b) BY <1>1, IntervalFinite
  <2> QED BY <1>7, <2>1
<1> HIDE DEF P, c
<1>9. SubSeq(b, 1, c) \in Seq(T \ S)
  <2>0. c \in Nat /\ c <= Len(b) BY SMT, <1>1, <1>4
  <2>1. \A k \in 1 .. c : b[k] \in T \ S
    <3> SUFFICES ASSUME NEW k \in 1 .. c PROVE b[k] \in T \ S
      OBVIOUS
    <3>1. k \in 1 .. Len(b) BY SMT, <1>1, <1>4
    <3> QED BY <1>1, <1>6, <3>1
  <2> HIDE DEF c
  <2>2. SubSeq(b, 1, c) \in [1 .. c -> T \ S]
    <3>1. SubSeq(b, 1, c) = [k \in 1 .. c |-> b[k]]
      <4>1. SubSeq(b, 1, c) = [k \in 1 .. c |-> SubSeq(b, 1, c)[k]] BY SMT, <1>1, <2>0
      <4>2. \A k \in 1 .. c : SubSeq(b, 1, c)[k] = b[k] BY SMT, <1>1, <2>0
      <4> QED BY <4>1, <4>2
    <3> QED BY <2>1, <3>1
  <2>3. \A f \in [1 .. c -> T \ S] : f \in Seq(T \ S) BY SMT, <2>0
  <2> QED BY <2>2, <2>3
<1>10. ASSUME c = Len(b) PROVE SubSeq(b, 1, c) = b
  BY SMT, <1>1, <1>10
<1> QED BY <1>5, <1>8, <1>9, <1>10

Below(S, k) == {j \in S : j < k}

LEMMA CountBelow ==
  ASSUME NEW N \in Nat, NEW S \in SUBSET (1 .. N), NEW k \in Nat
  PROVE  /\ IsFiniteSet(Below(S, k)) /\ Cardinality(Below(S, k)) \in Nat
         /\ Cardinality(Below(S, k + 1))
              = IF k \in S THEN Cardinality(Below(S, k)) + 1 ELSE Cardinality(Below(S, k))
<1>1. IsFiniteSet(1 .. N) BY SMT, FS_Interval
<1>2. IsFiniteSet(S) BY <1>1, FS_Subset
<1>3. Below(S, k) \in SUBSET S BY DEF Below
<1>4. IsFiniteSet(Below(S, k)) /\ Cardinality(Below(S, k)) \in Nat
  BY <1>2, <1>3, FS_Subset, FS_CardinalityType
<1>5. \A j \in S : j < k + 1 <=> j < k \/ j = k BY SMT
<1>6. Below(S, k + 1) = IF k \in S THEN Below(S, k) \cup {k} ELSE Below(S, k)
  BY <1>5 DEF Below
<1>7. k \notin Below(S, k) BY SMT DEF Below
<1> QED BY <1>4, <1>6, <1>7, FS_AddElement

LEMMA BelowGrows ==
  ASSUME NEW N \in Nat, NEW S \in SUBSET (1 .. N), NEW j \in S, NEW k \in Nat, j < k
  PROVE  Cardinality(Below(S, j)) < Cardinality(Below(S, k))
<1>1. j \in Nat BY SMT
<1>2. Below(S, j + 1) \in SUBSET Below(S, k)
  <2>1. \A h \in S : h < j + 1 => h < k
    <3>1. \A h \in S : h \in Nat BY SMT
    <3> QED BY SMT, <1>1, <3>1
  <2> QED BY <2>1 DEF Below
<1>3. Cardinality(Below(S, j + 1)) <= Cardinality(Below(S, k)) BY <1>2, CountBelow, FS_Subset
<1> HIDE DEF Below
<1>4. /\ Cardinality(Below(S, j)) \in Nat /\ Cardinality(Below(S, k)) \in Nat
      /\ Cardinality(Below(S, j + 1)) = Cardinality(Below(S, j)) + 1
  BY <1>1, CountBelow
<1> QED BY SMT, <1>3, <1>4

\* Nth enumerates a set of positions in order.
LEMMA NthIs ==
  ASSUME NEW N \in Nat, NEW S \in SUBSET (1 .. N), NEW k \in S
  PROVE  Nth(S, Cardinality(Below(S, k)) + 1) = k
<1>1. k \in Nat /\ \A j \in S : j \in Nat BY SMT
<1> DEFINE n == Cardinality(Below(S, k)) + 1
<1>2. n - 1 = Cardinality(Below(S, k))
  <2>1. Cardinality(Below(S, k)) \in Nat BY <1>1, CountBelow
  <2> QED BY SMT, <2>1
<1>3. \A j \in S : Cardinality(Below(S, j)) \in Nat BY <1>1, CountBelow
<1>4. ASSUME NEW j \in S, Cardinality(Below(S, j)) = Cardinality(Below(S, k)) PROVE j = k
  <2>1. ~ (Cardinality(Below(S, j)) < Cardinality(Below(S, k)))
        /\ ~ (Cardinality(Below(S, k)) < Cardinality(Below(S, j)))
    BY SMT, <1>3, <1>4
  <2>2. ~ (j < k) /\ ~ (k < j) BY <1>1, <2>1, BelowGrows
  <2> QED BY SMT, <1>1, <2>2
<1>5. Nth(S, n) = CHOOSE j \in S : Cardinality(Below(S, j)) = n - 1 BY DEF Nth, Below
<1> HIDE DEF n
<1>6. Nth(S, n) = k BY <1>2, <1>4, <1>5
<1> QED BY <1>6 DEF n

LEMMA Sorted ==
  ASSUME NEW N \in Nat, NEW S \in SUBSET (1 .. N)
  PROVE  /\ Cardinality(S) \in Nat
         /\ \A n \in 1 .. Cardinality(S) : Nth(S, n) \in S
         /\ \A k \in S : \E n \in 1 .. Cardinality(S) : Nth(S, n) = k
         /\ \A m, n \in 1 .. Cardinality(S) : m < n => Nth(S, m) < Nth(S, n)
<1> DEFINE c == Cardinality(S)
           B(k) == Cardinality(Below(S, k))
<1>0. IsFiniteSet(S) /\ c \in Nat
  <2>1. IsFiniteSet(1 .. N) BY SMT, FS_Interval
  <2> QED BY <2>1, FS_Subset, FS_CardinalityType
<1>1. \A k \in S : k \in Nat BY SMT
<1>2. B(N + 1) = c
  <2>1. \A k \in S : k < N + 1 BY SMT
  <2>2. Below(S, N + 1) = S BY <2>1 DEF Below
  <2> QED BY <2>2
<1>3. \A k \in Nat : B(k) \in Nat /\ B(k + 1) = IF k \in S THEN B(k) + 1 ELSE B(k)
  BY CountBelow
<1>4. B(0) = 0
  <2>0. \A k \in Nat : ~ (k < 0) BY SMT
  <2>1. Below(S, 0) = {} BY <1>1, <2>0 DEF Below
  <2> QED BY <2>1, FS_EmptySet
<1>5. ASSUME NEW k \in S PROVE B(k) + 1 \in 1 .. c /\ Nth(S, B(k) + 1) = k
  <2>1. B(k) < B(N + 1) BY SMT, <1>1, BelowGrows
  <2>2. Nth(S, B(k) + 1) = k BY NthIs
  <2>3. B(k) \in Nat BY <1>1, <1>3
  <2> HIDE DEF B, c
  <2>4. B(k) + 1 \in 1 .. c BY SMT, <1>0, <1>2, <2>1, <2>3
  <2> QED BY <2>2, <2>4
<1> HIDE DEF B, c
<1>6. ASSUME NEW n \in 1 .. c PROVE \E k \in S : B(k) + 1 = n
  <2> DEFINE T == {k \in Nat : B(k) >= n}
  <2>1. N + 1 \in T BY SMT, <1>0, <1>2
  <2>2. PICK k \in T : \A j \in T : k <= j
    <3>1. T \subseteq Nat /\ T # {} BY <2>1
    <3> HIDE DEF T
    <3> QED BY <3>1, LeastNat
  <2>3. k \in Nat /\ B(k) >= n BY <2>2
  <2>4. k # 0 BY SMT, <1>0, <1>4, <2>3
  <2>5. k - 1 \in Nat /\ (k - 1) + 1 = k /\ ~ (k <= k - 1) BY SMT, <2>3, <2>4
  <2>6. ~ (B(k - 1) >= n) BY <2>2, <2>5
  <2>7. B(k - 1) \in Nat /\ B(k) = IF k - 1 \in S THEN B(k - 1) + 1 ELSE B(k - 1)
    BY <1>3, <2>5
  <2>8. k - 1 \in S /\ B(k - 1) + 1 = n BY SMT, <1>0, <2>3, <2>6, <2>7
  <2> QED BY <2>8
<1>7. \A n \in 1 .. c : Nth(S, n) \in S /\ B(Nth(S, n)) + 1 = n BY <1>5, <1>6
<1>8. ASSUME NEW m \in 1 .. c, NEW n \in 1 .. c, m < n PROVE Nth(S, m) < Nth(S, n)
  <2> DEFINE p == Nth(S, m)
             q == Nth(S, n)
  <2>1. p \in S /\ q \in S /\ B(p) + 1 = m /\ B(q) + 1 = n BY <1>7
  <2>2. p \in Nat /\ q \in Nat /\ B(p) \in Nat /\ B(q) \in Nat BY <1>1, <1>3, <2>1
  <2> HIDE DEF p, q
  <2>3. q < p => B(q) < B(p) BY <2>1, <2>2, BelowGrows DEF B
  <2>4. p # q /\ ~ (q < p) BY SMT, <1>8, <2>1, <2>2, <2>3
  <2>5. p < q BY SMT, <2>2, <2>4
  <2> QED BY <2>5 DEF p, q
<1> QED BY <1>0, <1>5, <1>7, <1>8 DEF c

\* What lists a set in order is what Nth makes of it.
Lists(f, n, N, S) ==
  /\ f \in [1 .. n -> 1 .. N]
  /\ \A j, k \in 1 .. n : j < k => f[j] < f[k]
  /\ \A k \in 1 .. n : f[k] \in S
  /\ \A x \in S : \E k \in 1 .. n : x = f[k]
InOrder(f, n, S) == Cardinality(S) = n /\ \A k \in 1 .. n : Nth(S, k) = f[k]

LEMMA Enumerated ==
  ASSUME NEW N \in Nat, NEW n \in Nat, NEW f, NEW S, Lists(f, n, N, S)
  PROVE  InOrder(f, n, S)
<1> USE DEF Lists
<1> DEFINE I(k) == {f[j] : j \in 1 .. (k - 1)}
<1>1. \A k \in 1 .. n : f[k] \in 1 .. N /\ f[k] \in Nat BY SMT
<1>2. \A j, k \in 1 .. n : f[j] = f[k] => j = k
  <2> SUFFICES ASSUME NEW j \in 1 .. n, NEW k \in 1 .. n, f[j] = f[k], j # k PROVE FALSE
    OBVIOUS
  <2>1. j < k \/ k < j BY SMT
  <2>2. f[j] < f[k] \/ f[k] < f[j] BY <2>1
  <2> QED BY SMT, <1>1, <2>2
<1>3. ASSUME NEW k \in 1 .. (n + 1) PROVE Cardinality(I(k)) = k - 1
  <2> DEFINE D == 1 .. (k - 1)
             g == [j \in D |-> f[j]]
  <2>1. \A j \in D : j \in 1 .. n BY SMT
  <2>2. g \in Surjection(D, I(k)) BY DEF Surjection
  <2>3. g \in Injection(D, I(k)) BY <1>2, <2>1 DEF Injection, IsInjective
  <2>4. IsFiniteSet(D) /\ Cardinality(D) = k - 1 BY SMT, FS_Interval
  <2> HIDE DEF g, D
  <2>5. Cardinality(I(k)) = Cardinality(D) BY <2>2, <2>3, <2>4, FS_Surjection
  <2> QED BY <2>4, <2>5
<1>4. Cardinality(S) = n
  <2>1. n + 1 \in 1 .. (n + 1) /\ (n + 1) - 1 = n BY SMT
  <2>2. I(n + 1) = S
    <3>1. I(n + 1) = {f[k] : k \in 1 .. n} BY <2>1
    <3> QED BY <3>1
  <2>3. Cardinality(I(n + 1)) = (n + 1) - 1 BY <1>3, <2>1
  <2> QED BY <2>1, <2>2, <2>3
<1>5. S \in SUBSET (1 .. N) BY <1>1
<1>6. ASSUME NEW k \in 1 .. n PROVE Nth(S, k) = f[k]
  <2>1. Below(S, f[k]) = I(k)
    <3>1. ASSUME NEW x \in Below(S, f[k]) PROVE x \in I(k)
      <4>1. PICK j \in 1 .. n : x = f[j] /\ f[j] < f[k] BY <3>1 DEF Below
      <4>2. ~ (k < j) /\ k # j
        <5>1. ~ (f[k] < f[j]) /\ f[k] # f[j] BY SMT, <1>1, <4>1
        <5> QED BY <5>1
      <4>3. j \in 1 .. (k - 1) BY SMT, <4>2
      <4> QED BY <4>1, <4>3
    <3>2. ASSUME NEW x \in I(k) PROVE x \in Below(S, f[k])
      <4>1. PICK j \in 1 .. (k - 1) : x = f[j] BY <3>2
      <4>2. j \in 1 .. n /\ j < k BY SMT
      <4> QED BY <4>1, <4>2 DEF Below
    <3> QED BY <3>1, <3>2
  <2>2. k \in 1 .. (n + 1) BY SMT
  <2>3. Cardinality(Below(S, f[k])) = k - 1 BY <1>3, <2>1, <2>2
  <2>4. f[k] \in S OBVIOUS
  <2> HIDE DEF I
  <2>5. Nth(S, Cardinality(Below(S, f[k])) + 1) = f[k] BY <1>5, <2>4, NthIs
  <2>6. (k - 1) + 1 = k BY SMT
  <2> QED BY <2>3, <2>5, <2>6
<1> QED BY <1>4, <1>6 DEF InOrder

---------------------------------------------------------------------------
(* Code points *)

LEMMA BytesTyped ==
  /\ \A a \in Byte : <<a>> \in Seq(Byte)
  /\ \A a, b \in Byte : <<a, b>> \in Seq(Byte)
  /\ \A a, b, c \in Byte : <<a, b, c>> \in Seq(Byte)
  /\ \A a, b, c, d \in Byte : <<a, b, c, d>> \in Seq(Byte)
BY SMT

LEMMA Utf8Typed ==
  ASSUME NEW cp \in Nat, cp <= 1114111
  PROVE  /\ Utf8(cp) \in Seq(Byte)
         /\ Len(Utf8(cp)) \in 1 .. 4
         /\ cp < 65536 => Len(Utf8(cp)) <= 3
<1>1. CASE cp < 128
  <2>1. Utf8(cp) = <<cp>> /\ cp \in Byte BY SMT, <1>1 DEF Utf8, Byte
  <2> QED BY SMT, <2>1, BytesTyped
<1>2. CASE cp >= 128 /\ cp < 2048
  <2>1. 192 + (cp \div 64) \in Byte /\ Continued(cp) \in Byte BY SMT, <1>2 DEF Byte, Continued
  <2>2. Utf8(cp) = <<192 + (cp \div 64), Continued(cp)>> BY SMT, <1>2 DEF Utf8
  <2> QED BY SMT, <2>1, <2>2, BytesTyped
<1>3. CASE cp >= 2048 /\ cp < 65536
  <2>1. /\ 224 + (cp \div 4096) \in Byte
        /\ Continued(cp \div 64) \in Byte /\ Continued(cp) \in Byte
    BY SMT, <1>3 DEF Byte, Continued
  <2>2. Utf8(cp) = <<224 + (cp \div 4096), Continued(cp \div 64), Continued(cp)>>
    BY SMT, <1>3 DEF Utf8
  <2> QED BY SMT, <2>1, <2>2, BytesTyped
<1>4. CASE cp >= 65536
  <2>1. /\ 240 + (cp \div 262144) \in Byte /\ Continued(cp \div 4096) \in Byte
        /\ Continued(cp \div 64) \in Byte /\ Continued(cp) \in Byte
    BY SMT, <1>4 DEF Byte, Continued
  <2>2. Utf8(cp) = <<240 + (cp \div 262144), Continued(cp \div 4096),
                     Continued(cp \div 64), Continued(cp)>>
    BY SMT, <1>4 DEF Utf8
  <2> QED BY SMT, <1>4, <2>1, <2>2, BytesTyped
<1> QED BY SMT, <1>1, <1>2, <1>3, <1>4

\* One, two and three bytes that NewStringUTF takes as one group.
LEMMA GroupsTaken ==
  /\ \A a \in 1 .. 127 : ModifiedUtf8(<<a>>)
  /\ \A a \in 192 .. 223, b \in 128 .. 191 : ModifiedUtf8(<<a, b>>)
  /\ \A a \in 224 .. 239, b, c \in 128 .. 191 : ModifiedUtf8(<<a, b, c>>)
<1>1. \A a \in 1 .. 127 : ModifiedUtf8(<<a>>)
  BY SMT DEF ModifiedUtf8, Continuation, Complete, Claimed
<1>2. ASSUME NEW a \in 192 .. 223, NEW b \in 128 .. 191 PROVE ModifiedUtf8(<<a, b>>)
  <2> DEFINE s == <<a, b>>
  <2>1. Claimed(a) = 2 BY SMT DEF Claimed
  <2>2. Complete(s, 1) BY SMT, <2>1 DEF Complete, Continuation
  <2> QED BY SMT, <2>1, <2>2 DEF ModifiedUtf8, Continuation
<1>3. ASSUME NEW a \in 224 .. 239, NEW b \in 128 .. 191, NEW c \in 128 .. 191
      PROVE  ModifiedUtf8(<<a, b, c>>)
  <2> DEFINE s == <<a, b, c>>
  <2>1. Claimed(a) = 3 BY SMT DEF Claimed
  <2>2. Complete(s, 1) BY SMT, <2>1 DEF Complete, Continuation
  <2> QED BY SMT, <2>1, <2>2 DEF ModifiedUtf8, Continuation
<1> QED BY <1>1, <1>2, <1>3

LEMMA GroupTaken ==
  ASSUME NEW cp \in Nat
  PROVE  cp > 0 /\ cp < 65536 => ModifiedUtf8(Utf8(cp))
<1>1. ASSUME cp > 0, cp < 128 PROVE ModifiedUtf8(Utf8(cp))
  <2>1. cp \in 1 .. 127 /\ Utf8(cp) = <<cp>> BY SMT, <1>1 DEF Utf8
  <2> QED BY <2>1, GroupsTaken
<1>2. ASSUME cp >= 128, cp < 2048 PROVE ModifiedUtf8(Utf8(cp))
  <2> DEFINE a == 192 + (cp \div 64)
             b == Continued(cp)
  <2>1. a \in 192 .. 223 /\ b \in 128 .. 191 BY SMT, <1>2 DEF Continued
  <2>2. Utf8(cp) = <<a, b>> BY SMT, <1>2 DEF Utf8
  <2> HIDE DEF a, b
  <2> QED BY <2>1, <2>2, GroupsTaken
<1>3. ASSUME cp >= 2048, cp < 65536 PROVE ModifiedUtf8(Utf8(cp))
  <2> DEFINE a == 224 + (cp \div 4096)
             b == Continued(cp \div 64)
             c == Continued(cp)
  <2>1. a \in 224 .. 239 /\ b \in 128 .. 191 /\ c \in 128 .. 191
    BY SMT, <1>3 DEF Continued
  <2>2. Utf8(cp) = <<a, b, c>> BY SMT, <1>3 DEF Utf8
  <2> HIDE DEF a, b, c
  <2> QED BY <2>1, <2>2, GroupsTaken
<1> QED BY SMT, <1>1, <1>2, <1>3

LEMMA ConcatTaken ==
  ASSUME NEW s \in Seq(Byte), NEW t \in Seq(Byte), ModifiedUtf8(s), ModifiedUtf8(t)
  PROVE  ModifiedUtf8(s \o t)
<1>0. /\ s \o t \in Seq(Byte) /\ Len(s \o t) = Len(s) + Len(t)
      /\ DOMAIN (s \o t) = 1 .. Len(s) + Len(t)
      /\ Len(s) \in Nat /\ Len(t) \in Nat
  BY SMT
<1> SUFFICES ASSUME NEW k \in 1 .. Len(s) + Len(t)
             PROVE  /\ (s \o t)[k] \in 1 .. 239
                    /\ (s \o t)[k] \notin Continuation => Complete(s \o t, k)
                    /\ (s \o t)[k] \in Continuation =>
                         \E d \in 1 .. 2 : k - d \in 1 .. Len(s) + Len(t)
                                           /\ Claimed((s \o t)[k - d]) > d
  BY <1>0 DEF ModifiedUtf8
<1>1. CASE k <= Len(s)
  <2>1. (s \o t)[k] = s[k] /\ k \in DOMAIN s BY SMT, <1>1
  <2>2. s[k] \in 1 .. 239 BY SMT, <2>1 DEF ModifiedUtf8
  <2>3. ASSUME s[k] \notin Continuation PROVE Complete(s \o t, k)
    <3>1. Complete(s, k) BY SMT, <2>1, <2>3 DEF ModifiedUtf8
    <3>2. Claimed(s[k]) \in 0 .. 4 BY SMT, <2>2 DEF Claimed
    <3>3. \A j \in 1 .. Claimed(s[k]) - 1 : (s \o t)[k + j] = s[k + j]
      BY SMT, <2>1, <3>1, <3>2 DEF Complete
    <3> QED BY SMT, <2>1, <3>1, <3>2, <3>3 DEF Complete
  <2>4. ASSUME s[k] \in Continuation
        PROVE  \E d \in 1 .. 2 : k - d \in 1 .. Len(s) + Len(t)
                                 /\ Claimed((s \o t)[k - d]) > d
    <3>1. PICK d \in 1 .. 2 : k - d \in DOMAIN s /\ Claimed(s[k - d]) > d
      BY SMT, <2>1, <2>4 DEF ModifiedUtf8
    <3> QED BY SMT, <3>1
  <2> QED BY SMT, <2>1, <2>2, <2>3, <2>4
<1>2. CASE k > Len(s)
  <2> DEFINE m == k - Len(s)
  <2>1. m \in DOMAIN t /\ (s \o t)[k] = t[m] BY SMT, <1>2
  <2>2. t[m] \in 1 .. 239 BY SMT, <2>1 DEF ModifiedUtf8
  <2>3. ASSUME t[m] \notin Continuation PROVE Complete(s \o t, k)
    <3>1. Complete(t, m) BY SMT, <2>1, <2>3 DEF ModifiedUtf8
    <3>2. Claimed(t[m]) \in 0 .. 4 BY SMT, <2>2 DEF Claimed
    <3>3. \A j \in 1 .. Claimed(t[m]) - 1 : (s \o t)[k + j] = t[m + j]
      BY SMT, <1>2, <2>1, <3>1, <3>2 DEF Complete
    <3>4. k + Claimed(t[m]) - 1 <= Len(s \o t) BY SMT, <1>0, <1>2, <2>1, <3>1, <3>2 DEF Complete
    <3>5. \A j \in 1 .. Claimed(t[m]) - 1 : (s \o t)[k + j] \in Continuation
      BY <3>1, <3>3 DEF Complete
    <3>6. Claimed(t[m]) > 0 BY <3>1 DEF Complete
    <3> QED BY <2>1, <3>4, <3>5, <3>6 DEF Complete
  <2>4. ASSUME t[m] \in Continuation
        PROVE  \E d \in 1 .. 2 : k - d \in 1 .. Len(s) + Len(t)
                                 /\ Claimed((s \o t)[k - d]) > d
    <3>1. PICK d \in 1 .. 2 : m - d \in DOMAIN t /\ Claimed(t[m - d]) > d
      BY SMT, <2>1, <2>4 DEF ModifiedUtf8
    <3>2. k - d \in 1 .. Len(s) + Len(t) /\ (s \o t)[k - d] = t[m - d]
      BY SMT, <1>2, <3>1
    <3> QED BY SMT, <3>1, <3>2
  <2> QED BY SMT, <2>1, <2>2, <2>3, <2>4
<1> QED BY SMT, <1>1, <1>2

LEMMA NulTaken == ModifiedUtf8(<<192, 128>>) /\ <<192, 128>> \in Seq(Byte)
<1>1. 192 \in 192 .. 223 /\ 128 \in 128 .. 191 BY SMT
<1>2. 192 \in Byte /\ 128 \in Byte BY SMT DEF Byte
<1> QED BY <1>1, <1>2, GroupsTaken, BytesTyped

LEMMA ModifiedTyped ==
  ASSUME NEW cp \in Nat, cp <= 1114111
  PROVE  /\ Modified(cp) \in Seq(Byte)
         /\ ModifiedUtf8(Modified(cp))
         /\ Len(Modified(cp)) <= 6
         /\ cp < 65536 => Len(Modified(cp)) <= 3
<1>1. CASE cp = 0
  <2>1. Modified(cp) = <<192, 128>> BY SMT, <1>1 DEF Modified
  <2> QED BY SMT, <2>1, NulTaken
<1>2. CASE cp > 0 /\ cp < 65536
  <2>1. Modified(cp) = Utf8(cp) BY SMT, <1>2 DEF Modified
  <2> QED BY SMT, <1>2, <2>1, Utf8Typed, GroupTaken
<1>3. CASE cp >= 65536
  <2> DEFINE h == 55296 + ((cp - 65536) \div 1024)
             l == 56320 + ((cp - 65536) % 1024)
  <2>0. /\ (cp - 65536) \div 1024 \in Nat /\ (cp - 65536) \div 1024 < 1024
        /\ (cp - 65536) % 1024 \in Nat /\ (cp - 65536) % 1024 < 1024
    BY SMT, <1>3
  <2>1. /\ h \in Nat /\ h > 0 /\ h < 65536
        /\ l \in Nat /\ l > 0 /\ l < 65536
    BY SMT, <2>0
  <2>2. Modified(cp) = Utf8(h) \o Utf8(l) BY SMT, <1>3 DEF Modified
  <2> HIDE DEF h, l
  <2>3. /\ Utf8(h) \in Seq(Byte) /\ Len(Utf8(h)) <= 3 /\ ModifiedUtf8(Utf8(h))
        /\ Utf8(l) \in Seq(Byte) /\ Len(Utf8(l)) <= 3 /\ ModifiedUtf8(Utf8(l))
    <3>1. h <= 1114111 /\ l <= 1114111 BY SMT, <2>1
    <3>2. Utf8(h) \in Seq(Byte) /\ Len(Utf8(h)) <= 3 BY SMT, <2>1, <3>1, Utf8Typed
    <3>3. Utf8(l) \in Seq(Byte) /\ Len(Utf8(l)) <= 3 BY SMT, <2>1, <3>1, Utf8Typed
    <3>4. ModifiedUtf8(Utf8(h)) BY SMT, <2>1, GroupTaken
    <3>5. ModifiedUtf8(Utf8(l)) BY SMT, <2>1, GroupTaken
    <3> QED BY SMT, <3>2, <3>3, <3>4, <3>5
  <2>4. ModifiedUtf8(Utf8(h) \o Utf8(l)) BY SMT, <2>3, ConcatTaken
  <2> QED BY SMT, <1>3, <2>2, <2>3, <2>4
<1> QED BY SMT, <1>1, <1>2, <1>3

---------------------------------------------------------------------------
(* What the two functions read *)

LEMMA UnitBounds ==
  /\ \A x \in Unit : x \in Nat /\ x < 65536
  /\ \A x \in Nat : x < 65536 => x \in Unit
BY SMT DEF Unit

LEMMA ByteBounds == \A x \in Byte : x \in Nat /\ x <= 255
BY SMT DEF Byte

LEMMA Remainders ==
  ASSUME NEW x \in Nat
  PROVE  /\ x % 8 \in 0 .. 7 /\ x % 16 \in 0 .. 15
         /\ x % 32 \in 0 .. 31 /\ x % 64 \in 0 .. 63
BY SMT

LEMMA ClaimedBounds ==
  ASSUME NEW x \in Nat
  PROVE  Claimed(x) \in 0 .. 4 /\ (Claimed(x) = 1 => x < 128)
BY SMT DEF Claimed

LEMMA HalvesBounds ==
  /\ \A x \in High : x \in Nat /\ x - 55296 \in Nat /\ x - 55296 < 1024
  /\ \A x \in Low : x \in Nat /\ x - 56320 \in Nat /\ x - 56320 < 1024
BY SMT DEF High, Low

LEMMA ScalarTyped ==
  ASSUME NEW u \in Seq(Unit), NEW k \in 1 .. Len(u)
  PROVE  /\ UnitsRead(u, k) \in 1 .. 2 /\ k + UnitsRead(u, k) - 1 <= Len(u)
         /\ Scalar(u, k) \in Nat /\ Scalar(u, k) <= 1114111
         /\ UnitsRead(u, k) = 1 => Scalar(u, k) < 65536
<1>1. u[k] \in Nat /\ u[k] < 65536 BY SMT, UnitBounds
<1>2. CASE Paired(u, k)
  <2>1. u[k] \in High /\ u[k + 1] \in Low /\ k < Len(u) BY SMT, <1>2 DEF Paired
  <2>2. Scalar(u, k) = 65536 + (u[k] - 55296) * 1024 + (u[k + 1] - 56320)
    BY SMT, <1>2 DEF Scalar
  <2> DEFINE h == u[k] - 55296
             l == u[k + 1] - 56320
  <2>3. h \in Nat /\ h < 1024 /\ l \in Nat /\ l < 1024 BY SMT, <2>1, HalvesBounds
  <2> HIDE DEF h, l
  <2>4. 65536 + h * 1024 + l \in Nat /\ 65536 + h * 1024 + l <= 1114111 BY SMT, <2>3
  <2>5. Scalar(u, k) = 65536 + h * 1024 + l BY SMT, <2>2 DEF h, l
  <2>6. UnitsRead(u, k) = 2 BY SMT, <1>2 DEF UnitsRead
  <2> QED BY SMT, <2>1, <2>4, <2>5, <2>6
<1>3. CASE ~Paired(u, k)
  <2>1. UnitsRead(u, k) = 1 BY SMT, <1>3 DEF UnitsRead
  <2>2. Scalar(u, k) \in {Replacement, u[k]} BY SMT, <1>3 DEF Scalar
  <2> QED BY SMT, <1>1, <2>1, <2>2 DEF Replacement
<1> QED BY SMT, <1>2, <1>3

LEMMA ValueTyped ==
  ASSUME NEW s \in Seq(Byte), NEW k \in 1 .. Len(s), Complete(s, k)
  PROVE  /\ Claimed(s[k]) \in 1 .. 4 /\ k + Claimed(s[k]) - 1 <= Len(s)
         /\ Value(s, k) \in Nat
         /\ Claimed(s[k]) < 4 => Value(s, k) < 65536
<1> DEFINE n == Claimed(s[k])
<1>1. \A j \in 1 .. Len(s) : s[j] \in Nat
  <2>1. \A j \in 1 .. Len(s) : s[j] \in Byte BY SMT
  <2> QED BY <2>1, ByteBounds
<1>2. n \in 1 .. 4 /\ k + n - 1 <= Len(s) BY SMT, <1>1, ClaimedBounds DEF Complete
<1>3. \A j \in 1 .. n - 1 : s[k + j] \in Nat BY SMT, <1>1, <1>2
<1>4. CASE n = 1
  <2>1. s[k] < 128 BY SMT, <1>1, <1>4, ClaimedBounds
  <2> QED BY SMT, <1>1, <1>2, <1>4, <2>1 DEF Value
<1>5. CASE n = 2
  <2>1. s[k + 1] \in Nat BY SMT, <1>3, <1>5
  <2>2. Value(s, k) = (s[k] % 32) * 64 + (s[k + 1] % 64) BY SMT, <1>5 DEF Value
  <2> DEFINE a == s[k] % 32
             b == s[k + 1] % 64
  <2>3. a \in 0 .. 31 /\ b \in 0 .. 63 BY <1>1, <2>1, Remainders
  <2>4. Value(s, k) = a * 64 + b BY SMT, <2>2
  <2> HIDE DEF a, b
  <2>5. Value(s, k) \in Nat /\ Value(s, k) < 65536 BY SMT, <2>3, <2>4
  <2> QED BY SMT, <1>2, <2>5
<1>6. CASE n = 3
  <2>1. s[k + 1] \in Nat /\ s[k + 2] \in Nat BY SMT, <1>3, <1>6
  <2>2. Value(s, k) = (s[k] % 16) * 4096 + (s[k + 1] % 64) * 64 + (s[k + 2] % 64)
    BY SMT, <1>6 DEF Value
  <2> DEFINE a == s[k] % 16
             b == s[k + 1] % 64
             c == s[k + 2] % 64
  <2>3. a \in 0 .. 15 /\ b \in 0 .. 63 /\ c \in 0 .. 63 BY <1>1, <2>1, Remainders
  <2>4. Value(s, k) = a * 4096 + b * 64 + c BY SMT, <2>2
  <2> HIDE DEF a, b, c
  <2>5. Value(s, k) \in Nat /\ Value(s, k) < 65536 BY SMT, <2>3, <2>4
  <2> QED BY SMT, <1>2, <2>5
<1>7. CASE n = 4
  <2>1. s[k + 1] \in Nat /\ s[k + 2] \in Nat /\ s[k + 3] \in Nat BY SMT, <1>3, <1>7
  <2>2. Value(s, k) = (s[k] % 8) * 262144 + (s[k + 1] % 64) * 4096
                        + (s[k + 2] % 64) * 64 + (s[k + 3] % 64)
    BY SMT, <1>7 DEF Value
  <2> DEFINE a == s[k] % 8
             b == s[k + 1] % 64
             c == s[k + 2] % 64
             d == s[k + 3] % 64
  <2>3. a \in 0 .. 7 /\ b \in 0 .. 63 /\ c \in 0 .. 63 /\ d \in 0 .. 63
    BY <1>1, <2>1, Remainders
  <2>4. Value(s, k) = a * 262144 + b * 4096 + c * 64 + d BY SMT, <2>2
  <2> HIDE DEF a, b, c, d
  <2>5. Value(s, k) \in Nat BY SMT, <2>3, <2>4
  <2> QED BY SMT, <1>2, <1>7, <2>5
<1> QED BY SMT, <1>2, <1>4, <1>5, <1>6, <1>7

---------------------------------------------------------------------------
(* What they hand over *)

LEMMA PositionsBounded ==
  ASSUME NEW n \in Nat, NEW S \in SUBSET (1 .. n)
  PROVE  Cardinality(S) \in 0 .. n
<1>1. IsFiniteSet(1 .. n) /\ Cardinality(1 .. n) = n BY SMT, FS_Interval
<1>2. Cardinality(S) <= Cardinality(1 .. n) /\ IsFiniteSet(S) BY <1>1, FS_Subset
<1> QED BY SMT, <1>1, <1>2, FS_CardinalityType

LEMMA UpToTyped ==
  ASSUME NEW T, NEW b \in Seq(T), NEW S
  PROVE  UpTo(b, S) \in Seq(T)
<1> DEFINE P == {k \in DOMAIN b : \A j \in 1 .. k : b[j] \notin S}
<1>1. Len(b) \in Nat /\ P \in SUBSET (1 .. Len(b)) BY SMT
<1>2. Cardinality(P) \in 0 .. Len(b) BY SMT, <1>1, PositionsBounded
<1> HIDE DEF P
<1>3. SubSeq(b, 1, Cardinality(P)) \in Seq(T) BY SMT, <1>2
<1> QED BY SMT, <1>3 DEF UpTo, P

LEMMA UnitTyped ==
  ASSUME NEW b \in Seq(Byte), NEW k
  PROVE  UnitAt(b, k) \in Unit
<1>1. \A j : ByteAt(b, j) \in Nat /\ ByteAt(b, j) <= 255
  <2>1. \A j \in DOMAIN b : b[j] \in Byte BY SMT
  <2>2. \A j \in DOMAIN b : b[j] \in Nat /\ b[j] <= 255 BY <2>1, ByteBounds
  <2> QED BY SMT, <2>2 DEF ByteAt
<1> DEFINE x == ByteAt(b, k)
           y == ByteAt(b, k + 1)
           z == ByteAt(b, k + 2)
<1>2. x \in Nat /\ x <= 255 /\ y \in Nat /\ z \in Nat BY SMT, <1>1
<1>3. UnitAt(b, k) \in {x, (x % 32) * 64 + (y % 64), (x % 16) * 4096 + (y % 64) * 64 + (z % 64)}
  BY SMT DEF UnitAt
<1> HIDE DEF x, y, z
<1>4. /\ (x % 32) * 64 + (y % 64) \in Nat /\ (x % 32) * 64 + (y % 64) < 65536
      /\ (x % 16) * 4096 + (y % 64) * 64 + (z % 64) \in Nat
      /\ (x % 16) * 4096 + (y % 64) * 64 + (z % 64) < 65536
      /\ x < 65536
  BY SMT, <1>2
<1> QED BY SMT, <1>2, <1>3, <1>4, UnitBounds

LEMMA NewStringTyped ==
  ASSUME NEW b \in Seq(Byte)
  PROVE  NewStringUTF(b) \in Seq(Unit)
<1> DEFINE leads == {k \in DOMAIN b : b[k] \notin Continuation}
<1>1. Cardinality(leads) \in Nat
  <2>1. Len(b) \in Nat /\ leads \in SUBSET (1 .. Len(b)) BY SMT
  <2>2. Cardinality(leads) \in 0 .. Len(b) BY SMT, <2>1, PositionsBounded
  <2> QED BY SMT, <2>2
<1>2. \A k : UnitAt(b, k) \in Unit BY UnitTyped
<1>3. NewStringUTF(b) = [n \in 1 .. Cardinality(leads) |-> UnitAt(b, Nth(leads, n))]
  BY SMT DEF NewStringUTF
<1> HIDE DEF leads
<1> QED BY SMT, <1>1, <1>2, <1>3

---------------------------------------------------------------------------
(* The bridge *)

\* The text has the form of whoever holds it.
Carried == IF at \in {"java", "dup"} THEN text \in Seq(Unit) ELSE text \in Seq(Byte)

\* A function has written at most three bytes for each unit or byte it has read.
Walked ==
  /\ i \in 0 .. Len(text)
  /\ out \in Seq(Byte) /\ Len(out) <= 3 * i
  /\ at \notin {"dup", "new"} => i = 0 /\ out = <<>>
  /\ at = "new" => ModifiedUtf8(out)

BridgeInv == Carried /\ Walked

LEMMA NothingWritten == <<>> \in Seq(Byte) /\ Len(<<>>) = 0 /\ ModifiedUtf8(<<>>)
BY SMT DEF ModifiedUtf8

LEMMA DupKeeps ==
  ASSUME BridgeInv, DupUnit
  PROVE  BridgeInv'
<1>1. /\ at = "dup" /\ at' = "dup" /\ text' = text /\ i < Len(text)
      /\ i' = i + UnitsRead(text, i + 1) /\ out' = out \o Utf8(Scalar(text, i + 1))
  BY DEF DupUnit
<1>2. text \in Seq(Unit) /\ i \in Nat /\ Len(text) \in Nat /\ out \in Seq(Byte) /\ Len(out) <= 3 * i
  BY SMT, <1>1 DEF BridgeInv, Carried, Walked
<1>3. i + 1 \in 1 .. Len(text) BY SMT, <1>1, <1>2
<1> DEFINE n == UnitsRead(text, i + 1)
           cp == Scalar(text, i + 1)
<1>4. /\ n \in 1 .. 2 /\ i + n <= Len(text)
      /\ cp \in Nat /\ cp <= 1114111 /\ (n = 1 => cp < 65536)
  BY SMT, <1>2, <1>3, ScalarTyped
<1> HIDE DEF n, cp
<1>5. Utf8(cp) \in Seq(Byte) /\ Len(Utf8(cp)) \in 1 .. 4 /\ (cp < 65536 => Len(Utf8(cp)) <= 3)
  BY SMT, <1>4, Utf8Typed
<1>6. i' = i + n /\ out' = out \o Utf8(cp) BY <1>1 DEF n, cp
<1>7. i' \in 0 .. Len(text) /\ out' \in Seq(Byte) /\ Len(out') <= 3 * i'
  <2>1. Len(out') = Len(out) + Len(Utf8(cp)) /\ out' \in Seq(Byte) BY SMT, <1>2, <1>5, <1>6
  <2>2. CASE n = 1 BY SMT, <1>2, <1>4, <1>5, <1>6, <2>1, <2>2
  <2>3. CASE n = 2
    <3>1. i + 2 <= Len(text) /\ i' = i + 2 BY SMT, <1>2, <1>4, <1>6, <2>3
    <3>2. Len(out') <= Len(out) + 4
      <4> DEFINE k == Len(out)
                 m == Len(Utf8(cp))
      <4>1. k \in Nat BY SMT, <1>2
      <4>2. m \in 1 .. 4 /\ Len(out') = k + m BY <1>5, <2>1
      <4> HIDE DEF k, m
      <4>3. Len(out') <= k + 4 BY SMT, <4>1, <4>2
      <4> QED BY <4>3 DEF k
    <3> QED BY SMT, <1>2, <2>1, <3>1, <3>2
  <2> QED BY SMT, <1>4, <2>2, <2>3
<1> QED BY SMT, <1>1, <1>2, <1>7 DEF BridgeInv, Carried, Walked

LEMMA NewKeeps ==
  ASSUME BridgeInv, NewByte
  PROVE  BridgeInv'
<1>1. at = "new" /\ at' = "new" /\ text' = text /\ i < Len(text) BY DEF NewByte
<1>2. /\ text \in Seq(Byte) /\ i \in Nat /\ Len(text) \in Nat
      /\ out \in Seq(Byte) /\ Len(out) <= 3 * i /\ ModifiedUtf8(out)
  BY SMT, <1>1 DEF BridgeInv, Carried, Walked
<1>3. i + 1 \in 1 .. Len(text) BY SMT, <1>1, <1>2
<1> DEFINE n == IF Accepted(text, i + 1) THEN Claimed(text[i + 1]) ELSE 1
           cp == IF Accepted(text, i + 1) THEN Value(text, i + 1) ELSE Replacement
<1>4. /\ n \in 1 .. 4 /\ cp \in Nat
      /\ i' = i + n /\ out' = out \o Modified(cp) /\ i + n <= Len(text)
      /\ cp <= 1114111 /\ (n < 4 => cp < 65536)
  <2>1. CASE Accepted(text, i + 1)
    <3>1. n = Claimed(text[i + 1]) /\ cp = Value(text, i + 1) BY SMT, <2>1
    <3>2. i' = i + n /\ out' = out \o Modified(cp) BY SMT, <2>1, <3>1 DEF NewByte
    <3>3. Complete(text, i + 1) /\ cp <= 1114111 BY SMT, <2>1, <3>1 DEF Accepted
    <3> HIDE DEF n, cp
    <3>4. n \in 1 .. 4 /\ i + n <= Len(text) /\ cp \in Nat /\ (n < 4 => cp < 65536)
      BY SMT, <1>2, <1>3, <3>1, <3>3, ValueTyped
    <3> QED BY SMT, <3>2, <3>3, <3>4
  <2>2. CASE ~Accepted(text, i + 1)
    <3>1. n = 1 /\ cp = Replacement BY SMT, <2>2
    <3>2. i' = i + n /\ out' = out \o Modified(cp) BY SMT, <2>2, <3>1 DEF NewByte
    <3> HIDE DEF n, cp
    <3>3. cp \in Nat /\ cp < 65536 /\ cp <= 1114111 BY SMT, <3>1 DEF Replacement
    <3>4. i + 1 <= Len(text) BY SMT, <1>3
    <3> QED BY SMT, <3>1, <3>2, <3>3, <3>4
  <2> QED BY <2>1, <2>2
<1> HIDE DEF n, cp
<1>5. /\ Modified(cp) \in Seq(Byte) /\ ModifiedUtf8(Modified(cp))
      /\ Len(Modified(cp)) <= 6 /\ (cp < 65536 => Len(Modified(cp)) <= 3)
  BY SMT, <1>4, ModifiedTyped
<1>6. i' \in 0 .. Len(text) /\ out' \in Seq(Byte) /\ Len(out') <= 3 * i'
  <2>1. Len(out') = Len(out) + Len(Modified(cp)) /\ out' \in Seq(Byte) /\ Len(Modified(cp)) \in Nat
    BY SMT, <1>2, <1>4, <1>5
  <2>2. CASE n < 4
    <3>1. Len(Modified(cp)) <= 3 BY SMT, <1>4, <1>5, <2>2
    <3> QED BY SMT, <1>2, <1>4, <2>1, <3>1
  <2>3. CASE n = 4 BY SMT, <1>2, <1>4, <1>5, <2>1, <2>3
  <2> QED BY SMT, <1>4, <2>2, <2>3
<1>7. ModifiedUtf8(out') BY SMT, <1>2, <1>4, <1>5, ConcatTaken
<1> QED BY SMT, <1>1, <1>2, <1>6, <1>7 DEF BridgeInv, Carried, Walked

LEMMA TextStep ==
  ASSUME BridgeInv, [TextNext]_textVars
  PROVE  BridgeInv'
<1> USE DEF BridgeInv, Carried, Walked
<1>0. Len(text) \in Nat BY SMT
<1>1. CASE Dup BY SMT, <1>1, NothingWritten DEF Dup
<1>2. CASE DupUnit BY <1>2, DupKeeps
<1>3. CASE DupEnds
  <2>1. out \in Seq(Byte) /\ at' = "native" /\ text' = UpTo(out, {0}) /\ i' = 0 /\ out' = <<>>
    BY <1>3 DEF DupEnds, CString
  <2>2. text' \in Seq(Byte) BY <2>1, UpToTyped
  <2>3. Len(text') \in Nat BY SMT, <2>2
  <2> QED BY SMT, <2>1, <2>2, <2>3, NothingWritten
<1>4. CASE DupFails BY SMT, <1>4, NothingWritten DEF DupFails
<1>5. CASE New BY SMT, <1>5, NothingWritten DEF New
<1>6. CASE NewByte BY <1>6, NewKeeps
<1>7. CASE NewEnds
  <2>1. out \in Seq(Byte) /\ at' = "java" /\ text' = NewStringUTF(out) /\ i' = 0 /\ out' = <<>>
    BY <1>7 DEF NewEnds
  <2>2. text' \in Seq(Unit) BY <2>1, NewStringTyped
  <2>3. Len(text') \in Nat BY SMT, <2>2
  <2> QED BY SMT, <2>1, <2>2, <2>3, NothingWritten
<1>8. CASE NewFails BY SMT, <1>0, <1>8, NothingWritten DEF NewFails
<1>9. CASE UNCHANGED textVars BY <1>9 DEF textVars
<1> QED BY <1>1, <1>2, <1>3, <1>4, <1>5, <1>6, <1>7, <1>8, <1>9 DEF TextNext

\* The invariant gives what the bridge promises: 3n + 1 and 3n + 4 bytes are
\* enough, and what NewStringUTF gets is what it takes.
LEMMA BridgeSafe == ASSUME BridgeInv PROVE VmTakesIt
<1>1. i \in Nat /\ i <= Len(text) /\ Len(text) \in Nat /\ Len(out) <= 3 * i /\ Len(out) \in Nat
  BY SMT DEF BridgeInv, Carried, Walked
<1>2. Len(out) + 1 <= DupCapacity(Len(text)) /\ Len(out) + 1 <= NewCapacity(Len(text))
  BY SMT, <1>1 DEF DupCapacity, NewCapacity
<1> QED BY <1>2 DEF BridgeInv, Walked, VmTakesIt, OutFits

LEMMA TextStarts == TextInit => BridgeInv
<1> SUFFICES ASSUME TextInit PROVE BridgeInv
  OBVIOUS
<1>1. i = 0 /\ out = <<>> BY DEF TextInit
<1>2. CASE at = "java" /\ text \in JavaTexts
  <2>1. text \in Seq(Unit) BY <1>2, TextAssumption
  <2>2. Len(text) \in Nat BY SMT, <2>1
  <2> QED BY SMT, <1>1, <1>2, <2>1, <2>2, NothingWritten DEF BridgeInv, Carried, Walked
<1>3. CASE at = "native" /\ text \in NativeTexts
  <2>1. text \in Seq(Byte \ {0}) BY <1>3, TextAssumption
  <2>2. text \in Seq(Byte) /\ Len(text) \in Nat BY SMT, <2>1
  <2> QED BY SMT, <1>1, <1>3, <2>2, NothingWritten DEF BridgeInv, Carried, Walked
<1> QED BY <1>2, <1>3 DEF TextInit

\* However a text crosses and whatever bytes native code has read, no buffer of
\* the bridge is overrun and NewStringUTF gets nothing that aborts the VM
\* (jni_common.h:60-62, 104-110, 121-124).
THEOREM TextTaken == TextSpec => []VmTakesIt
<1>1. BridgeInv /\ [TextNext]_textVars => BridgeInv' BY TextStep
<1>2. BridgeInv => VmTakesIt BY BridgeSafe
<1> QED BY <1>1, <1>2, TextStarts, PTL DEF TextSpec

---------------------------------------------------------------------------
(* Names *)

LEMMA LeafTyped ==
  ASSUME NEW T, NEW s \in Seq(T)
  PROVE  Leaf(s) \in Seq(T)
<1> DEFINE P == {k \in DOMAIN s : \A j \in k .. Len(s) : s[j] # SLASH}
<1>1. Len(s) \in Nat /\ P \in SUBSET (1 .. Len(s)) BY SMT
<1>2. Cardinality(P) \in 0 .. Len(s) BY SMT, <1>1, PositionsBounded
<1> HIDE DEF P
<1>3. SubSeq(s, Len(s) + 1 - Cardinality(P), Len(s)) \in Seq(T) BY SMT, <1>1, <1>2
<1> QED BY <1>3 DEF Leaf, P

---------------------------------------------------------------------------
(* What Java makes of the bytes, piece by piece *)

LEMMA Joins ==
  ASSUME NEW T, NEW a \in Seq(T), NEW b \in Seq(T)
  PROVE  /\ a \o b \in Seq(T) /\ Len(a) \in Nat /\ Len(b) \in Nat
         /\ Len(a \o b) = Len(a) + Len(b)
         /\ \A k \in 1 .. Len(a) : (a \o b)[k] = a[k]
         /\ \A k \in 1 .. Len(b) : (a \o b)[Len(a) + k] = b[k]
BY SMT

LEMMA SameSequence ==
  ASSUME NEW T, NEW a \in Seq(T), NEW b \in Seq(T), Len(a) = Len(b),
         \A k \in 1 .. Len(a) : a[k] = b[k]
  PROVE  a = b
BY SMT

Leads(b) == {k \in DOMAIN b : b[k] \notin Continuation}

LEMMA LeadsBounded ==
  ASSUME NEW b \in Seq(Byte)
  PROVE  /\ Len(b) \in Nat /\ DOMAIN b = 1 .. Len(b) /\ Leads(b) \in SUBSET (1 .. Len(b))
         /\ NewStringUTF(b) = [n \in 1 .. Cardinality(Leads(b)) |-> UnitAt(b, Nth(Leads(b), n))]
<1>1. Len(b) \in Nat /\ DOMAIN b = 1 .. Len(b) BY SMT
<1> QED BY <1>1 DEF Leads, NewStringUTF

\* From k on, the three bytes a character may take are those of c from m on.
Agree(b, k, c, m) ==
  \A j \in 0 .. 2 : k + j <= Len(b) => m + j \in DOMAIN c /\ c[m + j] = b[k + j]

LEMMA LeadKinds ==
  /\ \A x \in 1 .. 239 : x \in Nat
  /\ \A x \in 1 .. 239 : x \notin Continuation => Claimed(x) \in {1, 2, 3}
  /\ \A x \in Nat : /\ Claimed(x) = 1 => x < 128
                    /\ Claimed(x) = 2 => x \in 192 .. 223
                    /\ Claimed(x) = 3 => x \in 224 .. 239
BY SMT DEF Claimed, Continuation

LEMMA UnitCases ==
  ASSUME NEW b, NEW k, ByteAt(b, k) \in Nat
  PROVE  /\ Claimed(ByteAt(b, k)) = 1 => UnitAt(b, k) = ByteAt(b, k)
         /\ Claimed(ByteAt(b, k)) = 2 =>
              UnitAt(b, k) = (ByteAt(b, k) % 32) * 64 + (ByteAt(b, k + 1) % 64)
         /\ Claimed(ByteAt(b, k)) = 3 =>
              UnitAt(b, k) = (ByteAt(b, k) % 16) * 4096 + (ByteAt(b, k + 1) % 64) * 64
                               + (ByteAt(b, k + 2) % 64)
<1> DEFINE x == ByteAt(b, k)
           y == (ByteAt(b, k) % 32) * 64 + (ByteAt(b, k + 1) % 64)
           z == (ByteAt(b, k) % 16) * 4096 + (ByteAt(b, k + 1) % 64) * 64 + (ByteAt(b, k + 2) % 64)
<1>1. UnitAt(b, k) = CASE x < 128 -> x [] x \in 192 .. 223 -> y [] OTHER -> z
  BY DEF UnitAt
<1>2. x \in Nat OBVIOUS
<1> HIDE DEF x, y, z
<1>3. /\ x < 128 => ~ (x \in 192 .. 223)
      /\ x \in 192 .. 223 => ~ (x < 128)
      /\ x \in 224 .. 239 => ~ (x < 128) /\ ~ (x \in 192 .. 223)
  BY SMT, <1>2
<1>4. (x < 128 => UnitAt(b, k) = x) /\ (x \in 192 .. 223 => UnitAt(b, k) = y)
      /\ (x \in 224 .. 239 => UnitAt(b, k) = z)
  BY SMT, <1>1, <1>3
<1>5. /\ Claimed(x) = 1 => x < 128
      /\ Claimed(x) = 2 => x \in 192 .. 223
      /\ Claimed(x) = 3 => x \in 224 .. 239
  BY SMT, <1>2 DEF Claimed
<1>6. /\ Claimed(x) = 1 => UnitAt(b, k) = x
      /\ Claimed(x) = 2 => UnitAt(b, k) = y
      /\ Claimed(x) = 3 => UnitAt(b, k) = z
  BY <1>4, <1>5
<1> QED BY <1>6 DEF x, y, z

\* A character lies within the piece that has its lead.
LEMMA UnitWithin ==
  ASSUME NEW b \in Seq(Byte), NEW k \in Leads(b), ModifiedUtf8(b), NEW c \in Seq(Byte),
         NEW m \in Nat, Agree(b, k, c, m)
  PROVE  UnitAt(c, m) = UnitAt(b, k)
<1>1. k \in Nat /\ k \in 1 .. Len(b) /\ Len(b) \in Nat /\ DOMAIN b = 1 .. Len(b)
  BY SMT, LeadsBounded
<1>2. b[k] \in 1 .. 239 /\ Complete(b, k) BY <1>1 DEF ModifiedUtf8, Leads
<1>3. 0 \in 0 .. 2 /\ 1 \in 0 .. 2 /\ 2 \in 0 .. 2 /\ k + 0 = k /\ m + 0 = m BY SMT, <1>1
<1>4. ByteAt(c, m) = b[k] /\ ByteAt(b, k) = b[k] BY <1>1, <1>3 DEF ByteAt, Agree
<1>5. k + 1 <= Len(b) => ByteAt(c, m + 1) = ByteAt(b, k + 1)
  <2> SUFFICES ASSUME k + 1 <= Len(b) PROVE ByteAt(c, m + 1) = ByteAt(b, k + 1)
    OBVIOUS
  <2>1. k + 1 \in DOMAIN b BY SMT, <1>1
  <2> QED BY <1>3, <2>1 DEF ByteAt, Agree
<1>6. k + 2 <= Len(b) => ByteAt(c, m + 2) = ByteAt(b, k + 2)
  <2> SUFFICES ASSUME k + 2 <= Len(b) PROVE ByteAt(c, m + 2) = ByteAt(b, k + 2)
    OBVIOUS
  <2>1. k + 2 \in DOMAIN b BY SMT, <1>1
  <2> QED BY <1>3, <2>1 DEF ByteAt, Agree
<1>0. b[k] \in Nat /\ ByteAt(c, m) \in Nat /\ ByteAt(b, k) \in Nat
  <2>1. b[k] \in 1 .. 239 BY <1>2
  <2>2. b[k] \in Nat BY <2>1, LeadKinds
  <2> QED BY <1>4, <2>2
<1>7. CASE Claimed(b[k]) = 1
  BY <1>4, <1>7, <1>0, UnitCases
<1>8. CASE Claimed(b[k]) = 2
  <2>1. k + 1 <= Len(b) BY SMT, <1>1, <1>2, <1>8 DEF Complete
  <2>2. ByteAt(c, m + 1) = ByteAt(b, k + 1) BY <1>5, <2>1
  <2> QED BY <1>4, <1>8, <1>0, <2>2, UnitCases
<1>9. CASE Claimed(b[k]) = 3
  <2>1. k + 1 <= Len(b) /\ k + 2 <= Len(b) BY SMT, <1>1, <1>2, <1>9 DEF Complete
  <2>2. /\ ByteAt(c, m + 1) = ByteAt(b, k + 1)
        /\ ByteAt(c, m + 2) = ByteAt(b, k + 2)
    BY <1>5, <1>6, <2>1
  <2> QED BY <1>4, <1>9, <1>0, <2>2, UnitCases
<1>11. b[k] \notin Continuation BY DEF Leads
<1>12. Claimed(b[k]) \in {1, 2, 3} BY <1>2, <1>11, LeadKinds
<1> QED BY <1>7, <1>8, <1>9, <1>12

\* What v has at the positions of S, in their order.
Picked(v, S) == [n \in 1 .. Cardinality(S) |-> v[Nth(S, n)]]

\* z is v on its first p positions and w on the q that follow, as far as picked.
Spliced(p, v, S, q, w, R, z, U, X) ==
  /\ S \in SUBSET (1 .. p) /\ R \in SUBSET (1 .. q) /\ U \in SUBSET (1 .. (p + q))
  /\ v \in [1 .. p -> X] /\ w \in [1 .. q -> X] /\ z \in [1 .. (p + q) -> X]
  /\ \A k \in 1 .. p : (k \in U <=> k \in S) /\ (k \in S => z[k] = v[k])
  /\ \A k \in 1 .. q : (p + k \in U <=> k \in R) /\ (k \in R => z[p + k] = w[k])

LEMMA PickedTyped ==
  ASSUME NEW p \in Nat, NEW S \in SUBSET (1 .. p), NEW X, NEW v,
         \A k \in S : v[k] \in X
  PROVE  Cardinality(S) \in Nat /\ Picked(v, S) \in Seq(X) /\ Len(Picked(v, S)) = Cardinality(S)
<1> DEFINE c == Cardinality(S)
<1>1. c \in Nat /\ \A n \in 1 .. c : Nth(S, n) \in S BY Sorted
<1>2. Picked(v, S) \in [1 .. c -> X] BY <1>1 DEF Picked
<1> HIDE DEF c
<1>3. \A f \in [1 .. c -> X] : f \in Seq(X) /\ Len(f) = c BY SMT, <1>1
<1> QED BY <1>1, <1>2, <1>3 DEF c

LEMMA PickedConcat ==
  ASSUME NEW p \in Nat, NEW q \in Nat, NEW X, NEW v, NEW S, NEW w, NEW R, NEW z, NEW U,
         Spliced(p, v, S, q, w, R, z, U, X)
  PROVE  Picked(z, U) = Picked(v, S) \o Picked(w, R)
<1> DEFINE c == Cardinality(S)
           d == Cardinality(R)
           f == [n \in 1 .. (c + d) |-> IF n <= c THEN Nth(S, n) ELSE p + Nth(R, n - c)]
<1>1. /\ S \in SUBSET (1 .. p) /\ R \in SUBSET (1 .. q) /\ U \in SUBSET (1 .. (p + q))
      /\ \A k \in 1 .. p : (k \in U <=> k \in S) /\ (k \in S => z[k] = v[k])
      /\ \A k \in 1 .. q : (p + k \in U <=> k \in R) /\ (k \in R => z[p + k] = w[k])
  BY DEF Spliced
<1>2. /\ \A k \in S : v[k] \in X
      /\ \A k \in R : w[k] \in X
      /\ \A k \in U : z[k] \in X
  BY DEF Spliced
<1>3. /\ c \in Nat /\ \A n \in 1 .. c : Nth(S, n) \in S
      /\ \A k \in S : \E n \in 1 .. c : Nth(S, n) = k
      /\ \A m, n \in 1 .. c : m < n => Nth(S, m) < Nth(S, n)
  BY <1>1, Sorted
<1>4. /\ d \in Nat /\ \A n \in 1 .. d : Nth(R, n) \in R
      /\ \A k \in R : \E n \in 1 .. d : Nth(R, n) = k
      /\ \A m, n \in 1 .. d : m < n => Nth(R, m) < Nth(R, n)
  BY <1>1, Sorted
<1> HIDE DEF c, d
<1>5. \A n \in 1 .. c : n \in 1 .. (c + d) /\ n <= c BY SMT, <1>3, <1>4
<1>6. \A n \in 1 .. d : c + n \in 1 .. (c + d) /\ ~ (c + n <= c) /\ (c + n) - c = n
  BY SMT, <1>3, <1>4
<1>7. \A n \in 1 .. (c + d) : n \in 1 .. c \/ (n - c \in 1 .. d /\ ~ (n <= c) /\ n = c + (n - c))
  BY SMT, <1>3, <1>4
<1>8. \A n \in 1 .. c : f[n] = Nth(S, n) BY <1>5
<1>9. \A n \in 1 .. d : f[c + n] = p + Nth(R, n) BY <1>6
<1>10. \A n \in 1 .. c : f[n] \in S /\ f[n] \in 1 .. p BY <1>1, <1>3, <1>8
<1>11. \A n \in 1 .. d : \E m \in R : f[c + n] = p + m /\ m \in 1 .. q BY <1>1, <1>4, <1>9
<1>12. f \in [1 .. (c + d) -> 1 .. (p + q)]
  <2>1. ASSUME NEW n \in 1 .. (c + d) PROVE f[n] \in 1 .. (p + q)
    <3>1. CASE n \in 1 .. c
      <4>1. f[n] \in 1 .. p BY <1>10, <3>1
      <4> HIDE DEF f
      <4> QED BY SMT, <1>1, <4>1
    <3>2. CASE n - c \in 1 .. d /\ n = c + (n - c)
      <4>1. PICK m \in R : f[n] = p + m /\ m \in 1 .. q BY <1>11, <3>2
      <4> HIDE DEF f
      <4> QED BY SMT, <1>1, <4>1
    <3> QED BY <1>7, <3>1, <3>2
  <2> QED BY <2>1
<1>13. ASSUME NEW m \in 1 .. (c + d), NEW n \in 1 .. (c + d), m < n PROVE f[m] < f[n]
  <2>1. CASE n \in 1 .. c
    <3>1. m \in 1 .. c BY SMT, <1>3, <1>13, <2>1
    <3> QED BY <1>3, <1>8, <1>13, <2>1, <3>1
  <2>2. CASE m \in 1 .. c /\ n - c \in 1 .. d /\ n = c + (n - c)
    <3>1. PICK h \in R : f[n] = p + h /\ h \in 1 .. q BY <1>11, <2>2
    <3>2. f[m] \in 1 .. p BY <1>10, <2>2
    <3> HIDE DEF f
    <3> QED BY SMT, <1>1, <3>1, <3>2
  <2>3. CASE m - c \in 1 .. d /\ m = c + (m - c) /\ n - c \in 1 .. d /\ n = c + (n - c)
    <3>1. m - c < n - c BY SMT, <1>3, <1>13, <2>3
    <3>2. Nth(R, m - c) < Nth(R, n - c) BY <1>4, <2>3, <3>1
    <3>3. f[m] = p + Nth(R, m - c) /\ f[n] = p + Nth(R, n - c) BY <1>9, <2>3
    <3>4. Nth(R, m - c) \in 1 .. q /\ Nth(R, n - c) \in 1 .. q BY <1>1, <1>4, <2>3
    <3> HIDE DEF f
    <3> QED BY SMT, <1>1, <3>2, <3>3, <3>4
  <2>4. ~ (m - c \in 1 .. d /\ ~ (m <= c) /\ n \in 1 .. c) BY SMT, <1>3, <1>13
  <2> QED BY <1>7, <2>1, <2>2, <2>3, <2>4
<1>14. /\ \A n \in 1 .. (c + d) : f[n] \in U
       /\ \A k \in U : \E n \in 1 .. (c + d) : k = f[n]
  <2>1. ASSUME NEW n \in 1 .. (c + d) PROVE f[n] \in U
    <3>1. CASE n \in 1 .. c
      <4>1. f[n] \in S /\ f[n] \in 1 .. p BY <1>10, <3>1
      <4> HIDE DEF f
      <4> QED BY <1>1, <4>1
    <3>2. CASE n - c \in 1 .. d /\ n = c + (n - c)
      <4>1. PICK m \in R : f[n] = p + m /\ m \in 1 .. q BY <1>11, <3>2
      <4> HIDE DEF f
      <4> QED BY <1>1, <4>1
    <3> QED BY <1>7, <3>1, <3>2
  <2>2. ASSUME NEW k \in U PROVE \E n \in 1 .. (c + d) : k = f[n]
    <3>1. k \in 1 .. (p + q) BY <1>1
    <3>2. CASE k \in 1 .. p
      <4>1. k \in S BY <1>1, <3>2
      <4>2. PICK n \in 1 .. c : Nth(S, n) = k BY <1>3, <4>1
      <4> QED BY <1>5, <1>8, <4>2
    <3>3. CASE k - p \in 1 .. q /\ k = p + (k - p)
      <4>1. k - p \in R BY <1>1, <3>3
      <4>2. PICK n \in 1 .. d : Nth(R, n) = k - p BY <1>4, <4>1
      <4>3. f[c + n] = k BY <1>9, <3>3, <4>2
      <4> QED BY <1>6, <4>3
    <3>4. k \in 1 .. p \/ (k - p \in 1 .. q /\ k = p + (k - p)) BY SMT, <1>1, <3>1
    <3> QED BY <3>2, <3>3, <3>4
  <2> HIDE DEF f
  <2> QED BY <2>1, <2>2
<1>15. Cardinality(U) = c + d /\ \A n \in 1 .. (c + d) : Nth(U, n) = f[n]
  <2>1. p + q \in Nat /\ c + d \in Nat BY SMT, <1>1, <1>3, <1>4
  <2>2. \A m, n \in 1 .. (c + d) : m < n => f[m] < f[n] BY <1>13
  <2>3. Lists(f, c + d, p + q, U) BY <1>12, <1>14, <2>2 DEF Lists
  <2>4. InOrder(f, c + d, U) BY <2>1, <2>3, Enumerated
  <2> QED BY <2>4 DEF InOrder
<1> DEFINE a == Picked(v, S)
           b == Picked(w, R)
           e == Picked(z, U)
<1>18. a = [n \in 1 .. c |-> v[Nth(S, n)]] BY DEF Picked, c
<1>19. b = [n \in 1 .. d |-> w[Nth(R, n)]] BY DEF Picked, d
<1>20. e = [n \in 1 .. (c + d) |-> z[f[n]]]
  <2>1. e = [n \in 1 .. Cardinality(U) |-> z[Nth(U, n)]] BY DEF Picked
  <2> HIDE DEF f, e
  <2> QED BY <1>15, <2>1
<1>21. /\ a \in Seq(X) /\ b \in Seq(X) /\ e \in Seq(X)
       /\ Len(a) = c /\ Len(b) = d /\ Len(e) = c + d
  <2>1. p + q \in Nat BY SMT
  <2> QED BY <1>1, <1>2, <1>15, <2>1, PickedTyped DEF c, d
<1>22. \A n \in 1 .. c : a[n] = e[n]
  <2>1. \A n \in 1 .. c : z[Nth(S, n)] = v[Nth(S, n)] BY <1>1, <1>3
  <2> HIDE DEF f, a, e
  <2> QED BY <1>5, <1>8, <1>18, <1>20, <2>1
<1>23. \A n \in 1 .. d : b[n] = e[c + n]
  <2>1. \A n \in 1 .. d : z[p + Nth(R, n)] = w[Nth(R, n)] BY <1>1, <1>4
  <2> HIDE DEF f, b, e
  <2> QED BY <1>6, <1>9, <1>19, <1>20, <2>1
<1> HIDE DEF a, b, e, f
<1>26. a \o b \in Seq(X) /\ Len(a \o b) = c + d BY <1>21, Joins
<1>27. \A n \in 1 .. (c + d) : (a \o b)[n] = e[n]
  <2> SUFFICES ASSUME NEW n \in 1 .. (c + d) PROVE (a \o b)[n] = e[n]
    OBVIOUS
  <2>1. CASE n \in 1 .. c
    <3>1. (a \o b)[n] = a[n] BY <1>21, <2>1, Joins
    <3> QED BY <1>22, <2>1, <3>1
  <2>2. CASE n - c \in 1 .. d /\ n = c + (n - c)
    <3>1. (a \o b)[n] = b[n - c] BY <1>21, <2>2, Joins
    <3> QED BY <1>23, <2>2, <3>1
  <2> QED BY <1>7, <2>1, <2>2
<1>28. a \o b = e BY <1>21, <1>26, <1>27, SameSequence
<1> QED BY <1>28 DEF a, b, e

LEMMA StringConcat ==
  ASSUME NEW s \in Seq(Byte), NEW t \in Seq(Byte), ModifiedUtf8(s), ModifiedUtf8(t)
  PROVE  NewStringUTF(s \o t) = NewStringUTF(s) \o NewStringUTF(t)
<1> DEFINE b == s \o t
           p == Len(s)
           q == Len(t)
           v == [k \in 1 .. p |-> UnitAt(s, k)]
           w == [k \in 1 .. q |-> UnitAt(t, k)]
           z == [k \in 1 .. (p + q) |-> UnitAt(b, k)]
<1>1. /\ p \in Nat /\ Leads(s) \in SUBSET (1 .. p) /\ DOMAIN s = 1 .. p
      /\ q \in Nat /\ Leads(t) \in SUBSET (1 .. q) /\ DOMAIN t = 1 .. q
  BY LeadsBounded
<1>2. /\ b \in Seq(Byte) /\ Len(b) = p + q
      /\ \A k \in 1 .. p : b[k] = s[k]
      /\ \A k \in 1 .. q : b[p + k] = t[k]
  BY SMT
<1>3. Leads(b) \in SUBSET (1 .. (p + q)) /\ DOMAIN b = 1 .. (p + q)
  BY <1>2, LeadsBounded
<1> HIDE DEF b, p, q
<1>4. \A k \in 1 .. p : k \in 1 .. (p + q) BY SMT, <1>1
<1>5. \A k \in 1 .. q : p + k \in 1 .. (p + q) BY SMT, <1>1
<1>6. \A k \in 1 .. p : k \in Leads(b) <=> k \in Leads(s) BY <1>1, <1>2, <1>3, <1>4 DEF Leads
<1>7. \A k \in 1 .. q : p + k \in Leads(b) <=> k \in Leads(t) BY <1>1, <1>2, <1>3, <1>5 DEF Leads
<1>8. ASSUME NEW k \in Leads(s) PROVE UnitAt(b, k) = UnitAt(s, k)
  <2>1. k \in 1 .. p /\ k \in Nat BY SMT, <1>1
  <2>2. Agree(s, k, b, k)
    <3> SUFFICES ASSUME NEW j \in 0 .. 2, k + j <= Len(s)
                 PROVE  k + j \in DOMAIN b /\ b[k + j] = s[k + j]
      BY DEF Agree
    <3>1. k + j \in 1 .. p BY SMT, <2>1 DEF p
    <3> QED BY <1>2, <1>3, <1>4, <3>1
  <2> QED BY <1>2, <2>1, <2>2, UnitWithin
<1>9. ASSUME NEW k \in Leads(t) PROVE UnitAt(b, p + k) = UnitAt(t, k)
  <2>1. k \in 1 .. q /\ p + k \in Nat BY SMT, <1>1
  <2>2. Agree(t, k, b, p + k)
    <3> SUFFICES ASSUME NEW j \in 0 .. 2, k + j <= Len(t)
                 PROVE  (p + k) + j \in DOMAIN b /\ b[(p + k) + j] = t[k + j]
      BY DEF Agree
    <3>1. k + j \in 1 .. q /\ (p + k) + j = p + (k + j) BY SMT, <1>1, <2>1 DEF q
    <3> QED BY <1>2, <1>3, <1>5, <3>1
  <2> QED BY <1>2, <2>1, <2>2, UnitWithin
<1>10. /\ \A k : UnitAt(s, k) \in Unit
       /\ \A k : UnitAt(t, k) \in Unit
       /\ \A k : UnitAt(b, k) \in Unit
  BY <1>2, UnitTyped
<1>11. Spliced(p, v, Leads(s), q, w, Leads(t), z, Leads(b), Unit)
  BY <1>1, <1>3, <1>4, <1>5, <1>6, <1>7, <1>8, <1>9, <1>10 DEF Spliced
<1>12. Picked(z, Leads(b)) = Picked(v, Leads(s)) \o Picked(w, Leads(t))
  <2> HIDE DEF v, w, z
  <2> QED BY <1>1, <1>11, PickedConcat
<1>13. /\ Picked(v, Leads(s)) = NewStringUTF(s)
       /\ Picked(w, Leads(t)) = NewStringUTF(t)
       /\ Picked(z, Leads(b)) = NewStringUTF(b)
  <2>1. /\ \A n \in 1 .. Cardinality(Leads(s)) : Nth(Leads(s), n) \in 1 .. p
        /\ \A n \in 1 .. Cardinality(Leads(t)) : Nth(Leads(t), n) \in 1 .. q
        /\ \A n \in 1 .. Cardinality(Leads(b)) : Nth(Leads(b), n) \in 1 .. (p + q)
    <3>1. p + q \in Nat BY SMT, <1>1
    <3> QED BY <1>1, <1>3, <3>1, Sorted
  <2> QED BY <1>2, <2>1, LeadsBounded DEF Picked
<1> QED BY <1>12, <1>13 DEF b

\* Code points, and those of one group of bytes and one unit.
Point == {x \in Nat : x <= 1114111}
Single == {x \in Nat : x > 0 /\ x < 65536}

LEMMA PointTyped ==
  /\ \A cp \in Single : Utf8(cp) \in Seq(Byte) /\ ModifiedUtf8(Utf8(cp))
  /\ \A cp \in Point : Modified(cp) \in Seq(Byte) /\ ModifiedUtf8(Modified(cp))
<1>1. ASSUME NEW cp \in Single PROVE Utf8(cp) \in Seq(Byte) /\ ModifiedUtf8(Utf8(cp))
  <2>1. cp \in Nat /\ cp > 0 /\ cp < 65536 /\ cp <= 1114111 BY SMT DEF Single
  <2>2. Utf8(cp) \in Seq(Byte) BY SMT, <2>1, Utf8Typed
  <2>3. ModifiedUtf8(Utf8(cp)) BY SMT, <2>1, GroupTaken
  <2> QED BY <2>2, <2>3
<1>2. ASSUME NEW cp \in Point PROVE Modified(cp) \in Seq(Byte) /\ ModifiedUtf8(Modified(cp))
  BY SMT, ModifiedTyped DEF Point
<1> QED BY <1>1, <1>2

\* The units a code point is for Java.
Halves(cp) ==
  IF cp < 65536 THEN <<cp>>
  ELSE <<55296 + ((cp - 65536) \div 1024), 56320 + ((cp - 65536) % 1024)>>

LEMMA OneLead ==
  ASSUME NEW b \in Seq(Byte), Leads(b) = {1}
  PROVE  NewStringUTF(b) = <<UnitAt(b, 1)>>
<1> DEFINE f == [n \in 1 .. 1 |-> 1]
<1>1. \A n \in 1 .. 1 : n = 1 BY SMT
<1>2. 1 \in 1 .. 1 /\ 1 \in Nat BY SMT
<1>3. ~ (1 < 1) BY SMT
<1>4. Lists(f, 1, 1, {1}) BY <1>1, <1>2, <1>3 DEF Lists
<1>5. InOrder(f, 1, {1}) BY <1>2, <1>4, Enumerated
<1>6. Cardinality({1}) = 1 /\ \A n \in 1 .. 1 : Nth({1}, n) = 1
  BY <1>5 DEF InOrder
<1>7. NewStringUTF(b) = [n \in 1 .. 1 |-> UnitAt(b, 1)]
  <2>1. NewStringUTF(b) = [n \in 1 .. Cardinality({1}) |-> UnitAt(b, Nth({1}, n))]
    BY LeadsBounded
  <2> QED BY <1>6, <2>1
<1>8. \A x : [n \in 1 .. 1 |-> x] = <<x>> BY SMT
<1> QED BY <1>7, <1>8

LEMMA TupleBytes ==
  /\ \A a : ByteAt(<<a>>, 1) = a
  /\ \A a, b : ByteAt(<<a, b>>, 1) = a /\ ByteAt(<<a, b>>, 2) = b
  /\ \A a, b, c : /\ ByteAt(<<a, b, c>>, 1) = a /\ ByteAt(<<a, b, c>>, 2) = b
                  /\ ByteAt(<<a, b, c>>, 3) = c
BY SMT DEF ByteAt

LEMMA TupleLeads ==
  /\ \A a : a \notin Continuation => Leads(<<a>>) = {1}
  /\ \A a, b : a \notin Continuation /\ b \in Continuation => Leads(<<a, b>>) = {1}
  /\ \A a, b, c : a \notin Continuation /\ b \in Continuation /\ c \in Continuation
                  => Leads(<<a, b, c>>) = {1}
<1>1. \A a : DOMAIN <<a>> = {1} /\ <<a>>[1] = a BY SMT
<1>2. \A a, b : DOMAIN <<a, b>> = {1, 2} /\ <<a, b>>[1] = a /\ <<a, b>>[2] = b BY SMT
<1>3. \A a, b, c : /\ DOMAIN <<a, b, c>> = {1, 2, 3}
                   /\ <<a, b, c>>[1] = a /\ <<a, b, c>>[2] = b /\ <<a, b, c>>[3] = c
  BY SMT
<1>4. ASSUME NEW a, a \notin Continuation PROVE Leads(<<a>>) = {1}
  BY <1>1, <1>4 DEF Leads
<1>5. ASSUME NEW a, NEW b, a \notin Continuation, b \in Continuation PROVE Leads(<<a, b>>) = {1}
  BY <1>2, <1>5 DEF Leads
<1>6. ASSUME NEW a, NEW b, NEW c, a \notin Continuation, b \in Continuation, c \in Continuation
      PROVE  Leads(<<a, b, c>>) = {1}
  BY <1>3, <1>6 DEF Leads
<1> QED BY <1>4, <1>5, <1>6

LEMMA GroupDecoded ==
  ASSUME NEW cp \in Single
  PROVE  NewStringUTF(Utf8(cp)) = <<cp>>
<1>0. 1 + 1 = 2 /\ 1 + 2 = 3 BY SMT
<1>4. cp \in Nat /\ cp > 0 /\ cp < 65536 BY SMT DEF Single
<1>1. ASSUME cp < 128 PROVE NewStringUTF(Utf8(cp)) = <<cp>>
  <2>1. Utf8(cp) = <<cp>> /\ cp \in Byte /\ cp \notin Continuation /\ Claimed(cp) = 1
    BY SMT, <1>4, <1>1 DEF Utf8, Byte, Continuation, Claimed
  <2>2. <<cp>> \in Seq(Byte) /\ Leads(<<cp>>) = {1} BY <2>1, BytesTyped, TupleLeads
  <2>4. cp \in Nat BY SMT, <1>4
  <2>3. UnitAt(<<cp>>, 1) = cp BY <2>1, <2>4, TupleBytes, UnitCases
  <2> QED BY <2>1, <2>2, <2>3, OneLead
<1>2. ASSUME cp >= 128, cp < 2048 PROVE NewStringUTF(Utf8(cp)) = <<cp>>
  <2> DEFINE a == 192 + (cp \div 64)
             b == Continued(cp)
             s == <<a, b>>
  <2>1. Utf8(cp) = s BY SMT, <1>4, <1>2 DEF Utf8
  <2>2. /\ a \in Byte /\ b \in Byte /\ a \in Nat /\ Claimed(a) = 2
        /\ a \notin Continuation /\ b \in Continuation
    BY SMT, <1>4, <1>2 DEF Byte, Continuation, Claimed, Continued
  <2>3. (a % 32) * 64 + (b % 64) = cp BY SMT, <1>4, <1>2 DEF Continued
  <2> HIDE DEF a, b
  <2>4. s \in Seq(Byte) /\ Leads(s) = {1} BY <2>2, BytesTyped, TupleLeads
  <2>5. ByteAt(s, 1) = a /\ ByteAt(s, 1 + 1) = b BY <1>0, TupleBytes
  <2>6. UnitAt(s, 1) = (a % 32) * 64 + (b % 64) BY <2>2, <2>5, UnitCases
  <2>7. UnitAt(s, 1) = cp BY <2>3, <2>6
  <2> QED BY <2>1, <2>4, <2>7, OneLead
<1>3. ASSUME cp >= 2048 PROVE NewStringUTF(Utf8(cp)) = <<cp>>
  <2> DEFINE a == 224 + (cp \div 4096)
             b == Continued(cp \div 64)
             c == Continued(cp)
             s == <<a, b, c>>
  <2>1. Utf8(cp) = s BY SMT, <1>4, <1>3 DEF Utf8
  <2>2. /\ a \in Byte /\ b \in Byte /\ c \in Byte /\ a \in Nat /\ Claimed(a) = 3
        /\ a \notin Continuation /\ b \in Continuation /\ c \in Continuation
    BY SMT, <1>4, <1>3 DEF Byte, Continuation, Claimed, Continued
  <2>3. (a % 16) * 4096 + (b % 64) * 64 + (c % 64) = cp BY SMT, <1>4, <1>3 DEF Continued
  <2> HIDE DEF a, b, c
  <2>4. s \in Seq(Byte) /\ Leads(s) = {1} BY <2>2, BytesTyped, TupleLeads
  <2>5. ByteAt(s, 1) = a /\ ByteAt(s, 1 + 1) = b /\ ByteAt(s, 1 + 2) = c BY <1>0, TupleBytes
  <2>6. UnitAt(s, 1) = (a % 16) * 4096 + (b % 64) * 64 + (c % 64) BY SMT, <2>2, <2>5, UnitCases
  <2>7. UnitAt(s, 1) = cp BY SMT, <2>3, <2>6
  <2> QED BY <2>1, <2>4, <2>7, OneLead
<1> QED BY SMT, <1>1, <1>2, <1>3, <1>4

LEMMA NulDecoded == NewStringUTF(<<192, 128>>) = <<0>>
<1> DEFINE a == 192
           b == 128
           s == <<a, b>>
<1>1. /\ Claimed(a) = 2 /\ a \in Nat /\ a \notin Continuation /\ b \in Continuation
      /\ 1 + 1 = 2 /\ (a % 32) * 64 + (b % 64) = 0
  BY SMT DEF Continuation, Claimed
<1>2. a \in Byte /\ b \in Byte BY SMT DEF Byte
<1> HIDE DEF a, b
<1>3. s \in Seq(Byte) /\ Leads(s) = {1} BY <1>1, <1>2, BytesTyped, TupleLeads
<1>4. ByteAt(s, 1) = a /\ ByteAt(s, 1 + 1) = b BY <1>1, TupleBytes
<1>5. UnitAt(s, 1) = (a % 32) * 64 + (b % 64) BY <1>1, <1>4, UnitCases
<1>6. UnitAt(s, 1) = 0 BY <1>1, <1>5
<1>7. NewStringUTF(s) = <<0>> BY <1>3, <1>6, OneLead
<1> QED BY SMT, <1>7 DEF a, b

LEMMA TwoUnits == \A a, b \in Single : <<a>> \o <<b>> = <<a, b>>
<1> SUFFICES ASSUME NEW a \in Single, NEW b \in Single PROVE <<a>> \o <<b>> = <<a, b>>
  OBVIOUS
<1>0. a \in Nat /\ b \in Nat BY SMT DEF Single
<1>1. <<a>> \in Seq(Nat) /\ <<b>> \in Seq(Nat) /\ <<a, b>> \in Seq(Nat) BY SMT, <1>0
<1>2. Len(<<a>>) = 1 /\ Len(<<b>>) = 1 /\ Len(<<a, b>>) = 2 BY SMT, <1>0
<1>3. <<a>> \o <<b>> \in Seq(Nat) /\ Len(<<a>> \o <<b>>) = 2 BY SMT, <1>0
<1>4. (<<a>> \o <<b>>)[1] = a /\ (<<a>> \o <<b>>)[2] = b BY SMT, <1>0
<1>5. \A k \in 1 .. 2 : k = 1 \/ k = 2 BY SMT, <1>0
<1>6. <<a, b>>[1] = a /\ <<a, b>>[2] = b BY SMT, <1>0
<1>7. \A k \in 1 .. 2 : (<<a>> \o <<b>>)[k] = <<a, b>>[k] BY <1>4, <1>5, <1>6
<1> QED BY <1>1, <1>2, <1>3, <1>7, SameSequence

LEMMA PointDecoded ==
  ASSUME NEW cp \in Point
  PROVE  NewStringUTF(Modified(cp)) = Halves(cp)
<1>0. cp \in Nat /\ cp <= 1114111 BY SMT DEF Point
<1>1. ASSUME cp = 0 PROVE NewStringUTF(Modified(cp)) = Halves(cp)
  <2>1. Modified(cp) = <<192, 128>> /\ Halves(cp) = <<0>> BY SMT, <1>1 DEF Modified, Halves
  <2> QED BY SMT, <2>1, NulDecoded
<1>2. ASSUME cp > 0, cp < 65536 PROVE NewStringUTF(Modified(cp)) = Halves(cp)
  <2>1. Modified(cp) = Utf8(cp) /\ Halves(cp) = <<cp>> /\ cp \in Single
    BY SMT, <1>0, <1>2 DEF Modified, Halves, Single
  <2> QED BY <2>1, GroupDecoded
<1>3. ASSUME cp >= 65536 PROVE NewStringUTF(Modified(cp)) = Halves(cp)
  <2> DEFINE h == 55296 + ((cp - 65536) \div 1024)
             l == 56320 + ((cp - 65536) % 1024)
  <2>1. h \in Single /\ l \in Single
    <3>1. /\ (cp - 65536) \div 1024 \in Nat /\ (cp - 65536) \div 1024 < 1024
          /\ (cp - 65536) % 1024 \in Nat /\ (cp - 65536) % 1024 < 1024
      BY SMT, <1>0, <1>3
    <3> QED BY SMT, <3>1 DEF Single
  <2>2. Modified(cp) = Utf8(h) \o Utf8(l) /\ Halves(cp) = <<h, l>>
    BY SMT, <1>0, <1>3 DEF Modified, Halves
  <2> HIDE DEF h, l
  <2>3. /\ Utf8(h) \in Seq(Byte) /\ ModifiedUtf8(Utf8(h))
        /\ Utf8(l) \in Seq(Byte) /\ ModifiedUtf8(Utf8(l))
    BY <2>1, PointTyped
  <2>4. NewStringUTF(Utf8(h)) = <<h>> /\ NewStringUTF(Utf8(l)) = <<l>> BY <2>1, GroupDecoded
  <2>5. NewStringUTF(Utf8(h) \o Utf8(l)) = <<h>> \o <<l>> BY <2>3, <2>4, StringConcat
  <2>6. <<h>> \o <<l>> = <<h, l>> BY <2>1, TwoUnits
  <2> QED BY <2>2, <2>5, <2>6
<1> QED BY SMT, <1>0, <1>1, <1>2, <1>3

\* What NewByte appends is what Java gets more.
LEMMA StringGrows ==
  ASSUME NEW b \in Seq(Byte), ModifiedUtf8(b), NEW cp \in Point
  PROVE  NewStringUTF(b \o Modified(cp)) = NewStringUTF(b) \o Halves(cp)
BY PointTyped, StringConcat, PointDecoded

LEMMA EmptyString == NewStringUTF(<<>>) = <<>>
<1>1. Leads(<<>>) = {} BY SMT DEF Leads
<1>2. Cardinality({}) = 0 BY FS_EmptySet
<1> DEFINE F(n) == UnitAt(<<>>, Nth({}, n))
<1>3. NewStringUTF(<<>>) = [n \in 1 .. 0 |-> F(n)]
  <2>1. NewStringUTF(<<>>) = [n \in 1 .. Cardinality(Leads(<<>>)) |-> UnitAt(<<>>, Nth(Leads(<<>>), n))]
    BY NothingWritten, LeadsBounded
  <2> QED BY <1>1, <1>2, <2>1
<1> HIDE DEF F
<1>4. [n \in 1 .. 0 |-> F(n)] = <<>> BY SMT
<1> QED BY <1>3, <1>4

---------------------------------------------------------------------------
(* What is read and written, point by point *)

\* The code point native bytes have at k, and the bytes read for it.
PointAt(s, k) == IF Accepted(s, k) THEN Value(s, k) ELSE Replacement
BytesRead(s, k) == IF Accepted(s, k) THEN Claimed(s[k]) ELSE 1

LEMMA SurrogatesHigh ==
  /\ Replacement \in Point /\ Replacement \notin High \cup Low /\ Replacement >= 128
  /\ \A x \in High \cup Low : x \in Nat /\ x >= 128
  /\ High \cap Low = {}
BY SMT DEF Replacement, Point, High, Low

LEMMA ReadsPoint ==
  ASSUME NEW s \in Seq(Byte), NEW k \in 1 .. Len(s)
  PROVE  /\ PointAt(s, k) \in Point /\ PointAt(s, k) \notin High \cup Low
         /\ PointAt(s, k) < 128 => PointAt(s, k) = s[k]
         /\ BytesRead(s, k) \in 1 .. 4 /\ k + BytesRead(s, k) - 1 <= Len(s)
<1>1. CASE ~ Accepted(s, k)
  <2>1. PointAt(s, k) = Replacement /\ BytesRead(s, k) = 1 BY <1>1 DEF PointAt, BytesRead
  <2>2. ~ (Replacement < 128) BY SMT DEF Replacement
  <2>3. 1 \in 1 .. 4 /\ k + 1 - 1 <= Len(s) BY SMT
  <2> QED BY <2>1, <2>2, <2>3, SurrogatesHigh
<1>2. CASE Accepted(s, k)
  <2> DEFINE n == Claimed(s[k])
             v == Value(s, k)
  <2>1. PointAt(s, k) = v /\ BytesRead(s, k) = n BY <1>2 DEF PointAt, BytesRead
  <2>2. Complete(s, k) /\ Shortest(n, v) /\ v \notin High \cup Low BY <1>2 DEF Accepted
  <2>3. v \in Nat /\ n \in 1 .. 4 /\ k + n - 1 <= Len(s) BY <2>2, ValueTyped
  <2>4. v \in Point BY SMT, <1>2, <2>3 DEF Accepted, Point
  <2>5. n = 1 => v = s[k] BY SMT DEF Value
  <2> HIDE DEF n, v
  <2>6. v < 128 => n = 1 BY SMT, <2>2, <2>3 DEF Shortest
  <2> QED BY <2>1, <2>2, <2>3, <2>4, <2>5, <2>6
<1> QED BY <1>1, <1>2

\* What jstr_dup reads: a scalar below 128 is the unit itself.
LEMMA ReadsScalar ==
  ASSUME NEW u \in Seq(Unit), NEW k \in 1 .. Len(u)
  PROVE  /\ Scalar(u, k) \in Point /\ (Scalar(u, k) < 128 => Scalar(u, k) = u[k])
         /\ UnitsRead(u, k) \in 1 .. 2 /\ k + UnitsRead(u, k) - 1 <= Len(u)
<1>1. /\ Scalar(u, k) \in Nat /\ Scalar(u, k) <= 1114111
      /\ UnitsRead(u, k) \in 1 .. 2 /\ k + UnitsRead(u, k) - 1 <= Len(u)
  BY SMT, ScalarTyped
<1>2. Scalar(u, k) \in Point BY SMT, <1>1 DEF Point
<1>3. CASE Paired(u, k)
  <2>1. u[k] \in High /\ u[k + 1] \in Low BY <1>3 DEF Paired
  <2> DEFINE h == u[k] - 55296
             l == u[k + 1] - 56320
  <2>2. h \in Nat /\ l \in Nat BY <2>1, HalvesBounds
  <2>3. Scalar(u, k) = 65536 + h * 1024 + l BY SMT, <1>3 DEF Scalar
  <2> HIDE DEF h, l
  <2>4. ~ (Scalar(u, k) < 128) BY SMT, <2>2, <2>3
  <2> QED BY <1>1, <1>2, <2>4
<1>4. CASE ~ Paired(u, k)
  <2>1. Scalar(u, k) = IF u[k] \in High \cup Low THEN Replacement ELSE u[k]
    BY <1>4 DEF Scalar
  <2>2. ~ (Replacement < 128) BY SMT DEF Replacement
  <2> QED BY <1>1, <1>2, <2>1, <2>2
<1> QED BY <1>3, <1>4

\* Bytes below 128 stand for themselves only.
LEMMA HighBytes ==
  ASSUME NEW cp \in Point
  PROVE  /\ Utf8(cp) \in Seq(Byte) /\ Len(Utf8(cp)) \in 1 .. 4
         /\ cp < 128 => Utf8(cp) = <<cp>>
         /\ ~ (cp < 128) => \A j \in DOMAIN Utf8(cp) : ~ (Utf8(cp)[j] < 128)
<1>1. cp \in Nat /\ cp <= 1114111 BY SMT DEF Point
<1>2. Utf8(cp) \in Seq(Byte) /\ Len(Utf8(cp)) \in 1 .. 4 BY SMT, <1>1, Utf8Typed
<1>3. cp < 128 => Utf8(cp) = <<cp>> BY SMT, <1>1 DEF Utf8
<1>4. \A x \in Nat : Continued(x) >= 128 /\ Continued(x) \in Nat BY SMT DEF Continued
<1>5. ASSUME cp >= 128, cp < 2048 PROVE \A j \in DOMAIN Utf8(cp) : Utf8(cp)[j] >= 128
  <2>1. Utf8(cp) = <<192 + (cp \div 64), Continued(cp)>> BY SMT, <1>1, <1>5 DEF Utf8
  <2>2. 192 + (cp \div 64) >= 128 /\ Continued(cp) >= 128 BY SMT, <1>1, <1>4
  <2> QED BY SMT, <2>1, <2>2
<1>6. ASSUME cp >= 2048, cp < 65536 PROVE \A j \in DOMAIN Utf8(cp) : Utf8(cp)[j] >= 128
  <2>1. Utf8(cp) = <<224 + (cp \div 4096), Continued(cp \div 64), Continued(cp)>>
    BY SMT, <1>1, <1>6 DEF Utf8
  <2>2. 224 + (cp \div 4096) >= 128 /\ Continued(cp \div 64) >= 128 /\ Continued(cp) >= 128
    BY SMT, <1>1, <1>4
  <2> QED BY SMT, <2>1, <2>2
<1>7. ASSUME cp >= 65536 PROVE \A j \in DOMAIN Utf8(cp) : Utf8(cp)[j] >= 128
  <2>1. Utf8(cp) = <<240 + (cp \div 262144), Continued(cp \div 4096),
                     Continued(cp \div 64), Continued(cp)>>
    BY SMT, <1>1, <1>7 DEF Utf8
  <2>2. /\ 240 + (cp \div 262144) >= 128 /\ Continued(cp \div 4096) >= 128
        /\ Continued(cp \div 64) >= 128 /\ Continued(cp) >= 128
    BY SMT, <1>1, <1>4
  <2> QED BY SMT, <2>1, <2>2
<1>8. \A j \in DOMAIN Utf8(cp) : Utf8(cp)[j] \in Nat
  <2>1. \A j \in DOMAIN Utf8(cp) : Utf8(cp)[j] \in Byte BY SMT, <1>2
  <2> QED BY <2>1, ByteBounds
<1>9. ~ (cp < 128) => \A j \in DOMAIN Utf8(cp) : Utf8(cp)[j] >= 128
  BY SMT, <1>1, <1>5, <1>6, <1>7
<1>10. \A x \in Nat : x >= 128 => ~ (x < 128) BY SMT
<1> QED BY <1>2, <1>3, <1>8, <1>9, <1>10

\* The four forms, with what their bytes say.
Form2(w, cp) == \E a, b : /\ w = <<a, b>> /\ Claimed(a) = 2 /\ b \in Continuation
                         /\ (a % 32) * 64 + (b % 64) = cp
Form3(w, cp) == \E a, b, c : /\ w = <<a, b, c>> /\ Claimed(a) = 3
                            /\ b \in Continuation /\ c \in Continuation
                            /\ (a % 16) * 4096 + (b % 64) * 64 + (c % 64) = cp
Form4(w, cp) == \E a, b, c, d : /\ w = <<a, b, c, d>> /\ Claimed(a) = 4
                               /\ b \in Continuation /\ c \in Continuation /\ d \in Continuation
                               /\ (a % 8) * 262144 + (b % 64) * 4096 + (c % 64) * 64 + (d % 64) = cp

LEMMA Forms ==
  ASSUME NEW cp \in Nat, cp <= 1114111
  PROVE  /\ cp < 128 => Claimed(cp) = 1
         /\ cp >= 128 /\ cp < 2048 => Form2(Utf8(cp), cp)
         /\ cp >= 2048 /\ cp < 65536 => Form3(Utf8(cp), cp)
         /\ cp >= 65536 => Form4(Utf8(cp), cp)
<1>3. cp < 128 => Claimed(cp) = 1 BY SMT DEF Claimed
<1>4. ASSUME cp >= 128, cp < 2048 PROVE Form2(Utf8(cp), cp)
  <2> DEFINE a == 192 + (cp \div 64)
             b == Continued(cp)
  <2>1. Utf8(cp) = <<a, b>> BY SMT, <1>4 DEF Utf8
  <2>2. Claimed(a) = 2 /\ b \in Continuation
    <3>1. cp \div 64 \in 2 .. 31 BY SMT, <1>4
    <3>2. Claimed(a) = 2 BY SMT, <3>1 DEF Claimed
    <3>3. b \in Continuation BY SMT DEF Continued, Continuation
    <3> QED BY <3>2, <3>3
  <2>3. (a % 32) * 64 + (b % 64) = cp BY SMT, <1>4 DEF Continued
  <2> HIDE DEF a, b
  <2> QED BY <2>1, <2>2, <2>3 DEF Form2
<1>5. ASSUME cp >= 2048, cp < 65536 PROVE Form3(Utf8(cp), cp)
  <2> DEFINE a == 224 + (cp \div 4096)
             b == Continued(cp \div 64)
             c == Continued(cp)
  <2>1. Utf8(cp) = <<a, b, c>> BY SMT, <1>5 DEF Utf8
  <2>2. Claimed(a) = 3 /\ b \in Continuation /\ c \in Continuation
    BY SMT, <1>5 DEF Claimed, Continued, Continuation
  <2>3. (a % 16) * 4096 + (b % 64) * 64 + (c % 64) = cp BY SMT, <1>5 DEF Continued
  <2> HIDE DEF a, b, c
  <2> QED BY SMT, <2>1, <2>2, <2>3 DEF Form3
<1>6. ASSUME cp >= 65536 PROVE Form4(Utf8(cp), cp)
  <2> DEFINE a == 240 + (cp \div 262144)
             b == Continued(cp \div 4096)
             c == Continued(cp \div 64)
             d == Continued(cp)
  <2>1. Utf8(cp) = <<a, b, c, d>> BY SMT, <1>6 DEF Utf8
  <2>2. Claimed(a) = 4 /\ b \in Continuation /\ c \in Continuation /\ d \in Continuation
    BY SMT, <1>6 DEF Claimed, Continued, Continuation
  <2>3. (a % 8) * 262144 + (b % 64) * 4096 + (c % 64) * 64 + (d % 64) = cp
    BY SMT, <1>6 DEF Continued
  <2> HIDE DEF a, b, c, d
  <2> QED BY SMT, <2>1, <2>2, <2>3 DEF Form4
<1> QED BY SMT, <1>3, <1>4, <1>5, <1>6

\* The bytes of a point, found in native bytes, are read as that point.
LEMMA SpelledRead ==
  ASSUME NEW s \in Seq(Byte), NEW p \in Nat, NEW cp \in Point, cp \notin High \cup Low,
         p + Len(Utf8(cp)) <= Len(s),
         \A j \in DOMAIN Utf8(cp) : s[p + j] = Utf8(cp)[j]
  PROVE  PointAt(s, p + 1) = cp /\ BytesRead(s, p + 1) = Len(Utf8(cp))
<1>1. cp \in Nat /\ cp <= 1114111 BY SMT DEF Point
<1> DEFINE k == p + 1
           w == Utf8(cp)
<1>2. ASSUME Complete(s, k), Value(s, k) = cp, Claimed(s[k]) = Len(w), Shortest(Len(w), cp)
      PROVE  PointAt(s, k) = cp /\ BytesRead(s, k) = Len(w)
  <2>1. Value(s, k) <= 1114111 BY SMT, <1>1, <1>2
  <2>2. Accepted(s, k) BY <1>2, <2>1 DEF Accepted
  <2> QED BY <1>2, <2>2 DEF PointAt, BytesRead
<1>3. ASSUME cp < 128 PROVE PointAt(s, k) = cp /\ BytesRead(s, k) = Len(w)
  <2>1. w = <<cp>> BY SMT, <1>1, <1>3 DEF Utf8
  <2>2. Len(w) = 1 /\ s[k] = cp BY SMT, <2>1
  <2>3. Claimed(cp) = 1 BY SMT, <1>1, <1>3, Forms
  <2>4. Complete(s, k) /\ Value(s, k) = cp
    BY SMT, <2>2, <2>3 DEF Complete, Value
  <2>5. Shortest(1, cp) BY SMT DEF Shortest
  <2> QED BY <1>2, <2>2, <2>3, <2>4, <2>5
<1>4. ASSUME cp >= 128, cp < 2048 PROVE PointAt(s, k) = cp /\ BytesRead(s, k) = Len(w)
  <2>0. Form2(w, cp) BY SMT, <1>1, <1>4, Forms
  <2>1. PICK a, b : /\ w = <<a, b>> /\ Claimed(a) = 2 /\ b \in Continuation
                    /\ (a % 32) * 64 + (b % 64) = cp
    BY <2>0 DEF Form2
  <2>4. Len(w) = 2 /\ s[k] = a /\ s[k + 1] = b BY SMT, <2>1
  <2>5. Complete(s, k)
    <3>1. \A j \in 1 .. 2 - 1 : j = 1 BY SMT
    <3>2. k + 2 - 1 <= Len(s) /\ 2 > 0 BY SMT, <2>4
    <3> QED BY <2>1, <2>4, <3>1, <3>2 DEF Complete
  <2>6. Value(s, k) = cp BY SMT, <2>1, <2>4 DEF Value
  <2>7. Shortest(2, cp) BY SMT, <1>4 DEF Shortest
  <2> QED BY <1>2, <2>1, <2>4, <2>5, <2>6, <2>7
<1>5. ASSUME cp >= 2048, cp < 65536 PROVE PointAt(s, k) = cp /\ BytesRead(s, k) = Len(w)
  <2>0. Form3(w, cp) BY SMT, <1>1, <1>5, Forms
  <2>1. PICK a, b, c : /\ w = <<a, b, c>> /\ Claimed(a) = 3
                       /\ b \in Continuation /\ c \in Continuation
                       /\ (a % 16) * 4096 + (b % 64) * 64 + (c % 64) = cp
    BY SMT, <2>0 DEF Form3
  <2>4. Len(w) = 3 /\ s[k] = a /\ s[k + 1] = b /\ s[k + 2] = c BY SMT, <2>1
  <2>5. Complete(s, k)
    <3>1. \A j \in 1 .. 3 - 1 : j = 1 \/ j = 2 BY SMT
    <3>2. k + 3 - 1 <= Len(s) /\ 3 > 0 BY SMT, <2>4
    <3> QED BY <2>1, <2>4, <3>1, <3>2 DEF Complete
  <2>6. Value(s, k) = cp BY SMT, <2>1, <2>4 DEF Value
  <2>7. Shortest(3, cp) BY SMT, <1>5 DEF Shortest
  <2> QED BY <1>2, <2>1, <2>4, <2>5, <2>6, <2>7
<1>6. ASSUME cp >= 65536 PROVE PointAt(s, k) = cp /\ BytesRead(s, k) = Len(w)
  <2>0. Form4(w, cp) BY SMT, <1>1, <1>6, Forms
  <2>1. PICK a, b, c, d : /\ w = <<a, b, c, d>> /\ Claimed(a) = 4
                          /\ b \in Continuation /\ c \in Continuation /\ d \in Continuation
                          /\ (a % 8) * 262144 + (b % 64) * 4096 + (c % 64) * 64 + (d % 64) = cp
    BY SMT, <2>0 DEF Form4
  <2>4. Len(w) = 4 /\ s[k] = a /\ s[k + 1] = b /\ s[k + 2] = c /\ s[k + 3] = d
    <3>1. /\ Len(w) = 4 /\ DOMAIN w = {1, 2, 3, 4}
          /\ w[1] = a /\ w[2] = b /\ w[3] = c /\ w[4] = d
      BY SMT, <2>1
    <3>2. p + 1 = k /\ p + 2 = k + 1 /\ p + 3 = k + 2 /\ p + 4 = k + 3 BY SMT
    <3>3. s[p + 1] = w[1] /\ s[p + 2] = w[2] /\ s[p + 3] = w[3] /\ s[p + 4] = w[4]
      BY <3>1
    <3> QED BY <3>1, <3>2, <3>3
  <2>5. Complete(s, k)
    <3>1. \A j \in 1 .. 4 - 1 : j = 1 \/ j = 2 \/ j = 3 BY SMT
    <3>2. k + 4 - 1 <= Len(s) /\ 4 > 0 BY SMT, <2>4
    <3> QED BY <2>1, <2>4, <3>1, <3>2 DEF Complete
  <2>6. Value(s, k) = cp BY SMT, <2>1, <2>4 DEF Value
  <2>7. Shortest(4, cp) BY SMT, <1>6 DEF Shortest
  <2> QED BY <1>2, <2>1, <2>4, <2>5, <2>6, <2>7
<1> QED BY SMT, <1>1, <1>3, <1>4, <1>5, <1>6

---------------------------------------------------------------------------
(* What a character keeps on its way *)

Char == Byte \ {0}
Without(s, S) == \A k \in DOMAIN s : s[k] \notin S
Begins(s, S) == s # <<>> /\ s[1] \notin S

LEMMA CharsAre ==
  ASSUME NEW s \in Seq(Byte)
  PROVE  Without(s, {0}) <=> s \in Seq(Char)
<1>1. Len(s) \in Nat /\ DOMAIN s = 1 .. Len(s) /\ \A k \in 1 .. Len(s) : s[k] \in Byte BY SMT
<1>2. ASSUME Without(s, {0}) PROVE s \in Seq(Char)
  <2>1. \A k \in 1 .. Len(s) : s[k] \in Char BY <1>1, <1>2 DEF Without, Char
  <2>2. s = [k \in 1 .. Len(s) |-> s[k]] BY SMT, <1>1
  <2>3. s \in [1 .. Len(s) -> Char] BY <2>1, <2>2
  <2>4. \A f \in [1 .. Len(s) -> Char] : f \in Seq(Char) BY SMT, <1>1
  <2> QED BY <2>3, <2>4
<1>3. ASSUME s \in Seq(Char) PROVE Without(s, {0})
  <2>1. \A k \in DOMAIN s : s[k] \in Char BY SMT, <1>3
  <2> QED BY <2>1 DEF Without, Char
<1> QED BY <1>2, <1>3

LEMMA CharTyped ==
  /\ \A s \in Seq(Char) : s \in Seq(Byte) /\ Len(s) \in Nat /\ DOMAIN s = 1 .. Len(s)
  /\ \A s \in Seq(Char) : \A k \in DOMAIN s : s[k] \in Char
  /\ \A c \in Char : c \in Byte /\ c \in Nat /\ c # 0
<1>1. Char \subseteq Byte /\ 0 \notin Char BY DEF Char
<1>2. \A s \in Seq(Char) : s \in Seq(Byte) BY SMT, <1>1
<1>3. \A s \in Seq(Char) : /\ Len(s) \in Nat /\ DOMAIN s = 1 .. Len(s)
                          /\ \A k \in DOMAIN s : s[k] \in Char
  BY SMT
<1> QED BY <1>1, <1>2, <1>3, ByteBounds

LEMMA WithoutConcat ==
  ASSUME NEW T, NEW s \in Seq(T), NEW t \in Seq(T), NEW S
  PROVE  /\ Without(s, S) /\ Without(t, S) => Without(s \o t, S)
         /\ Begins(s, S) => Begins(s \o t, S)
         /\ Begins(t, S) /\ s = <<>> => Begins(s \o t, S)
<1> DEFINE b == s \o t
<1>1. /\ Len(s) \in Nat /\ DOMAIN s = 1 .. Len(s)
      /\ Len(t) \in Nat /\ DOMAIN t = 1 .. Len(t)
      /\ DOMAIN b = 1 .. (Len(s) + Len(t))
      /\ s = <<>> => Len(s) = 0
  BY SMT
<1>2. /\ \A k \in 1 .. Len(s) : b[k] = s[k]
      /\ \A k \in 1 .. Len(t) : b[Len(s) + k] = t[k]
  BY Joins
<1>3. s # <<>> => 1 \in 1 .. Len(s) /\ b # <<>> BY SMT, <1>1
<1>8. b \in Seq(T) /\ Len(b) = Len(s) + Len(t) BY Joins
<1> HIDE DEF b
<1>9. ASSUME s = <<>> PROVE b = t
  <2>1. Len(b) = Len(t) /\ \A k \in 1 .. Len(t) : Len(s) + k = k BY SMT, <1>1, <1>8, <1>9
  <2>2. \A k \in 1 .. Len(b) : b[k] = t[k] BY <1>2, <2>1
  <2> QED BY <1>8, <2>1, <2>2, SameSequence
<1>4. \A k \in 1 .. (Len(s) + Len(t)) :
        k \in 1 .. Len(s) \/ (k - Len(s) \in 1 .. Len(t) /\ k = Len(s) + (k - Len(s)))
  BY SMT, <1>1
<1>5. Without(s, S) /\ Without(t, S) => Without(b, S)
  <2> SUFFICES ASSUME Without(s, S), Without(t, S), NEW k \in 1 .. (Len(s) + Len(t))
               PROVE  b[k] \notin S
    BY <1>1 DEF Without
  <2>1. CASE k \in 1 .. Len(s) BY <1>1, <1>2, <2>1 DEF Without
  <2>2. CASE k - Len(s) \in 1 .. Len(t) /\ k = Len(s) + (k - Len(s))
    <3>1. b[k] = t[k - Len(s)] BY <1>2, <2>2
    <3> QED BY <1>1, <2>2, <3>1 DEF Without
  <2> QED BY <1>4, <2>1, <2>2
<1>6. Begins(s, S) => Begins(b, S) BY <1>2, <1>3 DEF Begins
<1>7. Begins(t, S) /\ s = <<>> => Begins(b, S) BY <1>9
<1> QED BY <1>5, <1>6, <1>7 DEF b

\* Characters below 128.
Ascii == 0 .. 127

LEMMA HalvesTyped ==
  ASSUME NEW cp \in Point
  PROVE  /\ cp < 65536 => Halves(cp) = <<cp>> /\ cp \in Unit
         /\ ~ (cp < 65536) => \E h \in High, l \in Low : Halves(cp) = <<h, l>>
         /\ Halves(cp) \in Seq(Unit)
<1>1. cp \in Nat /\ cp <= 1114111 BY SMT DEF Point
<1>2. cp < 65536 => Halves(cp) = <<cp>> /\ cp \in Unit BY SMT, <1>1 DEF Halves, Unit
<1>3. ASSUME ~ (cp < 65536) PROVE \E h \in High, l \in Low : Halves(cp) = <<h, l>>
  <2> DEFINE h == 55296 + ((cp - 65536) \div 1024)
             l == 56320 + ((cp - 65536) % 1024)
  <2>1. h \in High /\ l \in Low
    <3>1. /\ (cp - 65536) \div 1024 \in Nat /\ (cp - 65536) \div 1024 < 1024
          /\ (cp - 65536) % 1024 \in Nat /\ (cp - 65536) % 1024 < 1024
      BY SMT, <1>1, <1>3
    <3> QED BY SMT, <3>1 DEF High, Low
  <2>2. Halves(cp) = <<h, l>> BY SMT, <1>1, <1>3 DEF Halves
  <2> HIDE DEF h, l
  <2> QED BY <2>1, <2>2
<1>4. \A x \in High \cup Low : x \in Unit BY SMT DEF High, Low, Unit
<1>5. /\ \A a \in Unit : <<a>> \in Seq(Unit)
      /\ \A a, b \in Unit : <<a, b>> \in Seq(Unit)
  BY SMT
<1>6. Halves(cp) \in Seq(Unit)
  <2> DEFINE B == cp < 65536
  <2>1. (B => Halves(cp) = <<cp>> /\ cp \in Unit)
        /\ (~ B => \E h \in High, l \in Low : Halves(cp) = <<h, l>>)
    BY <1>2, <1>3
  <2> HIDE DEF B
  <2> QED BY <1>4, <1>5, <2>1
<1> QED BY <1>2, <1>3, <1>6

\* A code point outside a set of ASCII characters brings none of them, in
\* either form.
LEMMA SpelledWithout ==
  ASSUME NEW cp \in Point, NEW S \in SUBSET Ascii, cp \notin S
  PROVE  /\ Without(Utf8(cp), S) /\ Begins(Utf8(cp), S)
         /\ Without(Halves(cp), S) /\ Begins(Halves(cp), S)
<1>1. \A x \in S : x < 128 BY SMT DEF Ascii
<1>2. \A a : DOMAIN <<a>> = {1} /\ <<a>>[1] = a /\ <<a>> # <<>> BY SMT
<1>3. \A a, b : DOMAIN <<a, b>> = {1, 2} /\ <<a, b>>[1] = a /\ <<a, b>>[2] = b /\ <<a, b>> # <<>>
  BY SMT
<1>4. Without(Utf8(cp), S)
  <2>1. CASE cp < 128 BY <1>2, <2>1, HighBytes DEF Without
  <2>2. CASE ~ (cp < 128) BY <1>1, <2>2, HighBytes DEF Without
  <2> QED BY <2>1, <2>2
<1>5. Utf8(cp) # <<>> /\ 1 \in DOMAIN Utf8(cp)
  <2>1. Utf8(cp) \in Seq(Byte) /\ Len(Utf8(cp)) \in 1 .. 4 BY HighBytes
  <2> QED BY SMT, <2>1
<1>6. Without(Halves(cp), S) /\ Halves(cp) # <<>> /\ 1 \in DOMAIN Halves(cp)
  <2>1. CASE Halves(cp) = <<cp>> BY <1>2, <2>1 DEF Without
  <2>2. CASE \E h \in High, l \in Low : Halves(cp) = <<h, l>>
    <3>1. PICK h \in High, l \in Low : Halves(cp) = <<h, l>> BY <2>2
    <3>2. \A x \in High \cup Low : ~ (x < 128) BY SMT DEF High, Low
    <3>3. h \notin S /\ l \notin S BY <1>1, <3>2
    <3> QED BY <1>3, <3>1, <3>3 DEF Without
  <2> QED BY <2>1, <2>2, HalvesTyped
<1> QED BY <1>4, <1>5, <1>6 DEF Without, Begins

LEMMA DupWrites ==
  ASSUME BridgeInv, DupUnit
  PROVE  \E cp \in Point :
           /\ text \in Seq(Unit) /\ i + 1 \in 1 .. Len(text) /\ i \in Nat /\ out \in Seq(Byte)
           /\ i = 0 => out = <<>>
           /\ cp = Scalar(text, i + 1) /\ (cp < 128 => cp = text[i + 1])
           /\ out' = out \o Utf8(cp) /\ i' = i + UnitsRead(text, i + 1)
<1>1. /\ at = "dup" /\ i < Len(text)
      /\ i' = i + UnitsRead(text, i + 1) /\ out' = out \o Utf8(Scalar(text, i + 1))
  BY DEF DupUnit
<1>2. /\ text \in Seq(Unit) /\ i \in Nat /\ Len(text) \in Nat
      /\ out \in Seq(Byte) /\ Len(out) <= 3 * i
  BY SMT, <1>1 DEF BridgeInv, Carried, Walked
<1>3. i + 1 \in 1 .. Len(text) BY SMT, <1>1, <1>2
<1>4. i = 0 => out = <<>> BY SMT, <1>2
<1> QED BY <1>1, <1>2, <1>3, <1>4, ReadsScalar

LEMMA NewWrites ==
  ASSUME BridgeInv, NewByte
  PROVE  \E cp \in Point :
           /\ text \in Seq(Byte) /\ i + 1 \in 1 .. Len(text) /\ i \in Nat /\ out \in Seq(Byte)
           /\ NewStringUTF(out) \in Seq(Unit)
           /\ i = 0 => NewStringUTF(out) = <<>>
           /\ cp = PointAt(text, i + 1) /\ (cp < 128 => cp = text[i + 1])
           /\ cp \notin High \cup Low
           /\ NewStringUTF(out') = NewStringUTF(out) \o Halves(cp)
           /\ i' = i + BytesRead(text, i + 1)
<1>1. at = "new" /\ i < Len(text) BY DEF NewByte
<1>2. /\ text \in Seq(Byte) /\ i \in Nat /\ Len(text) \in Nat
      /\ out \in Seq(Byte) /\ Len(out) <= 3 * i /\ ModifiedUtf8(out)
  BY SMT, <1>1 DEF BridgeInv, Carried, Walked
<1>3. i + 1 \in 1 .. Len(text) BY SMT, <1>1, <1>2
<1>4. i = 0 => out = <<>> BY SMT, <1>2
<1> DEFINE cp == PointAt(text, i + 1)
<1>5. cp \in Point /\ cp \notin High \cup Low /\ (cp < 128 => cp = text[i + 1])
  BY <1>2, <1>3, ReadsPoint
<1>6. out' = out \o Modified(cp) /\ i' = i + BytesRead(text, i + 1)
  BY DEF NewByte, PointAt, BytesRead
<1> HIDE DEF cp
<1>7. NewStringUTF(out') = NewStringUTF(out) \o Halves(cp) BY <1>2, <1>5, <1>6, StringGrows
<1>8. NewStringUTF(out) \in Seq(Unit) BY <1>2, NewStringTyped
<1> QED BY <1>2, <1>3, <1>4, <1>5, <1>6, <1>7, <1>8, EmptyString DEF cp

\* Of a set of ASCII characters, neither function writes one its input has not.
LEMMA WritesWithout ==
  ASSUME BridgeInv, NEW S \in SUBSET Ascii
  PROVE  /\ DupUnit /\ Without(text, S) /\ Without(out, S) => Without(out', S)
         /\ NewByte /\ Without(text, S) /\ Without(NewStringUTF(out), S)
              => Without(NewStringUTF(out'), S)
         /\ DupUnit /\ Begins(text, S) /\ (i > 0 => Begins(out, S)) => Begins(out', S)
         /\ NewByte /\ Begins(text, S) /\ (i > 0 => Begins(NewStringUTF(out), S))
              => Begins(NewStringUTF(out'), S)
<1>0. ASSUME NEW cp \in Point, NEW x, cp < 128 => cp = x, x \notin S PROVE cp \notin S
  <2>1. \A y \in S : y < 128 BY SMT DEF Ascii
  <2> QED BY <1>0, <2>1
<1>1. ASSUME DupUnit
      PROVE  /\ Without(text, S) /\ Without(out, S) => Without(out', S)
             /\ Begins(text, S) /\ (i > 0 => Begins(out, S)) => Begins(out', S)
  <2>1. PICK cp \in Point :
           /\ text \in Seq(Unit) /\ i + 1 \in 1 .. Len(text) /\ i \in Nat /\ out \in Seq(Byte)
           /\ i = 0 => out = <<>>
           /\ cp = Scalar(text, i + 1) /\ (cp < 128 => cp = text[i + 1])
           /\ out' = out \o Utf8(cp) /\ i' = i + UnitsRead(text, i + 1)
    BY <1>1, DupWrites
  <2>2. /\ i = 0 \/ i > 0
        /\ i = 0 => i + 1 = 1
        /\ DOMAIN text = 1 .. Len(text)
    BY SMT, <2>1
  <2>3. Utf8(cp) \in Seq(Byte) BY HighBytes
  <2>4. ASSUME Without(text, S), Without(out, S) PROVE Without(out', S)
    <3>1. cp \notin S BY <1>0, <2>1, <2>2, <2>4 DEF Without
    <3>2. Without(Utf8(cp), S) BY <3>1, SpelledWithout
    <3> QED BY <2>1, <2>3, <2>4, <3>2, WithoutConcat
  <2>5. ASSUME Begins(text, S), i > 0 => Begins(out, S) PROVE Begins(out', S)
    <3>1. CASE i > 0 BY <2>1, <2>3, <2>5, <3>1, WithoutConcat
    <3>2. CASE i = 0
      <4>1. cp \notin S BY <1>0, <2>1, <2>2, <2>5, <3>2 DEF Begins
      <4>2. Begins(Utf8(cp), S) BY <4>1, SpelledWithout
      <4> QED BY <2>1, <2>3, <3>2, <4>2, WithoutConcat
    <3> QED BY <2>2, <3>1, <3>2
  <2> QED BY <2>4, <2>5
<1>2. ASSUME NewByte
      PROVE  /\ Without(text, S) /\ Without(NewStringUTF(out), S) => Without(NewStringUTF(out'), S)
             /\ Begins(text, S) /\ (i > 0 => Begins(NewStringUTF(out), S))
                  => Begins(NewStringUTF(out'), S)
  <2>1. PICK cp \in Point :
           /\ text \in Seq(Byte) /\ i + 1 \in 1 .. Len(text) /\ i \in Nat /\ out \in Seq(Byte)
           /\ NewStringUTF(out) \in Seq(Unit)
           /\ i = 0 => NewStringUTF(out) = <<>>
           /\ cp = PointAt(text, i + 1) /\ (cp < 128 => cp = text[i + 1])
           /\ cp \notin High \cup Low
           /\ NewStringUTF(out') = NewStringUTF(out) \o Halves(cp)
           /\ i' = i + BytesRead(text, i + 1)
    BY <1>2, NewWrites
  <2>2. /\ i = 0 \/ i > 0
        /\ i = 0 => i + 1 = 1
        /\ DOMAIN text = 1 .. Len(text)
    BY SMT, <2>1
  <2>3. Halves(cp) \in Seq(Unit) BY HalvesTyped
  <2>4. ASSUME Without(text, S), Without(NewStringUTF(out), S) PROVE Without(NewStringUTF(out'), S)
    <3>1. cp \notin S BY <1>0, <2>1, <2>2, <2>4 DEF Without
    <3>2. Without(Halves(cp), S) BY <3>1, SpelledWithout
    <3> QED BY <2>1, <2>3, <2>4, <3>2, WithoutConcat
  <2>5. ASSUME Begins(text, S), i > 0 => Begins(NewStringUTF(out), S)
        PROVE  Begins(NewStringUTF(out'), S)
    <3>1. CASE i > 0 BY <2>1, <2>3, <2>5, <3>1, WithoutConcat
    <3>2. CASE i = 0
      <4>1. cp \notin S BY <1>0, <2>1, <2>2, <2>5, <3>2 DEF Begins
      <4>2. Begins(Halves(cp), S) BY <4>1, SpelledWithout
      <4> QED BY <2>1, <2>3, <3>2, <4>2, WithoutConcat
    <3> QED BY <2>2, <3>1, <3>2
  <2> QED BY <2>4, <2>5
<1> QED BY <1>1, <1>2

---------------------------------------------------------------------------
(* The names native code makes *)

LEMMA Hex ==
  /\ \A c \in HexDigits : HexVal(c) \in 0 .. 15
  /\ \A v \in 0 .. 15 : HexDigit(v) \in HexDigits /\ HexVal(HexDigit(v)) = v
  /\ HexDigits \subseteq Char \ {PERCENT, 63, 35}
  /\ PERCENT \in Char \ {63, 35}
<1>1. \A c \in HexDigits : HexVal(c) \in 0 .. 15 BY SMT DEF HexDigits, Digits, HexVal
<1>2. \A v \in 0 .. 15 : HexDigit(v) \in HexDigits /\ HexVal(HexDigit(v)) = v
  BY SMT DEF HexDigits, Digits, HexVal, HexDigit
<1>3. HexDigits \subseteq Char \ {PERCENT, 63, 35}
  BY SMT DEF HexDigits, Digits, Char, Byte, PERCENT
<1>4. PERCENT \in Char \ {63, 35} BY SMT DEF Char, Byte, PERCENT
<1> QED BY <1>1, <1>2, <1>3, <1>4

\* What a position of an escaped text stands for, and the positions that do.
Kept(s) == {k \in DOMAIN s : k - 1 \notin Escapes(s) /\ k - 2 \notin Escapes(s)}
Meant(s, k) == IF k \in Escapes(s) THEN HexVal(s[k + 1]) * 16 + HexVal(s[k + 2])
               ELSE ByteAt(s, k)
Plainly(s) == Picked([k \in DOMAIN s |-> Meant(s, k)], Kept(s))

LEMMA MeantTyped ==
  ASSUME NEW s \in Seq(Byte), NEW k \in DOMAIN s
  PROVE  Meant(s, k) \in Byte
<1>1. CASE k \in Escapes(s)
  <2>1. s[k + 1] \in HexDigits /\ s[k + 2] \in HexDigits BY <1>1 DEF Escapes
  <2> DEFINE a == HexVal(s[k + 1])
             b == HexVal(s[k + 2])
  <2>2. a \in 0 .. 15 /\ b \in 0 .. 15 BY <2>1, Hex
  <2>3. Meant(s, k) = a * 16 + b BY <1>1 DEF Meant
  <2> HIDE DEF a, b
  <2> QED BY SMT, <2>2, <2>3 DEF Byte
<1>2. CASE k \notin Escapes(s)
  <2>1. s[k] \in Byte BY SMT
  <2> QED BY <1>2, <2>1 DEF Meant, ByteAt
<1> QED BY <1>1, <1>2

LEMMA DecodedTyped ==
  ASSUME NEW s \in Seq(Byte)
  PROVE  /\ PercentDecode(s) = UpTo(Plainly(s), {0})
         /\ Plainly(s) \in Seq(Byte) /\ PercentDecode(s) \in Seq(Char)
<1> DEFINE v == [k \in DOMAIN s |-> Meant(s, k)]
<1>1. Len(s) \in Nat /\ DOMAIN s = 1 .. Len(s) BY SMT
<1>2. Kept(s) \in SUBSET (1 .. Len(s)) BY <1>1 DEF Kept
<1>3. \A n \in 1 .. Cardinality(Kept(s)) : Nth(Kept(s), n) \in DOMAIN s
  BY <1>1, <1>2, Sorted
<1>4. Plainly(s) = [n \in 1 .. Cardinality(Kept(s)) |-> Meant(s, Nth(Kept(s), n))]
  BY <1>3 DEF Plainly, Picked
<1>5. PercentDecode(s) = UpTo(Plainly(s), {0})
  BY <1>4 DEF PercentDecode, CString, Kept, Meant
<1>6. \A k \in Kept(s) : v[k] \in Byte BY MeantTyped DEF Kept
<1> HIDE DEF v
<1>7. Picked(v, Kept(s)) \in Seq(Byte) BY <1>1, <1>2, <1>6, PickedTyped
<1>8. Plainly(s) \in Seq(Byte) BY <1>7 DEF Plainly, v
<1>9. UpTo(Plainly(s), {0}) \in Seq(Char) BY <1>8, UpToExact DEF Char
<1> QED BY <1>5, <1>8, <1>9

LEMMA NamesTyped ==
  /\ DEFAULT \in Seq(Char) /\ <<DOT>> \in Seq(Char) /\ <<98, 105, 110>> \in Seq(Char)
  /\ UNDERSCORE \in Char
  /\ Confined(DEFAULT)
  /\ \A s \in Seq(Byte \ {0}) : s \in Seq(Char)
<1>1. UNDERSCORE \in Char /\ DOT \in Char BY SMT DEF UNDERSCORE, DOT, Char, Byte
<1>2. 98 \in Char /\ 105 \in Char /\ 110 \in Char BY SMT DEF Char, Byte
<1>3. 100 \in Char /\ 111 \in Char /\ 119 \in Char /\ 108 \in Char /\ 97 \in Char
  BY SMT DEF Char, Byte
<1>4. DEFAULT \in Seq(Char) BY SMT, <1>2, <1>3 DEF DEFAULT
<1>5. <<DOT>> \in Seq(Char) /\ <<98, 105, 110>> \in Seq(Char) BY SMT, <1>1, <1>2
<1>6. Confined(DEFAULT) BY SMT DEF Confined, DEFAULT, SLASH, BACKSLASH, DOT, DASH
<1>7. \A s \in Seq(Byte \ {0}) : s \in Seq(Char) BY DEF Char
<1> QED BY <1>1, <1>4, <1>5, <1>6, <1>7

\* What Replaced leaves has none of what it replaces; Defused takes the first
\* byte that would climb, hide or be an option.
LEMMA MadeConfined ==
  ASSUME NEW s \in Seq(Char), NEW S, UNDERSCORE \notin S, {SLASH, BACKSLASH} \subseteq S
  PROVE  /\ Defused(Replaced(s, S)) \in Seq(Char)
         /\ s = <<>> => Defused(Replaced(s, S)) = <<>>
         /\ s # <<>> => Confined(Defused(Replaced(s, S)))
<1> DEFINE r == Replaced(s, S)
<1>1. Len(s) \in Nat /\ DOMAIN s = 1 .. Len(s) /\ \A k \in 1 .. Len(s) : s[k] \in Char
  BY CharTyped
<1>2. r = [k \in 1 .. Len(s) |-> IF s[k] \in S THEN UNDERSCORE ELSE s[k]]
  BY <1>1 DEF Replaced
<1>3. /\ DOMAIN r = 1 .. Len(s)
      /\ \A k \in DOMAIN r : r[k] = IF s[k] \in S THEN UNDERSCORE ELSE s[k]
  BY <1>2
<1>4. r \in [1 .. Len(s) -> Char] BY <1>1, <1>2, NamesTyped
<1>5. \A f \in [1 .. Len(s) -> Char] : f \in Seq(Char) BY SMT, <1>1
<1>6. \A k \in DOMAIN r : r[k] \notin S BY <1>3
<1>7. \A k \in DOMAIN r : r[k] \notin {SLASH, BACKSLASH} BY <1>6
<1>8. UNDERSCORE \notin {SLASH, BACKSLASH, DOT, DASH}
  BY SMT DEF UNDERSCORE, SLASH, BACKSLASH, DOT, DASH
<1>9. /\ s = <<>> => r = <<>>
      /\ s # <<>> => 1 \in DOMAIN r /\ r # <<>>
  <2>1. s = <<>> => Len(s) = 0 BY SMT
  <2>2. s # <<>> => 1 \in 1 .. Len(s) BY SMT, <1>1
  <2> HIDE DEF r
  <2>3. r \in Seq(Char) BY <1>4, <1>5
  <2>4. DOMAIN r = 1 .. 0 => r = <<>> BY SMT, <2>3
  <2>5. r = <<>> => DOMAIN r = {} BY SMT
  <2> QED BY <1>3, <2>1, <2>2, <2>4, <2>5
<1> HIDE DEF r
<1>10. CASE r # <<>> /\ r[1] \in {DOT, DASH}
  <2> DEFINE d == [r EXCEPT ![1] = UNDERSCORE]
  <2>1. Defused(r) = d BY <1>10 DEF Defused
  <2>2. 1 \in DOMAIN r BY <1>9, <1>10
  <2>3. /\ DOMAIN d = DOMAIN r /\ d[1] = UNDERSCORE
        /\ \A k \in DOMAIN d : d[k] = UNDERSCORE \/ d[k] = r[k]
    BY <2>2
  <2>4. d \in [1 .. Len(s) -> Char] BY <1>4, NamesTyped
  <2>5. d \in Seq(Char) BY <1>5, <2>4
  <2> HIDE DEF d
  <2>6. d # <<>>
    <3>1. d = <<>> => DOMAIN d = {} BY SMT
    <3> QED BY <2>2, <2>3, <3>1
  <2>7. Confined(d) BY <1>7, <1>8, <2>3, <2>6 DEF Confined
  <2> QED BY <1>9, <1>10, <2>1, <2>5, <2>7 DEF r
<1>11. CASE ~ (r # <<>> /\ r[1] \in {DOT, DASH})
  <2>1. Defused(r) = r BY <1>11 DEF Defused
  <2>2. r # <<>> => Confined(r) BY <1>7, <1>11 DEF Confined
  <2> QED BY <1>4, <1>5, <1>9, <2>1, <2>2 DEF r
<1> QED BY <1>10, <1>11

LEMMA SanitizedConfined ==
  ASSUME NEW s \in Seq(Char)
  PROVE  SanitizeFilename(s) \in Seq(Char) /\ Confined(SanitizeFilename(s))
<1> DEFINE S == {SLASH, BACKSLASH, COLON} \cup 1 .. 31
<1>1. UNDERSCORE \notin S /\ {SLASH, BACKSLASH} \subseteq S
  BY SMT DEF UNDERSCORE, SLASH, BACKSLASH, COLON
<1>2. SanitizeFilename(s) = IF s = <<>> THEN DEFAULT ELSE Defused(Replaced(s, S))
  BY DEF SanitizeFilename
<1> HIDE DEF S
<1> QED BY <1>1, <1>2, NamesTyped, MadeConfined

LEMMA JoinedConfined ==
  ASSUME NEW s \in Seq(Char), NEW t \in Seq(Char), Confined(s), Without(t, {SLASH, BACKSLASH})
  PROVE  s \o t \in Seq(Char) /\ Confined(s \o t)
<1>1. \A r : Confined(r) <=> Without(r, {SLASH, BACKSLASH}) /\ Begins(r, {DOT, DASH})
  BY DEF Confined, Without, Begins
<1>2. Without(s \o t, {SLASH, BACKSLASH}) /\ Begins(s \o t, {DOT, DASH})
  BY <1>1, WithoutConcat
<1> QED BY <1>1, <1>2, Joins

\* A name of any of the three sources is one component of a path that neither
\* climbs nor hides nor reads as an option, whatever escapes and separators the
\* URL, the title or the file of the item holds.
LEMMA NamesMade ==
  /\ \A url \in Seq(Char) : FilenameFromUrl(url) \in Seq(Char) /\ Confined(FilenameFromUrl(url))
  /\ \A path \in Seq(Char) : BasenameOf(path) \in Seq(Char) /\ Confined(BasenameOf(path))
  /\ \A title, ext \in Seq(Char) :
       /\ SanitizeFilename(title) \o <<DOT>> \o SanitizeFilename(ext) \in Seq(Char)
       /\ Confined(SanitizeFilename(title) \o <<DOT>> \o SanitizeFilename(ext))
<1>1. ASSUME NEW url \in Seq(Char)
      PROVE  FilenameFromUrl(url) \in Seq(Char) /\ Confined(FilenameFromUrl(url))
  <2> DEFINE leaf == Leaf(PathOf(url))
             s == PercentDecode(leaf)
             S == {SLASH, BACKSLASH}
             name == Defused(Replaced(s, S))
  <2>1. leaf \in Seq(Char) BY UpToTyped, LeafTyped DEF PathOf
  <2> HIDE DEF leaf
  <2>2. s \in Seq(Char) BY <2>1, CharTyped, DecodedTyped
  <2> HIDE DEF s
  <2>3. UNDERSCORE \notin S BY SMT DEF UNDERSCORE, SLASH, BACKSLASH
  <2>4. name \in Seq(Char) /\ (s = <<>> => name = <<>>) /\ (s # <<>> => Confined(name))
    BY <2>2, <2>3, MadeConfined
  <2>5. FilenameFromUrl(url) = IF name = <<>> THEN DEFAULT ELSE name
    BY DEF FilenameFromUrl, s, leaf
  <2> HIDE DEF name
  <2> QED BY <2>4, <2>5, NamesTyped
<1>2. ASSUME NEW path \in Seq(Char)
      PROVE  BasenameOf(path) \in Seq(Char) /\ Confined(BasenameOf(path))
  BY LeafTyped, SanitizedConfined DEF BasenameOf
<1>3. ASSUME NEW title \in Seq(Char), NEW ext \in Seq(Char)
      PROVE  /\ SanitizeFilename(title) \o <<DOT>> \o SanitizeFilename(ext) \in Seq(Char)
             /\ Confined(SanitizeFilename(title) \o <<DOT>> \o SanitizeFilename(ext))
  <2> DEFINE a == SanitizeFilename(title)
             b == SanitizeFilename(ext)
  <2>1. a \in Seq(Char) /\ b \in Seq(Char) /\ Confined(a) /\ Confined(b)
    BY SanitizedConfined
  <2> HIDE DEF a, b
  <2>2. Without(<<DOT>>, {SLASH, BACKSLASH}) BY SMT DEF DOT, SLASH, BACKSLASH, Without
  <2>3. a \o <<DOT>> \in Seq(Char) /\ Confined(a \o <<DOT>>)
    BY <2>1, <2>2, NamesTyped, JoinedConfined
  <2>4. Without(b, {SLASH, BACKSLASH}) BY <2>1 DEF Confined, Without
  <2>5. (a \o <<DOT>>) \o b \in Seq(Char) /\ Confined((a \o <<DOT>>) \o b)
    BY <2>1, <2>3, <2>4, JoinedConfined
  <2> QED BY <2>5 DEF a, b
<1> QED BY <1>1, <1>2, <1>3

---------------------------------------------------------------------------
(* The link of a file *)

EscapeOf(c) ==
  IF c \in Plain THEN <<c>> ELSE <<PERCENT, HexDigit(c \div 16), HexDigit(c % 16)>>

\* Each % begins an escape.
Closed(s) == \A k \in DOMAIN s : s[k] = PERCENT => k \in Escapes(s)

LEMMA PickedOne == \A v : Picked(v, {1}) = <<v[1]>>
<1> DEFINE f == [n \in 1 .. 1 |-> 1]
<1>1. \A n \in 1 .. 1 : n = 1 BY SMT
<1>2. 1 \in 1 .. 1 /\ 1 \in Nat BY SMT
<1>3. ~ (1 < 1) BY SMT
<1>4. Lists(f, 1, 1, {1}) BY <1>1, <1>2, <1>3 DEF Lists
<1>5. InOrder(f, 1, {1}) BY <1>2, <1>4, Enumerated
<1>6. Cardinality({1}) = 1 /\ \A n \in 1 .. 1 : Nth({1}, n) = 1 BY <1>5 DEF InOrder
<1> SUFFICES ASSUME NEW v PROVE Picked(v, {1}) = <<v[1]>>
  OBVIOUS
<1>7. Picked(v, {1}) = [n \in 1 .. 1 |-> v[1]] BY <1>6 DEF Picked
<1>8. \A x : [n \in 1 .. 1 |-> x] = <<x>> BY SMT
<1> QED BY <1>7, <1>8

LEMMA EscapesWithin ==
  ASSUME NEW s \in Seq(Byte), NEW k \in Escapes(s)
  PROVE  /\ k \in Nat /\ 1 <= k /\ k + 2 <= Len(s)
         /\ s[k] = PERCENT /\ s[k + 1] \in HexDigits /\ s[k + 2] \in HexDigits
<1>1. /\ k \in 1 .. (Len(s) - 2) /\ s[k] = PERCENT
      /\ s[k + 1] \in HexDigits /\ s[k + 2] \in HexDigits
  BY DEF Escapes
<1>2. Len(s) \in Nat BY SMT
<1> QED BY SMT, <1>1, <1>2

LEMMA EscapedByte ==
  ASSUME NEW c \in Char
  PROVE  /\ EscapeOf(c) \in Seq(Char) /\ Without(EscapeOf(c), {63, 35})
         /\ Closed(EscapeOf(c)) /\ Plainly(EscapeOf(c)) = <<c>>
<1> DEFINE w == EscapeOf(c)
<1>1. /\ \A a \in Char : <<a>> \in Seq(Char)
      /\ \A a, b, d \in Char : <<a, b, d>> \in Seq(Char)
  BY SMT
<1>2. /\ \A a : DOMAIN <<a>> = {1} /\ Len(<<a>>) = 1 /\ <<a>>[1] = a
      /\ \A a, b, d : /\ DOMAIN <<a, b, d>> = {1, 2, 3} /\ Len(<<a, b, d>>) = 3
                      /\ <<a, b, d>>[1] = a /\ <<a, b, d>>[2] = b /\ <<a, b, d>>[3] = d
  BY SMT
<1>3. c \in Nat /\ c <= 255 BY CharTyped, ByteBounds
<1>4. ASSUME 1 \in DOMAIN w, Kept(w) = {1}, Meant(w, 1) = c PROVE Plainly(w) = <<c>>
  <2> HIDE DEF w
  <2>1. [k \in DOMAIN w |-> Meant(w, k)][1] = c BY <1>4
  <2> QED BY <1>4, <2>1, PickedOne DEF Plainly
<1>5. CASE c \in Plain
  <2>1. w = <<c>> BY <1>5 DEF EscapeOf
  <2>2. c \notin {PERCENT, 63, 35}
    BY SMT, <1>5 DEF Plain, Unreserved, Letters, Digits, DASH, UNDERSCORE, DOT, SLASH, PERCENT
  <2>3. w \in Seq(Char) /\ Without(w, {63, 35}) BY <1>1, <1>2, <2>1, <2>2 DEF Without
  <2>4. Closed(w) BY <1>2, <2>1, <2>2 DEF Closed
  <2>5. Escapes(w) = {}
    <3>0. w \in Seq(Byte) /\ Len(w) = 1 BY <1>2, <2>1, <2>3, CharTyped
    <3>1. \A k \in Escapes(w) : k \in Nat /\ 1 <= k /\ k + 2 <= 1 BY <3>0, EscapesWithin
    <3>2. \A k \in Nat : ~ (1 <= k /\ k + 2 <= 1) BY SMT
    <3> QED BY <3>1, <3>2
  <2>6. Kept(w) = {1} /\ Meant(w, 1) = c BY <1>2, <2>1, <2>5 DEF Kept, Meant, ByteAt
  <2>7. Plainly(w) = <<c>> BY <1>2, <1>4, <2>1, <2>6
  <2> QED BY <2>3, <2>4, <2>7
<1>6. CASE c \notin Plain
  <2> DEFINE x == HexDigit(c \div 16)
             y == HexDigit(c % 16)
  <2>1. w = <<PERCENT, x, y>> BY <1>6 DEF EscapeOf
  <2>2. c \div 16 \in 0 .. 15 /\ c % 16 \in 0 .. 15 /\ (c \div 16) * 16 + (c % 16) = c
    BY SMT, <1>3
  <2>3. /\ x \in HexDigits /\ HexVal(x) = c \div 16
        /\ y \in HexDigits /\ HexVal(y) = c % 16
    BY <2>2, Hex
  <2> HIDE DEF x, y, w
  <2>4. /\ x \in Char /\ y \in Char /\ PERCENT \in Char
        /\ x \notin {PERCENT, 63, 35} /\ y \notin {PERCENT, 63, 35} /\ PERCENT \notin {63, 35}
    BY <2>3, Hex
  <2>5. w \in Seq(Char) /\ Without(w, {63, 35}) BY <1>1, <1>2, <2>1, <2>4 DEF Without
  <2>6. Escapes(w) = {1}
    <3>0. w \in Seq(Byte) /\ Len(w) = 3 BY <1>2, <2>1, <2>5, CharTyped
    <3>1. \A k \in Escapes(w) : k \in Nat /\ 1 <= k /\ k + 2 <= 3 BY <3>0, EscapesWithin
    <3>2. \A k \in Nat : 1 <= k /\ k + 2 <= 3 => k = 1 BY SMT
    <3>3. 1 \in 1 .. (3 - 2) /\ 1 + 1 = 2 /\ 1 + 2 = 3 BY SMT
    <3>4. 1 \in Escapes(w) BY <1>2, <2>1, <2>3, <3>3 DEF Escapes
    <3> QED BY <3>1, <3>2, <3>4
  <2>7. Closed(w) BY <1>2, <2>1, <2>4, <2>6 DEF Closed
  <2>8. Kept(w) = {1}
    <3>1. 1 - 1 # 1 /\ 1 - 2 # 1 /\ 2 - 1 = 1 /\ 3 - 2 = 1 BY SMT
    <3> QED BY <1>2, <2>1, <2>6, <3>1 DEF Kept
  <2>9. Meant(w, 1) = c
    <3>1. 1 + 1 = 2 /\ 1 + 2 = 3 BY SMT
    <3>2. Meant(w, 1) = HexVal(x) * 16 + HexVal(y) BY <1>2, <2>1, <2>6, <3>1 DEF Meant
    <3> QED BY <2>2, <2>3, <3>2
  <2>10. Plainly(w) = <<c>> BY <1>2, <1>4, <2>1, <2>8, <2>9
  <2> QED BY <2>5, <2>7, <2>10 DEF w
<1> QED BY <1>5, <1>6

\* Decoding goes piece by piece when no escape spans two pieces.
LEMMA PlainlyConcat ==
  ASSUME NEW s \in Seq(Byte), NEW t \in Seq(Byte), Closed(s), Closed(t)
  PROVE  Closed(s \o t) /\ Plainly(s \o t) = Plainly(s) \o Plainly(t)
<1> DEFINE b == s \o t
           p == Len(s)
           q == Len(t)
           v == [k \in DOMAIN s |-> Meant(s, k)]
           w == [k \in DOMAIN t |-> Meant(t, k)]
           z == [k \in DOMAIN b |-> Meant(b, k)]
<1>1. p \in Nat /\ DOMAIN s = 1 .. p /\ q \in Nat /\ DOMAIN t = 1 .. q BY SMT
<1>2. /\ b \in Seq(Byte) /\ Len(b) = p + q
      /\ \A k \in 1 .. p : b[k] = s[k]
      /\ \A k \in 1 .. q : b[p + k] = t[k]
  BY SMT
<1>3. DOMAIN b = 1 .. (p + q) BY SMT, <1>2
<1>4. /\ \A k \in Escapes(s) : k \in Nat /\ 1 <= k /\ k + 2 <= p
      /\ \A k \in Escapes(t) : k \in Nat /\ 1 <= k /\ k + 2 <= q
      /\ \A k \in Escapes(b) : k \in Nat /\ 1 <= k /\ k + 2 <= p + q
  BY <1>2, EscapesWithin
<1> HIDE DEF b, p, q, v, w, z
<1>5. ASSUME NEW k \in 1 .. p PROVE k \in Escapes(b) <=> k \in Escapes(s)
  <2>1. ASSUME k \in Escapes(b) PROVE k \in Escapes(s)
    <3>1. s[k] = PERCENT BY <1>2, <2>1, EscapesWithin
    <3> QED BY <1>1, <3>1 DEF Closed
  <2>2. ASSUME k \in Escapes(s) PROVE k \in Escapes(b)
    <3>1. /\ s[k] = PERCENT /\ s[k + 1] \in HexDigits /\ s[k + 2] \in HexDigits
      BY <2>2, EscapesWithin
    <3>2. k \in Nat /\ 1 <= k /\ k + 2 <= p BY <1>4, <2>2
    <3>3. k + 1 \in 1 .. p /\ k + 2 \in 1 .. p /\ k \in 1 .. ((p + q) - 2)
      BY SMT, <1>1, <3>2
    <3> QED BY <1>2, <3>1, <3>3 DEF Escapes
  <2> QED BY <2>1, <2>2
<1>6. ASSUME NEW k \in 1 .. q PROVE p + k \in Escapes(b) <=> k \in Escapes(t)
  <2>0. (p + k) + 1 = p + (k + 1) /\ (p + k) + 2 = p + (k + 2) BY SMT, <1>1
  <2>1. ASSUME p + k \in Escapes(b) PROVE k \in Escapes(t)
    <3>1. b[p + k] = PERCENT BY <1>2, <2>1, EscapesWithin
    <3>2. t[k] = PERCENT BY <1>2, <3>1
    <3> QED BY <1>1, <3>2 DEF Closed
  <2>2. ASSUME k \in Escapes(t) PROVE p + k \in Escapes(b)
    <3>1. t[k] = PERCENT /\ t[k + 1] \in HexDigits /\ t[k + 2] \in HexDigits
      BY <2>2, EscapesWithin
    <3>2. k \in Nat /\ 1 <= k /\ k + 2 <= q BY <1>4, <2>2
    <3>3. k + 1 \in 1 .. q /\ k + 2 \in 1 .. q /\ p + k \in 1 .. ((p + q) - 2)
      BY SMT, <1>1, <3>2
    <3>4. b[p + k] = t[k] /\ b[p + (k + 1)] = t[k + 1] /\ b[p + (k + 2)] = t[k + 2]
      BY <1>2, <3>3
    <3> QED BY <1>2, <2>0, <3>1, <3>3, <3>4 DEF Escapes
  <2> QED BY <2>1, <2>2
<1>7. \A k \in 1 .. (p + q) : k \in 1 .. p \/ (k - p \in 1 .. q /\ k = p + (k - p))
  BY SMT, <1>1
<1>8. Closed(b)
  <2> SUFFICES ASSUME NEW k \in 1 .. (p + q), b[k] = PERCENT PROVE k \in Escapes(b)
    BY <1>3 DEF Closed
  <2>1. CASE k \in 1 .. p BY <1>1, <1>2, <1>5, <2>1 DEF Closed
  <2>2. CASE k - p \in 1 .. q /\ k = p + (k - p)
    <3>1. t[k - p] = PERCENT BY <1>2, <2>2
    <3>2. k - p \in Escapes(t) BY <1>1, <2>2, <3>1 DEF Closed
    <3>3. p + (k - p) \in Escapes(b) BY <1>6, <2>2, <3>2
    <3> QED BY <2>2, <3>3
  <2> QED BY <1>7, <2>1, <2>2
\* Before a position, and before its piece.
<1>9. ASSUME NEW k \in 1 .. p, NEW d \in 1 .. 2
      PROVE  k - d \in Escapes(b) <=> k - d \in Escapes(s)
  <2>1. k - d \in 1 .. p \/ ~ (1 <= k - d) BY SMT, <1>1
  <2> QED BY <1>4, <1>5, <2>1
<1>10. ASSUME NEW k \in 1 .. q, NEW d \in 1 .. 2
       PROVE  (p + k) - d \in Escapes(b) <=> k - d \in Escapes(t)
  <2>1. CASE k - d \in 1 .. q
    <3>1. (p + k) - d = p + (k - d) BY SMT, <1>1
    <3> QED BY <1>6, <2>1, <3>1
  <2>2. CASE ~ (k - d \in 1 .. q)
    <3>1. ~ (1 <= k - d) /\ ~ ((p + k) - d + 2 <= p) BY SMT, <1>1, <2>2
    <3>2. (p + k) - d \in 1 .. p \/ ~ (1 <= (p + k) - d) BY SMT, <1>1, <2>2
    <3>3. k - d \notin Escapes(t) BY <1>4, <3>1
    <3>4. (p + k) - d \notin Escapes(s) BY <1>4, <3>1
    <3>5. (p + k) - d \notin Escapes(b) BY <1>4, <1>5, <3>2, <3>4
    <3> QED BY <3>3, <3>5
  <2> QED BY <2>1, <2>2
<1>11. 1 \in 1 .. 2 /\ 2 \in 1 .. 2
      /\ (\A k \in 1 .. p : k \in 1 .. (p + q)) /\ (\A k \in 1 .. q : p + k \in 1 .. (p + q))
  BY SMT, <1>1
<1>12. \A k \in 1 .. p : k \in Kept(b) <=> k \in Kept(s)
  BY <1>1, <1>3, <1>9, <1>11 DEF Kept
<1>13. \A k \in 1 .. q : p + k \in Kept(b) <=> k \in Kept(t)
  BY <1>1, <1>3, <1>10, <1>11 DEF Kept
<1>14. ASSUME NEW k \in 1 .. p PROVE z[k] = v[k]
  <2>1. z[k] = Meant(b, k) /\ v[k] = Meant(s, k) BY <1>1, <1>3, <1>11 DEF z, v
  <2>2. CASE k \in Escapes(s)
    <3>1. k \in Nat /\ 1 <= k /\ k + 2 <= p BY <1>4, <2>2
    <3>2. k + 1 \in 1 .. p /\ k + 2 \in 1 .. p BY SMT, <1>1, <3>1
    <3>3. b[k + 1] = s[k + 1] /\ b[k + 2] = s[k + 2] BY <1>2, <3>2
    <3> QED BY <1>5, <2>1, <2>2, <3>3 DEF Meant
  <2>3. CASE k \notin Escapes(s)
    <3>1. ByteAt(b, k) = ByteAt(s, k) BY <1>1, <1>2, <1>3, <1>11 DEF ByteAt
    <3> QED BY <1>5, <2>1, <2>3, <3>1 DEF Meant
  <2> QED BY <2>2, <2>3
<1>15. ASSUME NEW k \in 1 .. q PROVE z[p + k] = w[k]
  <2>1. z[p + k] = Meant(b, p + k) /\ w[k] = Meant(t, k) BY <1>1, <1>3, <1>11 DEF z, w
  <2>2. CASE k \in Escapes(t)
    <3>1. k \in Nat /\ 1 <= k /\ k + 2 <= q BY <1>4, <2>2
    <3>2. /\ k + 1 \in 1 .. q /\ k + 2 \in 1 .. q
          /\ (p + k) + 1 = p + (k + 1) /\ (p + k) + 2 = p + (k + 2)
      BY SMT, <1>1, <3>1
    <3>3. b[p + (k + 1)] = t[k + 1] /\ b[p + (k + 2)] = t[k + 2] BY <1>2, <3>2
    <3> QED BY <1>6, <2>1, <2>2, <3>2, <3>3 DEF Meant
  <2>3. CASE k \notin Escapes(t)
    <3>1. ByteAt(b, p + k) = ByteAt(t, k) BY <1>1, <1>2, <1>3, <1>11 DEF ByteAt
    <3> QED BY <1>6, <2>1, <2>3, <3>1 DEF Meant
  <2> QED BY <2>2, <2>3
<1>16. /\ v \in [1 .. p -> Byte] /\ w \in [1 .. q -> Byte] /\ z \in [1 .. (p + q) -> Byte]
  <2>1. v \in [1 .. p -> Byte] BY <1>1, MeantTyped DEF v
  <2>2. w \in [1 .. q -> Byte] BY <1>1, MeantTyped DEF w
  <2>3. z \in [1 .. (p + q) -> Byte] BY <1>2, <1>3, MeantTyped DEF z
  <2> QED BY <2>1, <2>2, <2>3
<1>17. Kept(s) \in SUBSET (1 .. p) /\ Kept(t) \in SUBSET (1 .. q) /\ Kept(b) \in SUBSET (1 .. (p + q))
  BY <1>1, <1>3 DEF Kept
<1>18. Spliced(p, v, Kept(s), q, w, Kept(t), z, Kept(b), Byte)
  BY <1>12, <1>13, <1>14, <1>15, <1>16, <1>17 DEF Spliced
<1>19. Picked(z, Kept(b)) = Picked(v, Kept(s)) \o Picked(w, Kept(t))
  BY <1>1, <1>18, PickedConcat
<1> QED BY <1>8, <1>19 DEF Plainly, b, v, w, z

Encodes(s, n, f) ==
  f = [k \in 0 .. n |-> IF k = 0 THEN <<>> ELSE f[k - 1] \o EscapeOf(s[k])]

\* The function UrlEncodePath is defined by exists, one more entry at a time.
LEMMA EncodesExists ==
  ASSUME NEW s, NEW n \in Nat
  PROVE  \E f : Encodes(s, n, f)
<1> DEFINE Bad == {m \in Nat : ~ \E f : Encodes(s, m, f)}
<1> SUFFICES ASSUME Bad # {} PROVE FALSE
  OBVIOUS
<1>1. PICK m \in Bad : \A k \in Bad : m <= k
  <2>1. Bad \subseteq Nat OBVIOUS
  <2> HIDE DEF Bad
  <2> QED BY <2>1, LeastNat
<1>2. CASE m = 0
  <2> DEFINE f == [k \in 0 .. 0 |-> <<>>]
  <2>1. \A k \in 0 .. 0 : k = 0 BY SMT
  <2>2. Encodes(s, 0, f) BY <2>1 DEF Encodes
  <2> QED BY <1>1, <1>2, <2>2
<1>3. CASE m # 0
  <2>1. m \in Nat /\ m - 1 \in Nat /\ ~ (m <= m - 1) BY SMT, <1>3
  <2>2. PICK g : Encodes(s, m - 1, g) BY <1>1, <2>1
  <2> DEFINE Step(h, k) == IF k = 0 THEN <<>> ELSE h[k - 1] \o EscapeOf(s[k])
             f == [k \in 0 .. m |-> Step(g, k)]
  <2>3. \A k \in 0 .. (m - 1) : k \in 0 .. m /\ g[k] = Step(g, k)
    <3>1. g = [k \in 0 .. (m - 1) |-> Step(g, k)] BY Zenon, <2>2 DEF Encodes
    <3> HIDE DEF Step
    <3>2. \A k \in 0 .. (m - 1) : g[k] = Step(g, k) BY Zenon, <3>1
    <3>3. \A k \in 0 .. (m - 1) : k \in 0 .. m BY SMT, <2>1
    <3> QED BY <3>2, <3>3
  <2>4. \A k \in 0 .. m : k # 0 => k - 1 \in 0 .. (m - 1) BY SMT, <2>1
  <2>5. \A k \in 0 .. (m - 1) : f[k] = g[k] BY <2>3
  <2>6. \A k \in 0 .. m : Step(g, k) = Step(f, k) BY <2>4, <2>5
  <2>7. f = [k \in 0 .. m |-> Step(f, k)] BY <2>6
  <2>8. Encodes(s, m, f) BY <2>7 DEF Encodes
  <2> QED BY <1>1, <2>8
<1> QED BY <1>2, <1>3

LEMMA PrefixIs ==
  ASSUME NEW T, NEW r \in Seq(T), NEW j \in 1 .. Len(r)
  PROVE  /\ SubSeq(r, 1, j) \in Seq(T) /\ Len(SubSeq(r, 1, j)) = j
         /\ \A k \in 1 .. j : SubSeq(r, 1, j)[k] = r[k]
         /\ SubSeq(r, 1, j - 1) \in Seq(T) /\ Len(SubSeq(r, 1, j - 1)) = j - 1
         /\ \A k \in 1 .. (j - 1) : SubSeq(r, 1, j - 1)[k] = r[k]
<1>0. Len(r) \in Nat /\ j \in Nat /\ j - 1 \in Nat BY SMT
<1>1. SubSeq(r, 1, j) \in Seq(T) /\ Len(SubSeq(r, 1, j)) = j BY SMT, <1>0
<1>2. \A k \in 1 .. j : SubSeq(r, 1, j)[k] = r[k] BY SMT, <1>0
<1>3. SubSeq(r, 1, j - 1) \in Seq(T) /\ Len(SubSeq(r, 1, j - 1)) = j - 1 BY SMT, <1>0
<1>4. \A k \in 1 .. (j - 1) : SubSeq(r, 1, j - 1)[k] = r[k] BY SMT, <1>0
<1> QED BY <1>1, <1>2, <1>3, <1>4

LEMMA PrefixGrows ==
  ASSUME NEW T, NEW r \in Seq(T), NEW j \in 1 .. Len(r)
  PROVE  SubSeq(r, 1, j - 1) \o <<r[j]>> = SubSeq(r, 1, j)
<1> DEFINE a == SubSeq(r, 1, j - 1)
           b == <<r[j]>>
           d == SubSeq(r, 1, j)
<1>0. Len(r) \in Nat /\ r[j] \in T BY SMT
<1>1. /\ a \in Seq(T) /\ Len(a) = j - 1 /\ \A k \in 1 .. (j - 1) : a[k] = r[k]
      /\ d \in Seq(T) /\ Len(d) = j /\ \A k \in 1 .. j : d[k] = r[k]
  BY PrefixIs
<1>2. b \in Seq(T) /\ Len(b) = 1 /\ b[1] = r[j] BY SMT, <1>0
<1> HIDE DEF a, b, d
<1>3. /\ a \o b \in Seq(T) /\ Len(a \o b) = (j - 1) + 1
      /\ \A k \in 1 .. (j - 1) : (a \o b)[k] = a[k]
      /\ \A k \in 1 .. 1 : (a \o b)[(j - 1) + k] = b[k]
  <2>1. /\ a \o b \in Seq(T) /\ Len(a \o b) = Len(a) + Len(b)
        /\ \A k \in 1 .. Len(a) : (a \o b)[k] = a[k]
        /\ \A k \in 1 .. Len(b) : (a \o b)[Len(a) + k] = b[k]
    <3>1. a \in Seq(T) /\ b \in Seq(T) BY <1>1, <1>2
    <3> QED BY <3>1, Joins
  <2>2. Len(a) = j - 1 /\ Len(b) = 1 BY <1>1, <1>2
  <2> QED BY <2>1, <2>2
<1>4. (j - 1) + 1 = j /\ 1 \in 1 .. 1 /\ \A k \in 1 .. j : k \in 1 .. (j - 1) \/ k = j BY SMT
<1>5. \A k \in 1 .. j : (a \o b)[k] = d[k]
  <2>1. (a \o b)[j] = d[j]
    <3>1. (a \o b)[j] = b[1] BY <1>3, <1>4
    <3>2. j \in 1 .. j BY SMT
    <3> QED BY <1>1, <1>2, <3>1, <3>2
  <2>2. \A k \in 1 .. (j - 1) : (a \o b)[k] = d[k]
    <3>1. \A k \in 1 .. (j - 1) : k \in 1 .. j BY SMT
    <3> QED BY <1>1, <1>3, <3>1
  <2> QED BY <1>4, <2>1, <2>2
<1>6. a \o b = d BY <1>1, <1>3, <1>4, <1>5, SameSequence
<1> QED BY <1>6 DEF a, b, d

LEMMA EncodedText ==
  ASSUME NEW s \in Seq(Char)
  PROVE  /\ UrlEncodePath(s) \in Seq(Char) /\ Without(UrlEncodePath(s), {63, 35})
         /\ Plainly(UrlEncodePath(s)) = s
<1> DEFINE n == Len(s)
           f == CHOOSE g : Encodes(s, n, g)
<1>1. n \in Nat /\ \A k \in 1 .. n : s[k] \in Char BY CharTyped
<1>2. Encodes(s, n, f) BY <1>1, EncodesExists
<1>3. UrlEncodePath(s) = f[n] BY DEF UrlEncodePath, Encodes, EscapeOf
<1> HIDE DEF f, n
<1> DEFINE Good(k) == /\ f[k] \in Seq(Char) /\ Without(f[k], {63, 35})
                      /\ Closed(f[k]) /\ Plainly(f[k]) = SubSeq(s, 1, k)
           Bad == {k \in 0 .. n : ~ Good(k)}
<1>4. Bad = {}
  <2> SUFFICES ASSUME Bad # {} PROVE FALSE
    OBVIOUS
  <2>1. PICK k \in Bad : \A j \in Bad : k <= j
    <3>1. Bad \subseteq Nat BY SMT, <1>1
    <3> HIDE DEF Bad
    <3> QED BY <3>1, LeastNat
  <2>2. k \in 0 .. n /\ ~ Good(k) BY <2>1
  <2>3. CASE k = 0
    <3>1. f[0] = <<>> BY <1>2, <2>2, <2>3 DEF Encodes
    <3>2. <<>> \in Seq(Char) /\ DOMAIN <<>> = {} /\ SubSeq(s, 1, 0) = <<>> BY SMT
    <3>3. Without(<<>>, {63, 35}) /\ Closed(<<>>) BY <3>2 DEF Without, Closed
    <3>4. Plainly(<<>>) = <<>>
      <4>1. Kept(<<>>) = {} BY <3>2 DEF Kept
      <4>2. Cardinality({}) = 0 BY FS_EmptySet
      <4> DEFINE v == [j \in DOMAIN <<>> |-> Meant(<<>>, j)]
      <4>3. Plainly(<<>>) = Picked(v, {}) BY <4>1 DEF Plainly
      <4> HIDE DEF v
      <4>4. 0 \in Nat /\ {} \in SUBSET (1 .. 0) /\ \A x \in {} : v[x] \in Byte BY SMT
      <4>5. Picked(v, {}) \in Seq(Byte) /\ Len(Picked(v, {})) = 0 BY <4>2, <4>4, PickedTyped
      <4>6. Picked(v, {}) = <<>> BY SMT, <4>5
      <4> QED BY <4>3, <4>6
    <3> QED BY <2>2, <2>3, <3>1, <3>2, <3>3, <3>4
  <2>4. CASE k # 0
    <3>1. k \in 1 .. n /\ k - 1 \in 0 .. n /\ ~ (k <= k - 1) BY SMT, <1>1, <2>2, <2>4
    <3>2. Good(k - 1) BY <2>1, <3>1
    <3> DEFINE t == f[k - 1]
               c == s[k]
               w == EscapeOf(c)
    <3>3. f[k] = t \o w BY <1>2, <2>2, <2>4 DEF Encodes
    <3>4. c \in Char BY <1>1, <3>1
    <3>5. /\ t \in Seq(Char) /\ Without(t, {63, 35}) /\ Closed(t)
          /\ Plainly(t) = SubSeq(s, 1, k - 1)
      BY <3>2
    <3> HIDE DEF t, c, Good
    <3>6. /\ w \in Seq(Char) /\ Without(w, {63, 35}) /\ Closed(w) /\ Plainly(w) = <<c>>
      BY <3>4, EscapedByte
    <3> HIDE DEF w
    <3>7. t \in Seq(Byte) /\ w \in Seq(Byte) BY <3>5, <3>6, CharTyped
    <3>8. Closed(t \o w) /\ Plainly(t \o w) = SubSeq(s, 1, k - 1) \o <<c>>
      BY <3>5, <3>6, <3>7, PlainlyConcat
    <3>9. t \o w \in Seq(Char) /\ Without(t \o w, {63, 35})
      BY <3>5, <3>6, WithoutConcat, Joins
    <3>10. SubSeq(s, 1, k - 1) \o <<c>> = SubSeq(s, 1, k)
      <4>1. k \in 1 .. Len(s) BY <3>1 DEF n
      <4> QED BY <4>1, PrefixGrows DEF c
    <3> QED BY <2>2, <3>3, <3>8, <3>9, <3>10 DEF Good
  <2> QED BY <2>3, <2>4
<1>5. Good(n)
  <2>1. n \in 0 .. n BY SMT, <1>1
  <2> HIDE DEF Good
  <2> QED BY <1>4, <2>1
<1>6. SubSeq(s, 1, n) = s BY SMT DEF n
<1> QED BY <1>3, <1>5, <1>6

\* The link of a file leads back to it, whatever bytes its name has.
LEMMA RoundTrip ==
  ASSUME NEW s \in Seq(Char)
  PROVE  PercentDecode(PathOf(UrlEncodePath(s))) = s
<1> DEFINE e == UrlEncodePath(s)
<1>1. e \in Seq(Char) /\ Without(e, {63, 35}) /\ Plainly(e) = s BY EncodedText
<1> HIDE DEF e
<1>2. PathOf(e) = e BY <1>1, UpToExact DEF PathOf, Without
<1>3. PercentDecode(e) = UpTo(s, {0}) BY <1>1, CharTyped, DecodedTyped
<1>4. Without(s, {0}) BY CharTyped, CharsAre
<1>5. UpTo(s, {0}) = s BY <1>4, UpToExact DEF Without
<1> QED BY <1>2, <1>3, <1>5 DEF e

---------------------------------------------------------------------------
(* Names on their way *)

\* Where a text is before it is a name.
Sources == {"url", "title", "item", "link"}
Separators == {0, SLASH, BACKSLASH}
Climbers == {DOT, DASH}

\* Native code never holds a NUL in a text, and no text has crossed before it
\* is a name.
NulFree ==
  /\ at \notin {"java", "dup"} => text \in Seq(Char)
  /\ at \in Sources => returned = {}

\* A link is the link of its file, and asks for it.
LinkInv ==
  /\ at = "link" => of[1] = "link" /\ of[2] \in Seq(Char) /\ text = UrlEncodePath(of[2])
  /\ LinkFindsFile

\* A name is confined in either form, and what a function has written of it is
\* the beginning of a confined one.
NameInv ==
  of[1] = "name" =>
    /\ at \notin Sources
    /\ Without(text, Separators) /\ Begins(text, Climbers)
    /\ at = "dup" => /\ Without(out, Separators)
                     /\ i > 0 => Begins(out, Climbers)
    /\ at = "new" => /\ Without(NewStringUTF(out), Separators)
                     /\ i > 0 => Begins(NewStringUTF(out), Climbers)

NamesInv == BridgeInv /\ NulFree /\ LinkInv /\ NameInv

LEMMA Ascii7 ==
  /\ Separators \in SUBSET Ascii /\ Climbers \in SUBSET Ascii
  /\ \A s : Confined(s) /\ s \in Seq(Char) => Without(s, Separators) /\ Begins(s, Climbers)
  /\ \A s : Without(s, Separators) /\ Begins(s, Climbers) => Confined(s)
<1>1. Separators \in SUBSET Ascii /\ Climbers \in SUBSET Ascii
  BY SMT DEF Separators, Climbers, Ascii, SLASH, BACKSLASH, DOT, DASH
<1>2. ASSUME NEW s, Confined(s), s \in Seq(Char)
      PROVE  Without(s, Separators) /\ Begins(s, Climbers)
  <2>1. \A k \in DOMAIN s : s[k] # 0 BY <1>2, CharTyped
  <2> QED BY <1>2, <2>1 DEF Confined, Without, Begins, Separators, Climbers
<1>3. ASSUME NEW s, Without(s, Separators), Begins(s, Climbers) PROVE Confined(s)
  BY <1>3 DEF Confined, Without, Begins, Separators, Climbers
<1> QED BY <1>1, <1>2, <1>3

LEMMA InputsTyped ==
  /\ \A url \in Urls : url \in Seq(Char)
  /\ \A title \in Titles : title \in Seq(Char)
  /\ \A item \in Items : item \in Seq(Char)
  /\ \A ext \in Exts \cup {<<98, 105, 110>>} : ext \in Seq(Char)
  /\ \A s \in NativeTexts : s \in Seq(Char)
BY NamesAssumption, TextAssumption, NamesTyped

LEMMA EmptyWithout == \A S : Without(<<>>, S)
<1>1. DOMAIN <<>> = {} BY SMT
<1> QED BY <1>1 DEF Without

LEMMA NamesStart == NamesInit => NamesInv
<1> SUFFICES ASSUME NamesInit PROVE NamesInv
  OBVIOUS
<1>1. CASE TextInit /\ of = <<"text", <<>>>>
  <2>1. BridgeInv BY <1>1, TextStarts
  <2>2. of[1] = "text" BY <1>1
  <2>3. (at = "java" \/ (at = "native" /\ text \in NativeTexts)) /\ returned = {}
    BY <1>1 DEF TextInit
  <2> QED BY <2>1, <2>2, <2>3, InputsTyped
    DEF NamesInv, NulFree, LinkInv, NameInv, LinkFindsFile, Sources
<1>2. CASE /\ \/ at = "url" /\ text \in Urls
              \/ at = "title" /\ text \in Titles
              \/ at = "item" /\ text \in Items
           /\ of = <<IF at = "item" THEN "file" ELSE "text", <<>>>>
           /\ i = 0 /\ out = <<>> /\ returned = {}
  <2>1. at \in {"url", "title", "item"} /\ text \in Seq(Char) BY <1>2, InputsTyped
  <2>2. of[1] \in {"file", "text"} BY <1>2
  <2>3. text \in Seq(Byte) /\ Len(text) \in Nat BY <2>1, CharTyped
  <2>4. BridgeInv
    BY SMT, <1>2, <2>1, <2>3, NothingWritten DEF BridgeInv, Carried, Walked
  <2> QED BY <1>2, <2>1, <2>2, <2>4
    DEF NamesInv, NulFree, LinkInv, NameInv, LinkFindsFile
<1> QED BY <1>1, <1>2 DEF NamesInit

\* A step between the sources, and the one that makes a name.
LEMMA Sourced ==
  ASSUME NamesInv, at \in Sources, text' \in Seq(Char), at' \notin {"java", "dup", "new"},
         UNCHANGED <<i, out, returned>>
  PROVE  BridgeInv' /\ NulFree'
<1>1. text' \in Seq(Byte) /\ Len(text') \in Nat BY CharTyped
<1>2. i = 0 /\ out = <<>> /\ returned = {} BY DEF NamesInv, BridgeInv, Walked, NulFree, Sources
<1>3. BridgeInv' BY SMT, <1>1, <1>2, NothingWritten DEF BridgeInv, Carried, Walked
<1> QED BY <1>2, <1>3 DEF NulFree

LEMMA NamedKeeps ==
  ASSUME NamesInv, at \in Sources, NEW name \in Seq(Char), Confined(name), Named(name)
  PROVE  NamesInv'
<1>1. /\ at' = "native" /\ text' = name /\ of' = <<"name", <<>>>>
      /\ UNCHANGED <<i, out, returned>>
  BY DEF Named
<1>2. BridgeInv' /\ NulFree' BY <1>1, Sourced
<1>3. LinkInv' BY <1>1 DEF LinkInv, LinkFindsFile
<1>4. NameInv'
  <2>1. Without(text', Separators) /\ Begins(text', Climbers) BY <1>1, Ascii7
  <2> QED BY <1>1, <2>1 DEF NameInv, Sources
<1> QED BY <1>2, <1>3, <1>4 DEF NamesInv

LEMMA LinkedKeeps ==
  ASSUME NamesInv, LinkFromItem \/ FileAsked
  PROVE  NamesInv'
<1>1. CASE LinkFromItem
  <2>1. /\ at = "item" /\ of[1] = "file" /\ at' = "link"
        /\ text' = UrlEncodePath(text) /\ of' = <<"link", text>>
        /\ UNCHANGED <<i, out, returned>>
    BY <1>1 DEF LinkFromItem
  <2>2. text \in Seq(Char) BY <2>1 DEF NamesInv, NulFree
  <2>3. text' \in Seq(Char) BY <2>1, <2>2, EncodedText
  <2>4. BridgeInv' /\ NulFree' BY <2>1, <2>3, Sourced DEF Sources
  <2>5. of'[1] = "link" /\ of'[2] = text BY <2>1
  <2>6. LinkInv' BY <2>1, <2>2, <2>5 DEF LinkInv, LinkFindsFile
  <2>7. NameInv' BY <2>5 DEF NameInv
  <2> QED BY <2>4, <2>6, <2>7 DEF NamesInv
<1>2. CASE FileAsked
  <2>1. /\ at = "link" /\ at' = "item" /\ text' = PercentDecode(PathOf(text))
        /\ UNCHANGED <<of, i, out, returned>>
    BY <1>2 DEF FileAsked
  <2>2. of[1] = "link" /\ of[2] \in Seq(Char) /\ text = UrlEncodePath(of[2])
    BY <2>1 DEF NamesInv, LinkInv
  <2>3. text' = of[2] BY <2>1, <2>2, RoundTrip
  <2>4. BridgeInv' /\ NulFree' BY <2>1, <2>2, <2>3, Sourced DEF Sources
  <2>5. LinkInv' BY <2>1, <2>3 DEF LinkInv, LinkFindsFile
  <2>6. NameInv' BY <2>1, <2>2 DEF NameInv
  <2> QED BY <2>4, <2>5, <2>6 DEF NamesInv
<1> QED BY <1>1, <1>2

LEMMA CrossingNulFree ==
  ASSUME BridgeInv, NulFree, TextNext
  PROVE  NulFree' /\ at \notin Sources /\ at' \notin Sources
<1> USE DEF NulFree, Sources
<1>1. CASE Dup BY <1>1 DEF Dup
<1>2. CASE DupUnit BY <1>2 DEF DupUnit
<1>3. CASE DupEnds
  <2>1. at = "dup" /\ at' = "native" /\ text' = UpTo(out, {0}) BY <1>3 DEF DupEnds, CString
  <2>2. out \in Seq(Byte) BY DEF BridgeInv, Walked
  <2>3. text' \in Seq(Char) BY <2>1, <2>2, UpToExact DEF Char
  <2> QED BY <2>1, <2>3
<1>4. CASE DupFails BY <1>4 DEF DupFails
<1>5. CASE New BY <1>5 DEF New
<1>6. CASE NewByte BY <1>6 DEF NewByte
<1>7. CASE NewEnds BY <1>7 DEF NewEnds
<1>8. CASE NewFails BY <1>8 DEF NewFails
<1> QED BY <1>1, <1>2, <1>3, <1>4, <1>5, <1>6, <1>7, <1>8 DEF TextNext

\* What is written when all is read is the text in its other form.
LEMMA CrossingKeepsName ==
  ASSUME BridgeInv, NulFree, NameInv, TextNext, of' = of, of[1] = "name"
  PROVE  NameInv'
<1>1. /\ at \notin Sources /\ Without(text, Separators) /\ Begins(text, Climbers)
      /\ at = "dup" => /\ Without(out, Separators)
                       /\ i > 0 => Begins(out, Climbers)
      /\ at = "new" => /\ Without(NewStringUTF(out), Separators)
                       /\ i > 0 => Begins(NewStringUTF(out), Climbers)
  BY DEF NameInv
<1>2. at' \notin Sources BY CrossingNulFree
<1>3. at \notin {"dup", "new"} => i = 0 /\ out = <<>> BY DEF BridgeInv, Walked
<1>4. out \in Seq(Byte) BY DEF BridgeInv, Walked
<1>5. ~ (0 > 0) BY SMT
<1>6. ASSUME i = Len(text) PROVE i > 0
  <2>1. text \in Seq(Unit) \/ text \in Seq(Byte) BY DEF BridgeInv, Carried
  <2>2. text # <<>> BY <1>1 DEF Begins
  <2> QED BY SMT, <1>6, <2>1, <2>2
<1>7. Without(<<>>, Separators) /\ Without(NewStringUTF(<<>>), Separators)
  BY EmptyWithout, EmptyString
<1> USE DEF NameInv
<1>11. CASE Dup BY <1>1, <1>2, <1>3, <1>5, <1>7, <1>11 DEF Dup
<1>12. CASE DupUnit
  <2>1. at = "dup" /\ at' = "dup" /\ text' = text BY <1>12 DEF DupUnit
  <2>2. Without(out', Separators) BY <1>1, <1>12, <2>1, Ascii7, WritesWithout
  <2>3. Begins(out', Climbers) BY <1>1, <1>12, <2>1, Ascii7, WritesWithout
  <2> QED BY <1>1, <1>2, <2>1, <2>2, <2>3
<1>13. CASE DupEnds
  <2>1. at = "dup" /\ at' = "native" /\ text' = UpTo(out, {0}) /\ i = Len(text)
    BY <1>13 DEF DupEnds, CString
  <2>2. Without(out, Separators) /\ Begins(out, Climbers) BY <1>1, <1>6, <2>1
  <2>3. \A k \in DOMAIN out : out[k] \notin {0} BY <2>2 DEF Without, Separators
  <2>4. UpTo(out, {0}) = out BY <1>4, <2>3, UpToExact
  <2> QED BY <1>2, <2>1, <2>2, <2>4
<1>14. CASE DupFails BY <1>1, <1>2, <1>14 DEF DupFails
<1>15. CASE New BY <1>1, <1>2, <1>3, <1>5, <1>7, <1>15 DEF New
<1>16. CASE NewByte
  <2>1. at = "new" /\ at' = "new" /\ text' = text BY <1>16 DEF NewByte
  <2>2. Without(NewStringUTF(out'), Separators) BY <1>1, <1>16, <2>1, Ascii7, WritesWithout
  <2>3. Begins(NewStringUTF(out'), Climbers) BY <1>1, <1>16, <2>1, Ascii7, WritesWithout
  <2> QED BY <1>1, <1>2, <2>1, <2>2, <2>3
<1>17. CASE NewEnds
  <2>1. at = "new" /\ at' = "java" /\ text' = NewStringUTF(out) /\ i = Len(text)
    BY <1>17 DEF NewEnds
  <2> QED BY <1>1, <1>2, <1>6, <2>1
<1>18. CASE NewFails BY <1>1, <1>2, <1>18 DEF NewFails
<1> QED BY <1>11, <1>12, <1>13, <1>14, <1>15, <1>16, <1>17, <1>18 DEF TextNext

LEMMA NamesStep == NamesInv /\ [NamesNext]_nameVars => NamesInv'
<1> SUFFICES ASSUME NamesInv, [NamesNext]_nameVars PROVE NamesInv'
  OBVIOUS
<1>1. CASE NameFromUrl
  <2>1. at = "url" /\ Named(FilenameFromUrl(text)) BY <1>1 DEF NameFromUrl
  <2>2. text \in Seq(Char) BY <2>1 DEF NamesInv, NulFree
  <2> QED BY <2>1, <2>2, NamesMade, NamedKeeps DEF Sources
<1>2. CASE NameFromInfo
  <2>1. at = "title" BY <1>2 DEF NameFromInfo
  <2>2. text \in Seq(Char) BY <2>1 DEF NamesInv, NulFree
  <2>3. CASE \E ext \in Exts \cup {<<98, 105, 110>>} :
               Named(SanitizeFilename(text) \o <<DOT>> \o SanitizeFilename(ext))
    <3>1. PICK ext \in Exts \cup {<<98, 105, 110>>} :
                 Named(SanitizeFilename(text) \o <<DOT>> \o SanitizeFilename(ext))
      BY <2>3
    <3>2. ext \in Seq(Char) BY InputsTyped
    <3> QED BY <2>1, <2>2, <3>1, <3>2, NamesMade, NamedKeeps DEF Sources
  <2>4. CASE \E url \in Urls : Named(FilenameFromUrl(url))
    BY <2>1, <2>4, InputsTyped, NamesMade, NamedKeeps DEF Sources
  <2> QED BY <1>2, <2>3, <2>4 DEF NameFromInfo
<1>3. CASE NameFromItem
  <2>1. at = "item" /\ Named(BasenameOf(text)) BY <1>3 DEF NameFromItem
  <2>2. text \in Seq(Char) BY <2>1 DEF NamesInv, NulFree
  <2> QED BY <2>1, <2>2, NamesMade, NamedKeeps DEF Sources
<1>4. CASE LinkFromItem \/ FileAsked BY <1>4, LinkedKeeps
<1>5. CASE TextNext /\ UNCHANGED of
  <2>1. BridgeInv /\ NulFree /\ NameInv BY DEF NamesInv
  <2>2. BridgeInv' BY <1>5, <2>1, TextStep
  <2>3. NulFree' /\ at' \notin Sources BY <1>5, <2>1, CrossingNulFree
  <2>4. LinkInv' BY <2>3 DEF LinkInv, LinkFindsFile, Sources
  <2>5. NameInv'
    <3>1. CASE of[1] = "name" BY <1>5, <2>1, <3>1, CrossingKeepsName
    <3>2. CASE of[1] # "name" BY <1>5, <3>2 DEF NameInv
    <3> QED BY <3>1, <3>2
  <2> QED BY <2>2, <2>3, <2>4, <2>5 DEF NamesInv
<1>6. CASE UNCHANGED nameVars
  BY <1>6 DEF nameVars, textVars, NamesInv, BridgeInv, Carried, Walked, NulFree, LinkInv,
              LinkFindsFile, NameInv
<1> QED BY <1>1, <1>2, <1>3, <1>4, <1>5, <1>6 DEF NamesNext

\* However a name was made (util.c:188-191, ytdlp.c:48-50) and however often it
\* crosses, it stays one component of a path below the download directory
\* (QueueScheduler.kt:707-712).
THEOREM NamesConfined == NamesSpec => []NameConfined
<1>1. NamesInv => NameConfined BY Ascii7 DEF NamesInv, NameInv, NameConfined
<1> QED BY <1>1, NamesStart, NamesStep, PTL DEF NamesSpec

\* Whatever its name, the link of a file of an item, added again, asks for that
\* file (archiveorg.c:181-183).
THEOREM LinksLead == NamesSpec => []LinkFindsFile
<1>1. NamesInv => LinkFindsFile BY DEF NamesInv, LinkInv
<1> QED BY <1>1, NamesStart, NamesStep, PTL DEF NamesSpec

\* The names of files, too, cross without overrunning a buffer and without
\* giving NewStringUTF what aborts the VM (jni_common.h:60-62, 104-110, 121-124).
THEOREM NamesTaken == NamesSpec => []VmTakesIt
<1>1. NamesInv => VmTakesIt BY BridgeSafe DEF NamesInv
<1> QED BY <1>1, NamesStart, NamesStep, PTL DEF NamesSpec

---------------------------------------------------------------------------
(* One string, however often it crosses *)

\* No NUL, and each half of a pair beside the other.
Clean(u) ==
  \A k \in DOMAIN u :
    /\ u[k] # 0
    /\ u[k] \in High => k < Len(u) /\ u[k + 1] \in Low
    /\ u[k] \in Low => k > 1 /\ u[k - 1] \in High

\* After j units no pair is open.
Aligned(u, j) == j = 0 \/ u[j] \notin High

LEMMA CleanGrows ==
  ASSUME NEW u \in Seq(Unit), Clean(u), NEW cp \in Point, cp \notin High \cup Low, cp # 0
  PROVE  Clean(u \o Halves(cp))
<1> DEFINE t == Halves(cp)
           b == u \o t
<1>1. t \in Seq(Unit) BY HalvesTyped
<1>2. Clean(t)
  <2>1. CASE t = <<cp>>
    <3>1. DOMAIN <<cp>> = {1} /\ <<cp>>[1] = cp BY SMT
    <3> QED BY <2>1, <3>1 DEF Clean
  <2>2. CASE \E h \in High, l \in Low : t = <<h, l>>
    <3>1. PICK h \in High, l \in Low : t = <<h, l>> BY <2>2
    <3> HIDE DEF t
    <3>2. DOMAIN t = {1, 2} /\ Len(t) = 2 /\ t[1] = h /\ t[2] = l BY SMT, <3>1
    <3>3. h # 0 /\ l # 0 /\ h \notin Low /\ l \notin High
      <4>1. ~ (0 >= 128) BY SMT
      <4> QED BY <4>1, SurrogatesHigh
    <3>4. 1 < 2 /\ 1 + 1 = 2 /\ 2 > 1 /\ 2 - 1 = 1 BY SMT
    <3> QED BY <3>2, <3>3, <3>4 DEF Clean
  <2> QED BY <2>1, <2>2, HalvesTyped
<1> HIDE DEF t
<1>3. /\ Len(u) \in Nat /\ DOMAIN u = 1 .. Len(u)
      /\ Len(t) \in Nat /\ DOMAIN t = 1 .. Len(t)
  BY SMT, <1>1
<1>4. /\ b \in Seq(Unit) /\ Len(b) = Len(u) + Len(t)
      /\ \A k \in 1 .. Len(u) : b[k] = u[k]
      /\ \A k \in 1 .. Len(t) : b[Len(u) + k] = t[k]
  BY <1>1, Joins
<1> HIDE DEF b
<1>5. DOMAIN b = 1 .. (Len(u) + Len(t)) BY SMT, <1>4
<1>6. \A k \in 1 .. (Len(u) + Len(t)) :
        k \in 1 .. Len(u) \/ (k - Len(u) \in 1 .. Len(t) /\ k = Len(u) + (k - Len(u)))
  BY SMT, <1>3
<1> SUFFICES Clean(b)
  BY DEF b, t
<1> SUFFICES ASSUME NEW k \in 1 .. (Len(u) + Len(t))
             PROVE  /\ b[k] # 0
                    /\ b[k] \in High => k < Len(b) /\ b[k + 1] \in Low
                    /\ b[k] \in Low => k > 1 /\ b[k - 1] \in High
  BY <1>5 DEF Clean
<1>7. CASE k \in 1 .. Len(u)
  <2>1. b[k] = u[k] /\ u[k] # 0 BY <1>3, <1>4, <1>7 DEF Clean
  <2>2. ASSUME u[k] \in High PROVE k < Len(b) /\ b[k + 1] \in Low
    <3>1. k < Len(u) /\ u[k + 1] \in Low BY <1>3, <1>7, <2>2 DEF Clean
    <3>2. k + 1 \in 1 .. Len(u) /\ k < Len(u) + Len(t) BY SMT, <1>3, <1>7, <3>1
    <3> QED BY <1>4, <3>1, <3>2
  <2>3. ASSUME u[k] \in Low PROVE k > 1 /\ b[k - 1] \in High
    <3>1. k > 1 /\ u[k - 1] \in High BY <1>3, <1>7, <2>3 DEF Clean
    <3>2. k - 1 \in 1 .. Len(u) BY SMT, <1>3, <1>7, <3>1
    <3> QED BY <1>4, <3>1, <3>2
  <2> QED BY <2>1, <2>2, <2>3
<1>8. CASE k - Len(u) \in 1 .. Len(t) /\ k = Len(u) + (k - Len(u))
  <2> DEFINE m == k - Len(u)
  <2>0. m \in 1 .. Len(t) /\ k = Len(u) + m BY <1>8
  <2> HIDE DEF m
  <2>1. b[k] = t[m] /\ t[m] # 0 BY <1>2, <1>3, <1>4, <2>0 DEF Clean
  <2>2. ASSUME t[m] \in High PROVE k < Len(b) /\ b[k + 1] \in Low
    <3>1. m < Len(t) /\ t[m + 1] \in Low BY <1>2, <1>3, <2>0, <2>2 DEF Clean
    <3>2. m + 1 \in 1 .. Len(t) /\ k + 1 = Len(u) + (m + 1) /\ k < Len(u) + Len(t)
      BY SMT, <1>3, <2>0, <3>1
    <3> QED BY <1>4, <3>1, <3>2
  <2>3. ASSUME t[m] \in Low PROVE k > 1 /\ b[k - 1] \in High
    <3>1. m > 1 /\ t[m - 1] \in High BY <1>2, <1>3, <2>0, <2>3 DEF Clean
    <3>2. m - 1 \in 1 .. Len(t) /\ k - 1 = Len(u) + (m - 1) /\ k > 1
      BY SMT, <1>3, <2>0, <3>1
    <3> QED BY <1>4, <3>1, <3>2
  <2> QED BY <2>1, <2>2, <2>3
<1> QED BY <1>6, <1>7, <1>8

LEMMA PairJoins ==
  ASSUME NEW s \in Seq(Unit), NEW a \in Unit, NEW b \in Unit
  PROVE  (s \o <<a>>) \o <<b>> = s \o <<a, b>>
<1>1. /\ <<a>> \in Seq(Unit) /\ <<b>> \in Seq(Unit) /\ <<a, b>> \in Seq(Unit)
      /\ Len(<<a>>) = 1 /\ <<a>>[1] = a /\ Len(<<b>>) = 1 /\ <<b>>[1] = b
      /\ Len(<<a, b>>) = 2 /\ <<a, b>>[1] = a /\ <<a, b>>[2] = b
  BY SMT
<1> DEFINE r == s \o <<a>>
           x == r \o <<b>>
           y == s \o <<a, b>>
<1>2. /\ r \in Seq(Unit) /\ Len(s) \in Nat /\ Len(r) = Len(s) + 1
      /\ (\A k \in 1 .. Len(s) : r[k] = s[k]) /\ r[Len(s) + 1] = a
  BY SMT, <1>1
<1>3. /\ y \in Seq(Unit) /\ Len(y) = Len(s) + 2
      /\ (\A k \in 1 .. Len(s) : y[k] = s[k]) /\ y[Len(s) + 1] = a /\ y[Len(s) + 2] = b
  BY SMT, <1>1
<1> HIDE DEF r
<1>4. /\ x \in Seq(Unit) /\ Len(x) = Len(r) + 1
      /\ (\A k \in 1 .. Len(r) : x[k] = r[k]) /\ x[Len(r) + 1] = b
  BY SMT, <1>1, <1>2
<1> HIDE DEF x, y
<1>5. /\ Len(x) = Len(y) /\ (Len(s) + 1) + 1 = Len(s) + 2
      /\ \A k \in 1 .. Len(x) : k \in 1 .. Len(s) \/ k = Len(s) + 1 \/ k = Len(s) + 2
      /\ (\A k \in 1 .. Len(s) : k \in 1 .. Len(r)) /\ Len(s) + 1 \in 1 .. Len(r)
  BY SMT, <1>2, <1>3, <1>4
<1>6. \A k \in 1 .. Len(x) : x[k] = y[k] BY <1>2, <1>3, <1>4, <1>5
<1>7. x = y BY <1>3, <1>4, <1>5, <1>6, SameSequence
<1> QED BY <1>7 DEF x, y, r

\* What jstr_dup reads of a clean string at the end of what it has read: a whole
\* code point, and not the half of one.
LEMMA ReadsClean ==
  ASSUME NEW u \in Seq(Unit), Clean(u), NEW j \in Nat, j + 1 \in 1 .. Len(u), Aligned(u, j)
  PROVE  /\ Scalar(u, j + 1) \in Point /\ Scalar(u, j + 1) \notin High \cup Low
         /\ Scalar(u, j + 1) # 0
         /\ j + UnitsRead(u, j + 1) \in 0 .. Len(u) /\ j < j + UnitsRead(u, j + 1)
         /\ Aligned(u, j + UnitsRead(u, j + 1))
         /\ SubSeq(u, 1, j) \o Halves(Scalar(u, j + 1)) = SubSeq(u, 1, j + UnitsRead(u, j + 1))
<1> DEFINE k == j + 1
           cp == Scalar(u, k)
<1>1. /\ Len(u) \in Nat /\ DOMAIN u = 1 .. Len(u) /\ k - 1 = j
      /\ k \in 1 .. Len(u) /\ k # 0 /\ (k > 1 => j # 0)
  BY SMT
<1>2. cp \in Point BY <1>1, ReadsScalar
<1>3. u[k] # 0 BY <1>1 DEF Clean
<1>4. u[k] \notin Low
  <2>1. ASSUME u[k] \in Low PROVE FALSE
    <3>1. k > 1 /\ u[k - 1] \in High BY <1>1, <2>1 DEF Clean
    <3> QED BY <1>1, <3>1 DEF Aligned
  <2> QED BY <2>1
<1>5. u[k] \in Unit BY SMT, <1>1
<1>6. CASE u[k] \in High
  <2>1. k < Len(u) /\ u[k + 1] \in Low BY <1>1, <1>6 DEF Clean
  <2>2. Paired(u, k) BY <1>6, <2>1 DEF Paired
  <2>3. UnitsRead(u, k) = 2 BY <2>2 DEF UnitsRead
  <2> DEFINE h == u[k] - 55296
             l == u[k + 1] - 56320
  <2>4. h \in Nat /\ h < 1024 /\ l \in Nat /\ l < 1024 BY <1>6, <2>1, HalvesBounds
  <2>5. cp = 65536 + h * 1024 + l BY SMT, <2>2 DEF Scalar
  <2>6. u[k] = 55296 + h /\ u[k + 1] = 56320 + l
    <3>1. u[k] \in Nat /\ u[k + 1] \in Nat BY <1>6, <2>1, HalvesBounds
    <3> QED BY SMT, <3>1
  <2> HIDE DEF h, l, cp
  <2>7. Halves(cp) = <<u[k], u[k + 1]>>
    <3>1. ~ (cp < 65536) /\ cp - 65536 = h * 1024 + l BY SMT, <2>4, <2>5
    <3>2. (cp - 65536) \div 1024 = h /\ (cp - 65536) % 1024 = l BY SMT, <2>4, <3>1
    <3> QED BY SMT, <2>6, <3>1, <3>2 DEF Halves
  <2>8. cp \notin High \cup Low /\ cp # 0 BY SMT, <2>4, <2>5 DEF High, Low
  <2>9. j + 2 = k + 1 /\ k + 1 \in 1 .. Len(u) /\ j + 2 \in 0 .. Len(u) /\ j < j + 2
    BY SMT, <1>1, <2>1
  <2>10. Aligned(u, j + 2) BY <2>1, <2>9, SurrogatesHigh DEF Aligned
  <2>11. SubSeq(u, 1, j) \o Halves(cp) = SubSeq(u, 1, j + 2)
    <3>1. SubSeq(u, 1, j) \o <<u[k]>> = SubSeq(u, 1, k) BY <1>1, PrefixGrows
    <3>2. SubSeq(u, 1, k) \o <<u[k + 1]>> = SubSeq(u, 1, k + 1)
      <4>1. (k + 1) - 1 = k BY SMT
      <4> QED BY <2>9, <4>1, PrefixGrows
    <3>3. SubSeq(u, 1, j) \in Seq(Unit) BY <1>1, PrefixIs
    <3>4. u[k] \in Unit /\ u[k + 1] \in Unit BY SMT, <1>5, <2>9
    <3>5. \A s \in Seq(Unit) : \A a, b \in Unit : (s \o <<a>>) \o <<b>> = s \o <<a, b>> BY PairJoins
    <3> QED BY <2>7, <2>9, <3>1, <3>2, <3>3, <3>4, <3>5
  <2> QED BY <1>2, <2>3, <2>8, <2>9, <2>10, <2>11 DEF cp
<1>7. CASE u[k] \notin High
  <2>1. ~ Paired(u, k) BY <1>7 DEF Paired
  <2>2. UnitsRead(u, k) = 1 BY <2>1 DEF UnitsRead
  <2>3. cp = u[k] BY <1>4, <1>7, <2>1 DEF Scalar
  <2>4. Halves(cp) = <<u[k]>>
    <3>1. u[k] \in Nat /\ u[k] < 65536 BY SMT, <1>5, UnitBounds
    <3> HIDE DEF cp
    <3> QED BY SMT, <2>3, <3>1 DEF Halves
  <2>5. j + 1 \in 0 .. Len(u) /\ j < j + 1 BY SMT, <1>1
  <2>6. SubSeq(u, 1, j) \o <<u[k]>> = SubSeq(u, 1, k) BY <1>1, PrefixGrows
  <2> QED BY <1>2, <1>3, <1>4, <1>7, <2>2, <2>3, <2>4, <2>5, <2>6 DEF Aligned
<1> QED BY <1>6, <1>7

\* R pairs positions of the bytes b up to m with positions of the units u up to
\* n: from each pair but the last, the bytes that follow spell the code point the
\* units have there, and the positions behind it are a pair.
Spells(R, b, m, u, n, p, j) ==
  /\ j + 1 \in 1 .. n
  /\ p + Len(Utf8(Scalar(u, j + 1))) <= m
  /\ \A k \in DOMAIN Utf8(Scalar(u, j + 1)) : b[p + k] = Utf8(Scalar(u, j + 1))[k]
  /\ <<p + Len(Utf8(Scalar(u, j + 1))), j + UnitsRead(u, j + 1)>> \in R
Tracks(R, b, m, u, n) ==
  /\ R \in SUBSET ((0 .. m) \X (0 .. n))
  /\ <<0, 0>> \in R /\ <<m, n>> \in R
  /\ \A p \in 0 .. m, j \in 0 .. n :
       <<p, j>> \in R => /\ Aligned(u, j)
                         /\ (p = m /\ j = n) \/ Spells(R, b, m, u, n, p, j)

LEMMA TracksNothing == \A u : \E R : Tracks(R, <<>>, 0, u, 0)
<1>1. \A x \in 0 .. 0 : x = 0 BY SMT
<1>2. 0 \in 0 .. 0 BY SMT
<1> DEFINE R == {<<0, 0>>}
<1> SUFFICES ASSUME NEW u PROVE Tracks(R, <<>>, 0, u, 0)
  OBVIOUS
<1> QED BY <1>1, <1>2 DEF Tracks, Aligned

LEMMA TracksGrow ==
  ASSUME NEW b \in Seq(Byte), NEW u \in Seq(Unit), Clean(u), NEW n \in Nat, n + 1 \in 1 .. Len(u),
         NEW R, Tracks(R, b, Len(b), u, n)
  PROVE  \E Q : Tracks(Q, b \o Utf8(Scalar(u, n + 1)), Len(b \o Utf8(Scalar(u, n + 1))),
                       u, n + UnitsRead(u, n + 1))
<1> DEFINE w == Utf8(Scalar(u, n + 1))
           c == b \o w
           m == Len(b)
           d == UnitsRead(u, n + 1)
           h == Len(w)
           Q == R \cup {<<m + h, n + d>>}
<1>1. m \in Nat /\ m \in 0 .. m /\ n \in 0 .. n BY SMT
<1>2. /\ <<0, 0>> \in R /\ <<m, n>> \in R
      /\ R \in SUBSET ((0 .. m) \X (0 .. n))
      /\ \A p \in 0 .. m, j \in 0 .. n :
           <<p, j>> \in R => /\ Aligned(u, j)
                             /\ (p = m /\ j = n) \/ Spells(R, b, m, u, n, p, j)
  BY DEF Tracks
<1>3. Aligned(u, n) BY <1>1, <1>2
<1>4. /\ Scalar(u, n + 1) \in Point /\ n + d \in 0 .. Len(u) /\ n < n + d
      /\ Aligned(u, n + d)
  BY <1>3, ReadsClean
<1>5. w \in Seq(Byte) /\ h \in 1 .. 4 /\ DOMAIN w = 1 .. h
  <2>1. w \in Seq(Byte) /\ Len(w) \in 1 .. 4 BY <1>4, HighBytes
  <2> QED BY SMT, <2>1
<1>6. d \in Nat /\ n + d \in Nat BY SMT, <1>4, ReadsScalar
<1> HIDE DEF w, m, d, h
<1>7. /\ Len(c) = m + h
      /\ \A k \in 1 .. m : c[k] = b[k]
      /\ \A k \in 1 .. h : c[m + k] = w[k]
  BY <1>5, Joins DEF m, h
<1> HIDE DEF c
<1>8. /\ m + h \in Nat /\ m < m + h
      /\ \A p \in 0 .. m : p \in 0 .. (m + h)
      /\ \A j \in 0 .. n : j \in 0 .. (n + d)
      /\ m + h \in 0 .. (m + h) /\ n + d \in 0 .. (n + d)
      /\ n + 1 \in 1 .. (n + d)
      /\ \A j \in 1 .. n : j \in 1 .. (n + d)
  BY SMT, <1>1, <1>4, <1>5, <1>6
<1>9. Q \in SUBSET ((0 .. (m + h)) \X (0 .. (n + d)))
  <2>1. <<m + h, n + d>> \in (0 .. (m + h)) \X (0 .. (n + d)) BY <1>8
  <2>2. \A r \in R : r \in (0 .. (m + h)) \X (0 .. (n + d))
    <3> SUFFICES ASSUME NEW r \in R PROVE r \in (0 .. (m + h)) \X (0 .. (n + d))
      OBVIOUS
    <3>1. PICK p \in 0 .. m, j \in 0 .. n : r = <<p, j>> BY <1>2
    <3> QED BY <1>8, <3>1
  <2> QED BY <2>1, <2>2
<1>10. ASSUME NEW p \in 0 .. (m + h), NEW j \in 0 .. (n + d), <<p, j>> \in Q
       PROVE  /\ Aligned(u, j)
              /\ (p = m + h /\ j = n + d) \/ Spells(Q, c, m + h, u, n + d, p, j)
  <2>1. CASE p = m + h /\ j = n + d BY <1>4, <2>1
  <2>2. CASE <<p, j>> \in R
    <3>1. p \in 0 .. m /\ j \in 0 .. n BY <1>2, <2>2
    <3>2. /\ Aligned(u, j)
          /\ (p = m /\ j = n) \/ Spells(R, b, m, u, n, p, j)
      BY <1>2, <2>2, <3>1
    <3>3. CASE p = m /\ j = n
      <4>1. Spells(Q, c, m + h, u, n + d, m, n)
        <5>1. m + h <= m + h BY SMT, <1>8
        <5>2. /\ n + 1 \in 1 .. (n + d)
              /\ m + Len(w) <= m + h
              /\ \A k \in DOMAIN w : c[m + k] = w[k]
              /\ <<m + Len(w), n + d>> \in Q
          BY <1>5, <1>7, <1>8, <5>1 DEF h
        <5> QED BY <5>2 DEF Spells, w, d
      <4> QED BY <3>2, <3>3, <4>1
    <3>4. CASE Spells(R, b, m, u, n, p, j)
      <4> DEFINE x == Utf8(Scalar(u, j + 1))
      <4>1. /\ j + 1 \in 1 .. n /\ p + Len(x) <= m
            /\ \A k \in DOMAIN x : b[p + k] = x[k]
            /\ <<p + Len(x), j + UnitsRead(u, j + 1)>> \in R
        BY <3>4 DEF Spells
      <4>2. x \in Seq(Byte)
        <5>1. j + 1 \in 1 .. Len(u) BY SMT, <4>1
        <5>2. Scalar(u, j + 1) \in Point BY <5>1, ReadsScalar
        <5> QED BY <5>2, HighBytes
      <4> HIDE DEF x
      <4>3. Len(x) \in Nat /\ DOMAIN x = 1 .. Len(x) BY SMT, <4>2
      <4>4. p + Len(x) <= m + h BY SMT, <1>1, <1>5, <3>1, <4>1, <4>3
      <4>5. \A k \in DOMAIN x : p + k \in 1 .. m BY SMT, <1>1, <3>1, <4>1, <4>3
      <4>6. \A k \in DOMAIN x : c[p + k] = x[k] BY <1>7, <4>1, <4>5
      <4>7. j + 1 \in 1 .. (n + d) /\ <<p + Len(x), j + UnitsRead(u, j + 1)>> \in Q
        BY <1>8, <4>1
      <4>8. Spells(Q, c, m + h, u, n + d, p, j) BY <4>4, <4>6, <4>7 DEF Spells, x
      <4> QED BY <3>2, <4>8
    <3> QED BY <3>2, <3>3, <3>4
  <2> QED BY <1>10, <2>1, <2>2
<1>11. Tracks(Q, c, m + h, u, n + d)
  <2>1. <<0, 0>> \in Q /\ <<m + h, n + d>> \in Q BY <1>2
  <2> HIDE DEF Q
  <2> QED BY <1>9, <1>10, <2>1 DEF Tracks
<1> HIDE DEF Q
<1> QED BY <1>7, <1>11 DEF c, w, d

\* What jstr_new reads from a pair of positions is what jstr_dup wrote there.
LEMMA TracksRead ==
  ASSUME NEW b \in Seq(Byte), NEW u \in Seq(Unit), Clean(u), NEW R,
         Tracks(R, b, Len(b), u, Len(u)), NEW p \in Nat, NEW j \in Nat,
         <<p, j>> \in R, p < Len(b)
  PROVE  /\ j + 1 \in 1 .. Len(u) /\ Aligned(u, j)
         /\ PointAt(b, p + 1) = Scalar(u, j + 1)
         /\ <<p + BytesRead(b, p + 1), j + UnitsRead(u, j + 1)>> \in R
<1>1. p \in 0 .. Len(b) /\ j \in 0 .. Len(u) /\ p # Len(b)
  <2>1. <<p, j>> \in (0 .. Len(b)) \X (0 .. Len(u)) BY DEF Tracks
  <2> QED BY SMT, <2>1
<1>2. Aligned(u, j) /\ Spells(R, b, Len(b), u, Len(u), p, j) BY <1>1 DEF Tracks
<1> DEFINE cp == Scalar(u, j + 1)
<1>3. /\ j + 1 \in 1 .. Len(u) /\ p + Len(Utf8(cp)) <= Len(b)
      /\ \A k \in DOMAIN Utf8(cp) : b[p + k] = Utf8(cp)[k]
      /\ <<p + Len(Utf8(cp)), j + UnitsRead(u, j + 1)>> \in R
  BY <1>2 DEF Spells
<1>4. cp \in Point /\ cp \notin High \cup Low BY <1>2, <1>3, ReadsClean
<1> HIDE DEF cp
<1>5. PointAt(b, p + 1) = cp /\ BytesRead(b, p + 1) = Len(Utf8(cp))
  BY <1>3, <1>4, SpelledRead
<1> QED BY <1>2, <1>3, <1>5 DEF cp

\* All bytes are read when all units are.
LEMMA TracksEnd ==
  ASSUME NEW u \in Seq(Unit), NEW b, NEW m \in Nat, NEW R, Tracks(R, b, m, u, Len(u)),
         NEW j, <<m, j>> \in R
  PROVE  j = Len(u)
<1>1. m \in 0 .. m /\ j \in 0 .. Len(u)
  <2>1. <<m, j>> \in (0 .. m) \X (0 .. Len(u)) BY DEF Tracks
  <2> QED BY SMT, <2>1
<1> SUFFICES ASSUME j # Len(u) PROVE FALSE
  OBVIOUS
<1>2. Spells(R, b, m, u, Len(u), m, j) BY <1>1 DEF Tracks
<1>3. j + 1 \in 1 .. Len(u) /\ m + Len(Utf8(Scalar(u, j + 1))) <= m BY <1>2 DEF Spells
<1> DEFINE h == Len(Utf8(Scalar(u, j + 1)))
<1>4. h \in 1 .. 4 BY <1>3, ReadsScalar, HighBytes
<1>5. m + h <= m BY <1>3
<1> HIDE DEF h
<1> QED BY SMT, <1>4, <1>5

\* Whoever holds the text, it is the string u that Java was given of it: the
\* bytes of native code spell it, and what a function has written, it begins with.
Follows(u) ==
  /\ at \in {"java", "dup"} => text = u
  /\ at = "dup" => Without(out, {0}) /\ \E R : Tracks(R, out, Len(out), u, i)
  /\ at = "native" => \E R : Tracks(R, text, Len(text), u, Len(u))
  /\ at = "new" => \E R : /\ Tracks(R, text, Len(text), u, Len(u))
                          /\ \E j \in 0 .. Len(u) : /\ <<i, j>> \in R
                                                    /\ NewStringUTF(out) = SubSeq(u, 1, j)

CrossInv ==
  /\ at = "new" => Clean(NewStringUTF(out))
  /\ returned # {} => \E u \in Seq(Unit) : returned = {u} /\ Clean(u) /\ Follows(u)

LEMMA CleanNothing == Clean(<<>>) /\ <<>> \in Seq(Unit)
<1>1. DOMAIN <<>> = {} /\ <<>> \in Seq(Unit) BY SMT
<1> QED BY <1>1 DEF Clean

LEMMA DupFollows ==
  ASSUME BridgeInv, DupUnit, NEW u \in Seq(Unit), Clean(u), Follows(u)
  PROVE  Follows(u)'
<1>1. /\ at = "dup" /\ at' = "dup" /\ text' = text /\ text = u
      /\ Without(out, {0})
      /\ i' = i + UnitsRead(u, i + 1) /\ out' = out \o Utf8(Scalar(u, i + 1))
  BY DEF DupUnit, Follows
<1>2. PICK R : Tracks(R, out, Len(out), u, i) BY <1>1 DEF Follows
<1>3. i \in Nat /\ i + 1 \in 1 .. Len(u) /\ out \in Seq(Byte) BY <1>1, DupWrites
<1>4. \E Q : Tracks(Q, out', Len(out'), u, i') BY <1>1, <1>2, <1>3, TracksGrow
<1>5. Without(out', {0})
  <2>1. {0} \in SUBSET Ascii BY SMT DEF Ascii
  <2>2. Without(u, {0})
    <3>1. \A k \in DOMAIN u : u[k] # 0 BY DEF Clean
    <3> QED BY <3>1 DEF Without
  <2> QED BY <1>1, <2>1, <2>2, WritesWithout
<1> QED BY <1>1, <1>4, <1>5 DEF Follows

LEMMA NewFollows ==
  ASSUME BridgeInv, NewByte, NEW u \in Seq(Unit), Clean(u), Follows(u)
  PROVE  Follows(u)'
<1>1. at = "new" /\ at' = "new" /\ text' = text /\ i < Len(text) BY DEF NewByte
<1>2. PICK R : /\ Tracks(R, text, Len(text), u, Len(u))
               /\ \E j \in 0 .. Len(u) : <<i, j>> \in R /\ NewStringUTF(out) = SubSeq(u, 1, j)
  BY <1>1 DEF Follows
<1>3. PICK j \in 0 .. Len(u) : <<i, j>> \in R /\ NewStringUTF(out) = SubSeq(u, 1, j) BY <1>2
<1>4. PICK cp \in Point :
           /\ text \in Seq(Byte) /\ i \in Nat
           /\ cp = PointAt(text, i + 1)
           /\ NewStringUTF(out') = NewStringUTF(out) \o Halves(cp)
           /\ i' = i + BytesRead(text, i + 1)
  BY NewWrites
<1>5. j \in Nat BY SMT
<1>6. /\ j + 1 \in 1 .. Len(u) /\ Aligned(u, j)
      /\ cp = Scalar(u, j + 1)
      /\ <<i', j + UnitsRead(u, j + 1)>> \in R
  BY <1>1, <1>2, <1>3, <1>4, <1>5, TracksRead
<1>7. /\ j + UnitsRead(u, j + 1) \in 0 .. Len(u)
      /\ NewStringUTF(out') = SubSeq(u, 1, j + UnitsRead(u, j + 1))
  BY <1>3, <1>4, <1>5, <1>6, ReadsClean
<1> QED BY <1>1, <1>2, <1>6, <1>7 DEF Follows

LEMMA NewCleans ==
  ASSUME BridgeInv, NulFree, NewByte, Clean(NewStringUTF(out))
  PROVE  Clean(NewStringUTF(out'))
<1>1. PICK cp \in Point :
           /\ text \in Seq(Byte) /\ i + 1 \in 1 .. Len(text)
           /\ NewStringUTF(out) \in Seq(Unit)
           /\ cp < 128 => cp = text[i + 1]
           /\ cp \notin High \cup Low
           /\ NewStringUTF(out') = NewStringUTF(out) \o Halves(cp)
  BY NewWrites
<1>2. text \in Seq(Char)
  <2>1. at \notin {"java", "dup"} BY DEF NewByte
  <2> QED BY <2>1 DEF NulFree
<1>3. text[i + 1] # 0 BY <1>1, <1>2, CharTyped
<1>4. cp # 0
  <2>1. 0 < 128 BY SMT
  <2> QED BY <1>1, <1>3, <2>1
<1> QED BY <1>1, <1>4, CleanGrows

\* Both functions to their end.
LEMMA EndsFollow ==
  ASSUME BridgeInv, NEW u \in Seq(Unit), Clean(u), Follows(u)
  PROVE  /\ DupEnds => Follows(u)'
         /\ NewEnds => text' = u /\ Follows(u)'
<1>1. ASSUME DupEnds PROVE Follows(u)'
  <2>1. /\ at = "dup" /\ at' = "native" /\ text' = UpTo(out, {0}) /\ i = Len(text) /\ text = u
        /\ Without(out, {0})
    BY <1>1 DEF DupEnds, CString, Follows
  <2>2. PICK R : Tracks(R, out, Len(out), u, Len(u)) BY <2>1 DEF Follows
  <2>3. out \in Seq(Byte) BY DEF BridgeInv, Walked
  <2>4. UpTo(out, {0}) = out BY <2>1, <2>3, UpToExact DEF Without
  <2> QED BY <2>1, <2>2, <2>4 DEF Follows
<1>2. ASSUME NewEnds PROVE text' = u /\ Follows(u)'
  <2>1. at = "new" /\ at' = "java" /\ text' = NewStringUTF(out) /\ i = Len(text)
    BY <1>2 DEF NewEnds
  <2>2. PICK R : /\ Tracks(R, text, Len(text), u, Len(u))
                 /\ \E j \in 0 .. Len(u) : <<i, j>> \in R /\ NewStringUTF(out) = SubSeq(u, 1, j)
    BY <2>1 DEF Follows
  <2>3. PICK j \in 0 .. Len(u) : <<i, j>> \in R /\ NewStringUTF(out) = SubSeq(u, 1, j) BY <2>2
  <2>4. text \in Seq(Byte) /\ Len(text) \in Nat
    <3>1. text \in Seq(Byte) BY <2>1 DEF BridgeInv, Carried
    <3> QED BY SMT, <3>1
  <2>5. j = Len(u) BY <2>1, <2>2, <2>3, <2>4, TracksEnd
  <2>6. SubSeq(u, 1, Len(u)) = u BY SMT
  <2>7. text' = u BY <2>1, <2>3, <2>5, <2>6
  <2> QED BY <2>1, <2>7 DEF Follows
<1> QED BY <1>1, <1>2

LEMMA CrossStep ==
  ASSUME BridgeInv, NulFree, CrossInv, TextNext
  PROVE  CrossInv'
<1>0. /\ at \notin {"dup", "new"} => i = 0 /\ out = <<>>
      /\ i = 0 => out = <<>>
      /\ Len(text) \in Nat
  <2>1. i = 0 => Len(out) <= 0 BY SMT DEF BridgeInv, Walked
  <2>2. out \in Seq(Byte) BY DEF BridgeInv, Walked
  <2>3. text \in Seq(Unit) \/ text \in Seq(Byte) BY DEF BridgeInv, Carried
  <2>4. Len(text) \in Nat BY SMT, <2>3
  <2>5. i = 0 => out = <<>> BY SMT, <2>1, <2>2
  <2>6. at \notin {"dup", "new"} => i = 0 /\ out = <<>> BY DEF BridgeInv, Walked
  <2> QED BY <2>4, <2>5, <2>6
<1>1. at' = "new" => Clean(NewStringUTF(out'))
  <2>1. CASE New BY <1>0, <2>1, EmptyString, CleanNothing DEF New
  <2>2. CASE NewByte BY <2>2, NewCleans DEF NewByte, CrossInv
  <2>3. CASE Dup \/ DupUnit \/ DupEnds \/ DupFails \/ NewEnds \/ NewFails
    BY <2>3 DEF Dup, DupUnit, DupEnds, DupFails, NewEnds, NewFails
  <2> QED BY <2>1, <2>2, <2>3 DEF TextNext
<1>2. ASSUME NEW u \in Seq(Unit), returned = {u}, Clean(u), Follows(u)
      PROVE  returned' = {u} /\ Follows(u)'
  <2>1. CASE Dup
    <3>1. at = "java" /\ at' = "dup" /\ UNCHANGED <<text, i, out, returned>> BY <2>1 DEF Dup
    <3>2. out' = <<>> /\ i' = 0 BY <1>0, <3>1
    <3>3. Len(<<>>) = 0 BY SMT
    <3>4. \E R : Tracks(R, out', Len(out'), u, i') BY <3>2, <3>3, TracksNothing
    <3> QED BY <1>2, <3>1, <3>2, <3>4, EmptyWithout DEF Follows
  <2>2. CASE DupUnit BY <1>2, <2>2, DupFollows DEF DupUnit
  <2>3. CASE DupEnds BY <1>2, <2>3, EndsFollow DEF DupEnds
  <2>4. CASE DupFails BY <1>2, <2>4 DEF DupFails, Follows
  <2>5. CASE New
    <3>1. at = "native" /\ at' = "new" /\ UNCHANGED <<text, i, out, returned>> BY <2>5 DEF New
    <3>2. out' = <<>> /\ i' = 0 BY <1>0, <3>1
    <3>3. PICK R : Tracks(R, text, Len(text), u, Len(u)) BY <1>2, <3>1 DEF Follows
    <3>4. <<0, 0>> \in R BY <3>3 DEF Tracks
    <3>5. 0 \in 0 .. Len(u) /\ SubSeq(u, 1, 0) = <<>> BY SMT
    <3> QED BY <1>2, <3>1, <3>2, <3>3, <3>4, <3>5, EmptyString DEF Follows
  <2>6. CASE NewByte BY <1>2, <2>6, NewFollows DEF NewByte
  <2>7. CASE NewEnds
    <3>1. text' = u /\ Follows(u)' BY <1>2, <2>7, EndsFollow
    <3>2. returned' = returned \cup {text'} BY <2>7 DEF NewEnds
    <3> QED BY <1>2, <3>1, <3>2
  <2>8. CASE NewFails
    <3>1. at = "new" /\ at' = "native" /\ text' = text /\ returned' = returned
      BY <2>8 DEF NewFails
    <3> QED BY <1>2, <3>1 DEF Follows
  <2> QED BY <2>1, <2>2, <2>3, <2>4, <2>5, <2>6, <2>7, <2>8 DEF TextNext
\* The first crossing.
<1>3. ASSUME returned = {}, returned' # {}
      PROVE  \E u \in Seq(Unit) : returned' = {u} /\ Clean(u) /\ Follows(u)'
  <2>1. NewEnds
    BY <1>3 DEF TextNext, Dup, DupUnit, DupEnds, DupFails, New, NewByte, NewFails
  <2>2. /\ at = "new" /\ at' = "java" /\ text' = NewStringUTF(out)
        /\ returned' = returned \cup {text'}
    BY <2>1 DEF NewEnds
  <2>3. Clean(text') BY <2>2 DEF CrossInv
  <2>4. out \in Seq(Byte) BY DEF BridgeInv, Walked
  <2>5. text' \in Seq(Unit) BY <2>2, <2>4, NewStringTyped
  <2>6. Follows(text)' BY <2>2 DEF Follows
  <2>7. returned' = {text'} BY <1>3, <2>2
  <2> QED BY <2>3, <2>5, <2>6, <2>7
<1>4. returned' # {} => \E u \in Seq(Unit) : returned' = {u} /\ Clean(u) /\ Follows(u)'
  <2>1. CASE returned = {} BY <1>3, <2>1
  <2>2. CASE returned # {} BY <1>2, <2>2 DEF CrossInv
  <2> QED BY <2>1, <2>2
<1> QED BY <1>1, <1>4 DEF CrossInv

LEMMA CrossStart == NamesInit => CrossInv
BY DEF NamesInit, TextInit, CrossInv

LEMMA CrossKeeps == NamesInv /\ CrossInv /\ [NamesNext]_nameVars => CrossInv'
<1> SUFFICES ASSUME NamesInv, CrossInv, [NamesNext]_nameVars PROVE CrossInv'
  OBVIOUS
<1>1. CASE NameFromUrl \/ NameFromInfo \/ NameFromItem \/ LinkFromItem \/ FileAsked
  <2>1. at \in Sources /\ at' # "new" /\ returned' = returned
    BY <1>1 DEF NameFromUrl, NameFromInfo, NameFromItem, LinkFromItem, FileAsked, Named, Sources
  <2>2. returned = {} BY <2>1 DEF NamesInv, NulFree
  <2> QED BY <2>1, <2>2 DEF CrossInv
<1>2. CASE TextNext /\ UNCHANGED of BY <1>2, CrossStep DEF NamesInv
<1>3. CASE UNCHANGED nameVars
  <2>1. UNCHANGED <<at, text, i, out, returned>> BY <1>3 DEF nameVars, textVars
  <2>2. \A u : Follows(u) => Follows(u)' BY <2>1 DEF Follows
  <2> QED BY <2>1, <2>2 DEF CrossInv
<1> QED BY <1>1, <1>2, <1>3 DEF NamesNext

\* Native code gives Java one string for a text, at its first crossing and at
\* every later one: the path in memory, in the database and after a restart is
\* the same (jni_common.h:43-49).
THEOREM StringsStay == NamesSpec => []CrossesUnchanged
<1>1. NamesInit => NamesInv /\ CrossInv BY NamesStart, CrossStart
<1>2. NamesInv /\ CrossInv /\ [NamesNext]_nameVars => NamesInv' /\ CrossInv'
  BY NamesStep, CrossKeeps
<1>3. CrossInv => CrossesUnchanged BY DEF CrossInv, CrossesUnchanged
<1> QED BY <1>1, <1>2, <1>3, PTL DEF NamesSpec

=============================================================================
