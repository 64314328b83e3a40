--------------------------- MODULE OpenImage_proof ---------------------------
(***************************************************************************)
(* What opens is sound, for every file: the protected ranges are exactly   *)
(* the bytes of the metadata, no grain pointer gets at them, every offset  *)
(* has its directory entry, an image opened for writing can be kept up,    *)
(* and a failed read is no verdict on the file.                            *)
(***************************************************************************)
EXTENDS OpenImage, FiniteSetTheorems, SequenceTheorems, WellFoundedInduction, TLAPS

-----------------------------------------------------------------------------
(* Least and greatest elements, and induction *)

LEMMA Smallest ==
    ASSUME NEW T, T \subseteq Nat, T # {}
    PROVE  \E n \in T : \A m \in T : n <= m
  <1>1. PICK n \in T : \A m \in T : ~ (<<m, n>> \in OpToRel(<, Nat))
    BY NatLessThanWellFounded, WFMin
  <1>2. \A m \in T : ~(m < n)
    BY <1>1 DEF OpToRel
  <1>3. QED
    BY <1>2

LEMMA Induct ==
    ASSUME NEW S, 0 \in S, \A n \in Nat : n \in S => n + 1 \in S
    PROVE  Nat \subseteq S
  <1> SUFFICES ASSUME ~(Nat \subseteq S) PROVE FALSE
    OBVIOUS
  <1>1. PICK T : T = Nat \ S
    OBVIOUS
  <1>2. PICK n \in T : \A m \in T : n <= m
    BY <1>1, Smallest
  <1>3. n \in Nat /\ n # 0 /\ n \notin S
    BY <1>1, <1>2
  <1>4. n - 1 \in Nat /\ n - 1 \notin T
    BY <1>1, <1>2, <1>3
  <1>5. QED
    BY <1>1, <1>3, <1>4

LEMMA Largest ==
    ASSUME NEW T, T \subseteq Nat, T # {}, NEW b \in Nat, \A n \in T : n <= b
    PROVE  \E n \in T : \A m \in T : m <= n
  <1>1. PICK U : U = {b - n : n \in T}
    OBVIOUS
  <1>2. U \subseteq Nat /\ U # {}
    <2>1. PICK n : n \in T
      OBVIOUS
    <2>2. b - n \in U
      BY <1>1, <2>1
    <2>3. ASSUME NEW u \in U PROVE u \in Nat
      BY <1>1
    <2>4. QED
      BY <2>2, <2>3
  <1>3. PICK u \in U : \A m \in U : u <= m
    BY <1>2, Smallest
  <1>4. PICK n \in T : u = b - n
    BY <1>1, <1>3
  <1>5. \A m \in T : b - n <= b - m
    BY <1>1, <1>3, <1>4
  <1>6. QED
    BY <1>5

LEMMA MinIs ==
    ASSUME NEW T, T \subseteq Nat, T # {}
    PROVE  Min(T) \in T /\ \A m \in T : Min(T) <= m
  BY Smallest DEF Min

LEMMA MaxIs ==
    ASSUME NEW T, T \subseteq Nat, T # {}, NEW b \in Nat, \A n \in T : n <= b
    PROVE  Max(T) \in T /\ \A m \in T : m <= Max(T)
  <1>1. \E n \in T : \A m \in T : n >= m
    BY Largest
  <1>2. QED
    BY <1>1 DEF Max

\* A set of the first indices is told by how many they are.
LEMMA FirstAre ==
    ASSUME NEW n \in Nat, NEW K, K \subseteq 1 .. n, \A k \in K : \A j \in 1 .. k : j \in K
    PROVE  K = 1 .. Cardinality(K) /\ Cardinality(K) \in 0 .. n
  <1>1. CASE K = {}
    <2>1. Cardinality(K) = 0
      BY <1>1, FS_EmptySet
    <2>2. QED
      BY <1>1, <2>1
  <1>2. CASE K # {}
    <2>1. PICK m \in K : \A k \in K : k <= m
      <3>1. K \subseteq Nat /\ \A k \in K : k <= n
        OBVIOUS
      <3>2. QED
        BY <1>2, <3>1, Largest
    <2>2. K = 1 .. m
      <3>1. \A k \in K : k \in 1 .. m
        BY <2>1
      <3>2. \A k \in 1 .. m : k \in K
        BY <2>1
      <3>3. QED
        BY <3>1, <3>2
    <2>3. Cardinality(1 .. m) = m
      BY <2>1, FS_Interval
    <2>4. QED
      BY <2>1, <2>2, <2>3
  <1>3. QED
    BY <1>1, <1>2

-----------------------------------------------------------------------------
(* Sets of ranges *)

Bytes(x) == UNION {x[k][1] .. x[k][2] - 1 : k \in 1 .. Len(x)}

\* Ranges that are not empty, in order, with a gap between any two.
Spaced(x) ==
    /\ x \in Seq(Nat \X Nat)
    /\ \A k \in 1 .. Len(x) : x[k][1] < x[k][2]
    /\ \A j, k \in 1 .. Len(x) : j < k => x[j][2] < x[k][1]

LEMMA SpacedIs ==
    ASSUME NEW x, Spaced(x)
    PROVE  /\ Len(x) \in Nat /\ DOMAIN x = 1 .. Len(x)
           /\ \A k \in 1 .. Len(x) : x[k] \in Nat \X Nat /\ x[k][1] \in Nat /\ x[k][2] \in Nat
  <1>1. x \in Seq(Nat \X Nat)
    BY DEF Spaced
  <1>2. Len(x) \in Nat /\ DOMAIN x = 1 .. Len(x) /\ \A k \in 1 .. Len(x) : x[k] \in Nat \X Nat
    BY <1>1
  <1>3. QED
    BY <1>2

\* partition_point: the ranges it passes are the first.
LEMMA EndedBeforeIs ==
    ASSUME NEW x, Spaced(x), NEW at \in Nat, NEW i, i = EndedBefore(x, at)
    PROVE  /\ i \in 0 .. Len(x)
           /\ \A k \in 1 .. Len(x) : x[k][2] < at <=> k <= i
  <1>1. PICK K : K = {k \in DOMAIN x : x[k][2] < at}
    OBVIOUS
  <1>2. /\ Len(x) \in Nat /\ DOMAIN x = 1 .. Len(x)
        /\ \A k \in 1 .. Len(x) : x[k][1] \in Nat /\ x[k][2] \in Nat
    BY SpacedIs
  <1>3. K \subseteq 1 .. Len(x)
    BY <1>1, <1>2
  <1>4. ASSUME NEW k \in K, NEW j \in 1 .. k PROVE j \in K
    <2>1. k \in 1 .. Len(x) /\ x[k][2] < at /\ j \in 1 .. Len(x)
      BY <1>1, <1>2
    <2>2. x[j][2] <= x[k][2]
      <3>1. j = k \/ j < k
        BY <1>2, <2>1
      <3>2. j < k => x[j][2] < x[k][1] /\ x[k][1] < x[k][2]
        BY <2>1 DEF Spaced
      <3>3. QED
        BY <1>2, <2>1, <3>1, <3>2
    <2>3. QED
      BY <1>1, <1>2, <2>1, <2>2
  <1>5. K = 1 .. Cardinality(K) /\ Cardinality(K) \in 0 .. Len(x)
    BY <1>2, <1>3, <1>4, FirstAre
  <1>6. i = Cardinality(K)
    BY <1>1 DEF EndedBefore
  <1>7. QED
    BY <1>1, <1>2, <1>5, <1>6

LEMMA EndedByIs ==
    ASSUME NEW x, Spaced(x), NEW at \in Nat, NEW i, i = EndedBy(x, at)
    PROVE  /\ i \in 0 .. Len(x)
           /\ \A k \in 1 .. Len(x) : x[k][2] <= at <=> k <= i
  <1>1. PICK K : K = {k \in DOMAIN x : x[k][2] <= at}
    OBVIOUS
  <1>2. /\ Len(x) \in Nat /\ DOMAIN x = 1 .. Len(x)
        /\ \A k \in 1 .. Len(x) : x[k][1] \in Nat /\ x[k][2] \in Nat
    BY SpacedIs
  <1>3. K \subseteq 1 .. Len(x)
    BY <1>1, <1>2
  <1>4. ASSUME NEW k \in K, NEW j \in 1 .. k PROVE j \in K
    <2>1. k \in 1 .. Len(x) /\ x[k][2] <= at /\ j \in 1 .. Len(x)
      BY <1>1, <1>2
    <2>2. x[j][2] <= x[k][2]
      <3>1. j = k \/ j < k
        BY <1>2, <2>1
      <3>2. j < k => x[j][2] < x[k][1] /\ x[k][1] < x[k][2]
        BY <2>1 DEF Spaced
      <3>3. QED
        BY <1>2, <2>1, <3>1, <3>2
    <2>3. QED
      BY <1>1, <1>2, <2>1, <2>2
  <1>5. K = 1 .. Cardinality(K) /\ Cardinality(K) \in 0 .. Len(x)
    BY <1>2, <1>3, <1>4, FirstAre
  <1>6. i = Cardinality(K)
    BY <1>1 DEF EndedBy
  <1>7. QED
    BY <1>1, <1>2, <1>5, <1>6

\* overlaps is exact.
LEMMA OverlapsIs ==
    ASSUME NEW x, Spaced(x), NEW start \in Nat, NEW end \in Nat, start < end
    PROVE  Overlaps(x, start, end) <=> (start .. end - 1) \cap Bytes(x) # {}
  <1>1. PICK i : i = EndedBy(x, start)
    OBVIOUS
  <1>2. /\ i \in 0 .. Len(x)
        /\ \A k \in 1 .. Len(x) : x[k][2] <= start <=> k <= i
    BY <1>1, EndedByIs
  <1>3. /\ Len(x) \in Nat /\ \A k \in 1 .. Len(x) : x[k][1] \in Nat /\ x[k][2] \in Nat
    BY SpacedIs
  <1>4. ASSUME i < Len(x), x[i + 1][1] < end PROVE \E b \in start .. end - 1 : b \in Bytes(x)
    <2>1. i + 1 \in 1 .. Len(x) /\ ~(x[i + 1][2] <= start)
      BY <1>2, <1>3, <1>4
    <2>2. x[i + 1][1] < x[i + 1][2]
      BY <2>1 DEF Spaced
    <2>3. PICK b : b = IF x[i + 1][1] <= start THEN start ELSE x[i + 1][1]
      OBVIOUS
    <2>4. b \in start .. end - 1 /\ b \in x[i + 1][1] .. x[i + 1][2] - 1
      BY <1>3, <1>4, <2>1, <2>2, <2>3
    <2>5. QED
      BY <2>1, <2>4 DEF Bytes
  <1>5. ASSUME NEW b \in start .. end - 1, b \in Bytes(x) PROVE i < Len(x) /\ x[i + 1][1] < end
    <2>1. PICK k \in 1 .. Len(x) : b \in x[k][1] .. x[k][2] - 1
      BY <1>5 DEF Bytes
    <2>2. ~(x[k][2] <= start) /\ x[k][1] < end
      <3>1. x[k][1] \in Nat /\ x[k][2] \in Nat
        BY <1>3, <2>1
      <3>2. x[k][1] <= b /\ b < x[k][2] /\ start <= b /\ b < end
        BY <1>5, <2>1, <3>1
      <3>3. QED
        BY <3>1, <3>2
    <2>3. i < k /\ i + 1 \in 1 .. Len(x)
      BY <1>2, <1>3, <2>1, <2>2
    <2>4. i + 1 = k \/ (x[i + 1][1] < x[i + 1][2] /\ x[i + 1][2] < x[k][1])
      <3>1. PICK n \in 1 .. Len(x) : n = i + 1
        BY <2>3
      <3>2. n = k \/ n < k
        BY <1>2, <1>3, <2>1, <2>3, <3>1
      <3>3. x[n][1] < x[n][2] /\ (n < k => x[n][2] < x[k][1])
        BY <2>1 DEF Spaced
      <3>4. QED
        BY <3>1, <3>2, <3>3
    <2>5. QED
      BY <1>2, <1>3, <2>1, <2>2, <2>3, <2>4
  <1>6. Overlaps(x, start, end) <=> i < Len(x) /\ x[i + 1][1] < end
    BY <1>1 DEF Overlaps
  <1>7. QED
    BY <1>4, <1>5, <1>6

-----------------------------------------------------------------------------
(* insert *)

\* The hull begins at `start` or with a range it has taken in, and holds all of them.
LEMMA HullIs ==
    ASSUME NEW x, Spaced(x), NEW i \in 0 .. Len(x), NEW j \in i .. Len(x),
           NEW start \in Nat, NEW end \in Nat, NEW h, h = Hull(x, i, j, start, end)
    PROVE  /\ h = <<h[1], h[2]>> /\ h[1] \in Nat /\ h[2] \in Nat
           /\ h[1] <= start /\ end <= h[2]
           /\ \A k \in i + 1 .. j : h[1] <= x[k][1] /\ x[k][2] <= h[2]
           /\ h[1] = start \/ \E k \in i + 1 .. j : h[1] = x[k][1]
           /\ h[2] = end \/ \E k \in i + 1 .. j : h[2] = x[k][2]
  <1>1. PICK S, E : /\ S = {start} \cup {x[k][1] : k \in i + 1 .. j}
                    /\ E = {end} \cup {x[k][2] : k \in i + 1 .. j}
    OBVIOUS
  <1>2. /\ Len(x) \in Nat /\ \A k \in 1 .. Len(x) : x[k][1] \in Nat /\ x[k][2] \in Nat
        /\ i \in Nat /\ j \in Nat
    BY SpacedIs
  <1>3. i + 1 .. j \subseteq 1 .. Len(x)
    BY <1>2
  <1>4. S \subseteq Nat /\ S # {} /\ E \subseteq Nat /\ E # {}
    BY <1>1, <1>2, <1>3
  <1>5. PICK b \in Nat : \A n \in E : n <= b
    <2>1. CASE i = j
      <3>1. ~\E k : k \in i + 1 .. j
        BY <1>2, <2>1
      <3>2. \A n \in E : n = end
        BY <1>1, <3>1
      <3>3. QED
        BY <3>2
    <2>2. CASE i # j
      <3>1. j \in 1 .. Len(x) /\ x[j][2] \in Nat
        BY <1>2, <2>2
      <3>2. \A k \in i + 1 .. j : x[k][2] <= x[j][2]
        <4>1. ASSUME NEW k \in i + 1 .. j, k # j PROVE x[k][2] <= x[j][2]
          <5>1. k \in 1 .. Len(x) /\ k < j
            BY <1>2, <1>3, <4>1
          <5>2. x[k][2] < x[j][1] /\ x[j][1] < x[j][2]
            BY <3>1, <5>1 DEF Spaced
          <5>3. QED
            BY <1>2, <3>1, <5>1, <5>2
        <4>2. QED
          BY <3>1, <4>1
      <3>3. end + x[j][2] \in Nat /\ \A n \in E : n <= end + x[j][2]
        BY <1>1, <1>2, <1>3, <3>1, <3>2
      <3>4. QED
        BY <3>3
    <2>3. QED
      BY <2>1, <2>2
  <1>6. /\ Min(S) \in S /\ \A n \in S : Min(S) <= n
        /\ Max(E) \in E /\ \A n \in E : n <= Max(E)
    BY <1>4, <1>5, MinIs, MaxIs
  <1>7. h = <<Min(S), Max(E)>>
    BY <1>1 DEF Hull
  <1>8. h[1] = Min(S) /\ h[2] = Max(E)
    BY <1>7
  <1>9. QED
    BY <1>1, <1>4, <1>6, <1>7, <1>8

\* The loop of insert stops where it must, and not before.
LEMMA JoinedIs ==
    ASSUME NEW x, Spaced(x), NEW i \in 0 .. Len(x), NEW start \in Nat, NEW end \in Nat,
           NEW j, j = JoinedTo(x, i, start, end)
    PROVE  /\ j \in i .. Len(x)
           /\ j = Len(x) \/ x[j + 1][1] > Hull(x, i, j, start, end)[2]
           /\ \A k \in i .. j - 1 : x[k + 1][1] <= Hull(x, i, k, start, end)[2]
  <1>1. PICK T : T = {k \in i .. Len(x) : k = Len(x) \/ x[k + 1][1] > Hull(x, i, k, start, end)[2]}
    OBVIOUS
  <1>2. /\ Len(x) \in Nat /\ \A k \in 1 .. Len(x) : x[k][1] \in Nat /\ x[k][2] \in Nat
        /\ i \in Nat
    BY SpacedIs
  <1>3. Len(x) \in T /\ T \subseteq Nat
    BY <1>1, <1>2
  <1>4. j \in T /\ \A k \in T : j <= k
    BY <1>1, <1>3, MinIs DEF JoinedTo
  <1>5. ASSUME NEW k \in i .. j - 1 PROVE x[k + 1][1] <= Hull(x, i, k, start, end)[2]
    <2>1. j \in i .. Len(x) /\ j \in Nat
      BY <1>1, <1>2, <1>4
    <2>2. k \in i .. Len(x) /\ k \notin T /\ k + 1 \in 1 .. Len(x)
      BY <1>2, <1>4, <2>1
    <2>3. Hull(x, i, k, start, end)[2] \in Nat /\ x[k + 1][1] \in Nat
      BY <1>2, <2>2, HullIs
    <2>4. QED
      BY <1>1, <2>2, <2>3
  <1>6. QED
    BY <1>1, <1>4, <1>5

\* So every range it takes in begins by `end`.
LEMMA JoinedBegin ==
    ASSUME NEW x, Spaced(x), NEW i \in 0 .. Len(x), NEW start \in Nat, NEW end \in Nat,
           NEW j, j = JoinedTo(x, i, start, end), NEW k \in i + 1 .. j
    PROVE  x[k][1] <= end
  <1>1. /\ Len(x) \in Nat /\ \A n \in 1 .. Len(x) : x[n][1] \in Nat /\ x[n][2] \in Nat
        /\ i \in Nat
    BY SpacedIs
  <1>2. j \in i .. Len(x) /\ j \in Nat
    <2>1. j \in i .. Len(x)
      BY JoinedIs
    <2>2. QED
      BY <1>1, <2>1
  <1>3. k - 1 \in i .. j - 1 /\ k - 1 \in i .. Len(x) /\ k \in 1 .. Len(x) /\ (k - 1) + 1 = k
    BY <1>1, <1>2
  <1>4. PICK h : h = Hull(x, i, k - 1, start, end)
    OBVIOUS
  <1>5. x[k][1] <= h[2]
    BY <1>3, <1>4, JoinedIs
  <1>6. h[2] = end \/ \E n \in i + 1 .. k - 1 : h[2] = x[n][2]
    BY <1>3, <1>4, HullIs
  <1>7. ASSUME NEW n \in i + 1 .. k - 1 PROVE x[n][2] < x[k][1] /\ x[n][2] \in Nat
    <2>1. n \in 1 .. Len(x) /\ n < k
      BY <1>1, <1>3
    <2>2. QED
      BY <1>1, <1>3, <2>1 DEF Spaced
  <1>8. x[k][1] \in Nat
    BY <1>1, <1>3
  <1>9. QED
    BY <1>5, <1>6, <1>7, <1>8

\* The hull is no more than its parts.
LEMMA HullBytes ==
    ASSUME NEW x, Spaced(x), NEW start \in Nat, NEW end \in Nat, start < end,
           NEW i, i = EndedBefore(x, start), NEW j, j = JoinedTo(x, i, start, end),
           NEW h, h = Hull(x, i, j, start, end)
    PROVE  h[1] .. h[2] - 1 =
             (start .. end - 1) \cup UNION {x[k][1] .. x[k][2] - 1 : k \in i + 1 .. j}
  <1>1. /\ Len(x) \in Nat /\ \A n \in 1 .. Len(x) : x[n][1] \in Nat /\ x[n][2] \in Nat
    BY SpacedIs
  <1>2. i \in 0 .. Len(x) /\ \A k \in 1 .. Len(x) : x[k][2] < start <=> k <= i
    BY EndedBeforeIs
  <1>3. j \in i .. Len(x) /\ \A k \in i + 1 .. j : x[k][1] <= end
    BY <1>2, JoinedIs, JoinedBegin
  <1>4. \A k \in i + 1 .. j : k \in 1 .. Len(x) /\ start <= x[k][2] /\ x[k][1] <= end
    BY <1>1, <1>2, <1>3
  <1>5. /\ h[1] \in Nat /\ h[2] \in Nat /\ h[1] <= start /\ end <= h[2]
        /\ \A k \in i + 1 .. j : h[1] <= x[k][1] /\ x[k][2] <= h[2]
        /\ h[1] = start \/ \E k \in i + 1 .. j : h[1] = x[k][1]
        /\ h[2] = end \/ \E k \in i + 1 .. j : h[2] = x[k][2]
    BY <1>2, <1>3, HullIs
  <1>6. ASSUME NEW b \in h[1] .. h[2] - 1, b \notin start .. end - 1
        PROVE  \E k \in i + 1 .. j : b \in x[k][1] .. x[k][2] - 1
    <2>1. CASE b < start
      <3>1. PICK k \in i + 1 .. j : h[1] = x[k][1]
        BY <1>5, <1>6, <2>1
      <3>2. x[k][2] \in Nat /\ start <= x[k][2]
        BY <1>1, <1>4
      <3>3. b \in x[k][1] .. x[k][2] - 1
        BY <1>5, <1>6, <2>1, <3>1, <3>2
      <3>4. QED
        BY <3>3
    <2>2. CASE end <= b
      <3>1. PICK k \in i + 1 .. j : h[2] = x[k][2]
        BY <1>5, <1>6, <2>2
      <3>2. x[k][1] \in Nat /\ x[k][1] <= end
        BY <1>1, <1>4
      <3>3. b \in x[k][1] .. x[k][2] - 1
        BY <1>5, <1>6, <2>2, <3>1, <3>2
      <3>4. QED
        BY <3>3
    <2>3. QED
      BY <1>5, <1>6, <2>1, <2>2
  <1>7. ASSUME NEW k \in i + 1 .. j, NEW b \in x[k][1] .. x[k][2] - 1 PROVE b \in h[1] .. h[2] - 1
    <2>1. x[k][1] \in Nat /\ x[k][2] \in Nat /\ h[1] <= x[k][1] /\ x[k][2] <= h[2]
      BY <1>1, <1>4, <1>5
    <2>2. QED
      BY <1>5, <1>7, <2>1
  <1>8. \A b \in start .. end - 1 : b \in h[1] .. h[2] - 1
    BY <1>5
  <1>9. QED
    BY <1>6, <1>7, <1>8

\* x with the elements after i up to j replaced by h.
Splice(x, i, j, h) == SubSeq(x, 1, i) \o <<h>> \o SubSeq(x, j + 1, Len(x))

Spliced(y, x, i, j, h) ==
    /\ Len(y) = Len(x) - (j - i) + 1
    /\ y[i + 1] = h
    /\ \A k \in 1 .. i : y[k] = x[k]
    /\ \A k \in i + 2 .. Len(y) : y[k] = x[k + (j - i) - 1]

LEMMA SpliceIs ==
    ASSUME NEW S, NEW x \in Seq(S), NEW i \in Nat, NEW j \in Nat, i <= j, j <= Len(x), NEW h \in S,
           NEW y, y = Splice(x, i, j, h)
    PROVE  y \in Seq(S) /\ Spliced(y, x, i, j, h)
  <1>1. PICK n : n = Len(x)
    OBVIOUS
  <1>2. n \in Nat /\ \A k \in 1 .. n : x[k] \in S
    BY <1>1
  <1>3. PICK a, b, c, d : /\ a = SubSeq(x, 1, i) /\ b = <<h>> /\ c = SubSeq(x, j + 1, n)
                          /\ d = a \o b
    OBVIOUS
  <1>4. a \in Seq(S) /\ Len(a) = i /\ \A k \in 1 .. i : a[k] = x[k]
    <2>1. \A k \in 1 .. i : x[k] \in S
      BY <1>1, <1>2
    <2>2. /\ SubSeq(x, 1, i) \in Seq(S) /\ Len(SubSeq(x, 1, i)) = IF 1 <= i THEN i - 1 + 1 ELSE 0
          /\ \A k \in 1 .. i - 1 + 1 : SubSeq(x, 1, i)[k] = x[1 + k - 1]
      BY <2>1, SubSeqProperties
    <2>3. QED
      BY <1>3, <2>2
  <1>5. c \in Seq(S) /\ Len(c) = n - j /\ \A k \in 1 .. n - j : c[k] = x[k + j]
    <2>1. \A k \in j + 1 .. n : x[k] \in S
      BY <1>2
    <2>2. j + 1 \in Int /\ n \in Int
      BY <1>2
    <2>3. /\ SubSeq(x, j + 1, n) \in Seq(S)
          /\ Len(SubSeq(x, j + 1, n)) = IF j + 1 <= n THEN n - (j + 1) + 1 ELSE 0
          /\ \A k \in 1 .. n - (j + 1) + 1 : SubSeq(x, j + 1, n)[k] = x[(j + 1) + k - 1]
      BY <2>1, <2>2, SubSeqProperties
    <2>4. n - (j + 1) + 1 = n - j /\ \A k \in 1 .. n - j : (j + 1) + k - 1 = k + j
      BY <1>2
    <2>5. QED
      BY <1>1, <1>2, <1>3, <2>3, <2>4
  <1>6. b \in Seq(S) /\ Len(b) = 1 /\ b[1] = h
    BY <1>3
  <1>7. /\ d \in Seq(S) /\ Len(d) = i + 1
        /\ \A k \in 1 .. i + 1 : d[k] = IF k <= i THEN a[k] ELSE b[k - i]
    BY <1>3, <1>4, <1>6, ConcatProperties
  <1>8. y = d \o c
    BY <1>1, <1>3 DEF Splice
  <1>9. /\ y \in Seq(S) /\ Len(y) = i + 1 + (n - j)
        /\ \A k \in 1 .. i + 1 + (n - j) : y[k] = IF k <= i + 1 THEN d[k] ELSE c[k - (i + 1)]
    <2>1. d \in Seq(S) /\ c \in Seq(S)
      BY <1>5, <1>7
    <2>2. /\ d \o c \in Seq(S) /\ Len(d \o c) = Len(d) + Len(c)
          /\ \A k \in 1 .. Len(d) + Len(c) : (d \o c)[k] = IF k <= Len(d) THEN d[k] ELSE c[k - Len(d)]
      BY <2>1, ConcatProperties, Zenon
    <2>3. Len(d) = i + 1 /\ Len(c) = n - j
      BY <1>5, <1>7
    <2>4. QED
      BY <1>8, <2>2, <2>3, Zenon
  <1>10. Len(y) = n - (j - i) + 1
    BY <1>2, <1>9
  <1>11. y[i + 1] = h
    BY <1>1, <1>2, <1>6, <1>7, <1>9
  <1>12. ASSUME NEW k \in 1 .. i PROVE y[k] = x[k]
    <2>1. k \in 1 .. i + 1 + (n - j) /\ k <= i + 1 /\ k \in 1 .. i + 1 /\ k <= i
      BY <1>1, <1>2
    <2>2. QED
      BY <1>4, <1>7, <1>9, <2>1
  <1>13. ASSUME NEW k \in i + 2 .. Len(y) PROVE y[k] = x[k + (j - i) - 1]
    <2>1. /\ k \in 1 .. i + 1 + (n - j) /\ ~(k <= i + 1) /\ k - (i + 1) \in 1 .. n - j
          /\ k - (i + 1) + j = k + (j - i) - 1
      BY <1>1, <1>2, <1>9, <1>13
    <2>2. y[k] = c[k - (i + 1)] /\ c[k - (i + 1)] = x[k - (i + 1) + j]
      BY <1>5, <1>9, <2>1
    <2>3. QED
      BY <2>1, <2>2
  <1>14. QED
    BY <1>1, <1>9, <1>10, <1>11, <1>12, <1>13 DEF Spliced

\* What insert returns, range by range.
LEMMA InsertedIs ==
    ASSUME NEW x, Spaced(x), NEW start \in Nat, NEW end \in Nat, start < end,
           NEW i, i = EndedBefore(x, start), NEW j, j = JoinedTo(x, i, start, end),
           NEW h, h = Hull(x, i, j, start, end), NEW y, y = Insert(x, start, end)
    PROVE  /\ i \in 0 .. Len(x) /\ j \in i .. Len(x) /\ h \in Nat \X Nat
           /\ y \in Seq(Nat \X Nat) /\ Spliced(y, x, i, j, h)
  <1>1. /\ Len(x) \in Nat /\ x \in Seq(Nat \X Nat)
    BY SpacedIs DEF Spaced
  <1>2. i \in 0 .. Len(x)
    BY EndedBeforeIs
  <1>3. j \in i .. Len(x)
    BY <1>2, JoinedIs
  <1>4. h \in Nat \X Nat
    <2>1. h = <<h[1], h[2]>> /\ h[1] \in Nat /\ h[2] \in Nat
      BY <1>2, <1>3, HullIs
    <2>2. QED
      BY <2>1
  <1>5. i \in Nat /\ j \in Nat /\ i <= j /\ j <= Len(x)
    BY <1>1, <1>2, <1>3
  <1>6. y = Splice(x, i, j, h)
    <2>1. ~(start >= end)
      OBVIOUS
    <2>2. QED
      BY <2>1, Zenon DEF Insert, Splice
  <1>7. PICK S : S = Nat \X Nat
    OBVIOUS
  <1>8. /\ x \in Seq(S) /\ h \in S
    BY <1>1, <1>4, <1>7
  <1>9. y \in Seq(S) /\ Spliced(y, x, i, j, h)
    BY <1>5, <1>6, <1>8, SpliceIs
  <1>10. QED
    BY <1>2, <1>3, <1>4, <1>7, <1>9

LEMMA InsertSpaced ==
    ASSUME NEW x, Spaced(x), NEW start \in Nat, NEW end \in Nat
    PROVE  Spaced(Insert(x, start, end))
  <1>1. CASE start >= end
    BY <1>1 DEF Insert
  <1>2. CASE start < end
    <2>1. PICK i : i = EndedBefore(x, start)
      OBVIOUS
    <2>2. PICK j : j = JoinedTo(x, i, start, end)
      OBVIOUS
    <2>3. PICK h, y : h = Hull(x, i, j, start, end) /\ y = Insert(x, start, end)
      OBVIOUS
    <2>4. /\ Len(x) \in Nat /\ \A k \in 1 .. Len(x) : x[k][1] \in Nat /\ x[k][2] \in Nat
      BY SpacedIs
    <2>5. y \in Seq(Nat \X Nat)
      BY <1>2, <2>1, <2>2, <2>3, InsertedIs
    <2>6. Spliced(y, x, i, j, h)
      BY <1>2, <2>1, <2>2, <2>3, InsertedIs
    <2>7. i \in 0 .. Len(x) /\ j \in i .. Len(x) /\ Len(y) = Len(x) - (j - i) + 1
      BY <1>2, <2>1, <2>2, <2>3, <2>6, InsertedIs DEF Spliced
    <2>8. /\ y[i + 1] = h
          /\ \A k \in 1 .. i : y[k] = x[k]
          /\ \A k \in i + 2 .. Len(y) : y[k] = x[k + (j - i) - 1]
      BY <2>6 DEF Spliced
    <2>9. /\ i \in Nat /\ j \in Nat /\ i <= j /\ j <= Len(x) /\ Len(y) \in Nat
      <3>1. i \in Nat /\ i <= Len(x)
        BY <2>4, <2>7
      <3>2. j \in Nat /\ i <= j /\ j <= Len(x)
        BY <2>4, <2>7, <3>1
      <3>3. QED
        BY <2>4, <2>7, <3>1, <3>2
    <2>10. ASSUME NEW k \in 1 .. i PROVE k \in 1 .. Len(x) /\ x[k][2] < start
      <3>1. k \in 1 .. Len(x) /\ k <= i
        BY <2>4, <2>9
      <3>2. QED
        BY <2>1, <3>1, EndedBeforeIs
    <2>11. /\ h[1] \in Nat /\ h[2] \in Nat /\ h[1] <= start /\ end <= h[2]
           /\ h[1] = start \/ \E k \in i + 1 .. j : h[1] = x[k][1]
      BY <2>2, <2>3, <2>7, HullIs
    <2>12. \A k \in 1 .. i : x[k][2] < h[1]
      <3>1. ASSUME NEW k \in 1 .. i, NEW n \in i + 1 .. j PROVE x[k][2] < x[n][1]
        <4>1. k \in 1 .. Len(x) /\ n \in 1 .. Len(x) /\ k < n
          BY <2>4, <2>9
        <4>2. QED
          BY <4>1 DEF Spaced
      <3>2. QED
        BY <2>10, <2>11, <3>1
    <2>13. \A n \in j + 1 .. Len(x) : h[2] < x[n][1]
      <3>1. CASE j = Len(x)
        BY <2>4, <3>1
      <3>2. CASE j < Len(x)
        <4>1. j + 1 \in 1 .. Len(x) /\ x[j + 1][1] > h[2]
          <5>1. j = Len(x) \/ x[j + 1][1] > Hull(x, i, j, start, end)[2]
            BY <2>2, <2>7, JoinedIs
          <5>2. QED
            BY <2>3, <2>4, <2>9, <3>2, <5>1
        <4>2. ASSUME NEW n \in j + 1 .. Len(x), n # j + 1 PROVE h[2] < x[n][1]
          <5>1. n \in 1 .. Len(x) /\ j + 1 < n
            BY <2>4, <2>9, <4>2
          <5>2. x[j + 1][1] < x[j + 1][2] /\ x[j + 1][2] < x[n][1]
            BY <4>1, <5>1 DEF Spaced
          <5>3. QED
            BY <2>4, <2>11, <4>1, <5>1, <5>2
        <4>3. QED
          BY <2>4, <2>11, <4>1, <4>2
      <3>3. QED
        BY <2>4, <2>9, <3>1, <3>2
    <2>14. \A k \in 1 .. Len(y) : \/ k \in 1 .. i /\ y[k] = x[k]
                                  \/ k = i + 1 /\ y[k] = h
                                  \/ /\ k > i + 1 /\ k + (j - i) - 1 \in j + 1 .. Len(x)
                                     /\ y[k] = x[k + (j - i) - 1]
      <3>1. ASSUME NEW k \in 1 .. Len(y), k > i + 1
            PROVE  k + (j - i) - 1 \in j + 1 .. Len(x) /\ k \in i + 2 .. Len(y)
        BY <2>4, <2>7, <2>9, <3>1
      <3>2. \A k \in 1 .. Len(y) : k \in 1 .. i \/ k = i + 1 \/ k > i + 1
        BY <2>9
      <3>3. QED
        BY <2>8, <3>1, <3>2
    <2>15. ASSUME NEW k \in 1 .. Len(y) PROVE y[k][1] < y[k][2]
      <3>1. \A n \in 1 .. Len(x) : x[n][1] < x[n][2]
        BY DEF Spaced
      <3>2. h[1] < h[2]
        BY <1>2, <2>11
      <3>3. \A n \in j + 1 .. Len(x) : n \in 1 .. Len(x)
        BY <2>4, <2>9
      <3>4. QED
        BY <2>10, <2>14, <2>15, <3>1, <3>2, <3>3
    <2>16. ASSUME NEW k \in 1 .. Len(y), NEW n \in 1 .. Len(y), k < n PROVE y[k][2] < y[n][1]
      <3>1. \A m, l \in 1 .. Len(x) : m < l => x[m][2] < x[l][1]
        BY DEF Spaced
      <3>2. \A m \in j + 1 .. Len(x) : m \in 1 .. Len(x) /\ \A l \in 1 .. i : l < m
        BY <2>4, <2>9
      <3>3. CASE k \in 1 .. i /\ n \in 1 .. i
        BY <2>8, <2>10, <2>16, <3>1, <3>3
      <3>4. CASE k \in 1 .. i /\ n = i + 1
        BY <2>8, <2>12, <3>4
      <3>5. CASE k \in 1 .. i /\ n > i + 1
        <4>1. PICK q \in j + 1 .. Len(x) : y[n] = x[q]
          BY <2>9, <2>14, <3>5
        <4>2. k \in 1 .. Len(x) /\ q \in 1 .. Len(x) /\ k < q /\ y[k] = x[k]
          BY <2>8, <2>10, <3>2, <3>5
        <4>3. QED
          BY <3>1, <4>1, <4>2
      <3>6. CASE k = i + 1 /\ n > i + 1
        BY <2>9, <2>13, <2>14, <3>6
      <3>7. CASE k > i + 1 /\ n > i + 1
        <4>1. PICK p, q \in j + 1 .. Len(x) : p < q /\ y[k] = x[p] /\ y[n] = x[q]
          <5>1. /\ k + (j - i) - 1 \in j + 1 .. Len(x) /\ y[k] = x[k + (j - i) - 1]
                /\ n + (j - i) - 1 \in j + 1 .. Len(x) /\ y[n] = x[n + (j - i) - 1]
            BY <2>9, <2>14, <3>7
          <5>2. k + (j - i) - 1 < n + (j - i) - 1
            BY <2>9, <2>16
          <5>3. QED
            BY <5>1, <5>2
        <4>2. QED
          BY <3>1, <3>2, <4>1
      <3>8. QED
        BY <2>9, <2>16, <3>3, <3>4, <3>5, <3>6, <3>7
    <2>17. QED
      BY <2>3, <2>5, <2>15, <2>16 DEF Spaced
  <1>3. QED
    BY <1>1, <1>2

LEMMA InsertBytes ==
    ASSUME NEW x, Spaced(x), NEW start \in Nat, NEW end \in Nat
    PROVE  Bytes(Insert(x, start, end)) = Bytes(x) \cup (start .. end - 1)
  <1>1. CASE start >= end
    <2>1. start .. end - 1 = {}
      BY <1>1
    <2>2. QED
      BY <1>1, <2>1 DEF Insert
  <1>2. CASE start < end
    <2>1. PICK i : i = EndedBefore(x, start)
      OBVIOUS
    <2>2. PICK j : j = JoinedTo(x, i, start, end)
      OBVIOUS
    <2>3. PICK h, y : h = Hull(x, i, j, start, end) /\ y = Insert(x, start, end)
      OBVIOUS
    <2>4. Len(x) \in Nat
      BY SpacedIs
    <2>5. Spliced(y, x, i, j, h)
      BY <1>2, <2>1, <2>2, <2>3, InsertedIs
    <2>6. i \in 0 .. Len(x) /\ j \in i .. Len(x)
      BY <1>2, <2>1, <2>2, <2>3, InsertedIs
    <2>7. /\ i \in Nat /\ i <= Len(x)
      BY <2>4, <2>6
    <2>8. /\ j \in Nat /\ i <= j /\ j <= Len(x)
      BY <2>4, <2>6, <2>7
    <2>9. Len(y) = Len(x) - (j - i) + 1
      BY <2>5 DEF Spliced
    <2>10. /\ y[i + 1] = h
           /\ \A k \in 1 .. i : y[k] = x[k]
           /\ \A k \in i + 2 .. Len(y) : y[k] = x[k + (j - i) - 1]
      BY <2>5 DEF Spliced
    <2>11. h[1] .. h[2] - 1 = (start .. end - 1) \cup UNION {x[k][1] .. x[k][2] - 1 : k \in i + 1 .. j}
      BY <1>2, <2>1, <2>2, <2>3, HullBytes
    <2>12. ASSUME NEW b \in Bytes(y) PROVE b \in Bytes(x) \cup (start .. end - 1)
      <3>1. PICK k \in 1 .. Len(y) : b \in y[k][1] .. y[k][2] - 1
        BY DEF Bytes
      <3>2. k \in 1 .. i \/ k = i + 1 \/ k \in i + 2 .. Len(y)
        BY <2>4, <2>7, <2>8, <2>9
      <3>3. CASE k \in 1 .. i
        <4>1. k \in 1 .. Len(x) /\ y[k] = x[k]
          BY <2>4, <2>7, <2>10, <3>3
        <4>2. QED
          BY <3>1, <4>1 DEF Bytes
      <3>4. CASE k = i + 1
        <4>1. b \in start .. end - 1 \/ \E n \in i + 1 .. j : b \in x[n][1] .. x[n][2] - 1
          BY <2>10, <2>11, <3>1, <3>4
        <4>2. \A n \in i + 1 .. j : n \in 1 .. Len(x)
          BY <2>4, <2>7, <2>8
        <4>3. QED
          BY <4>1, <4>2 DEF Bytes
      <3>5. CASE k \in i + 2 .. Len(y)
        <4>1. PICK n : n = k + (j - i) - 1
          OBVIOUS
        <4>2. n \in 1 .. Len(x)
          BY <2>4, <2>7, <2>8, <2>9, <3>5, <4>1
        <4>3. y[k] = x[n]
          BY <2>10, <3>5, <4>1
        <4>4. QED
          BY <3>1, <4>2, <4>3 DEF Bytes
      <3>6. QED
        BY <3>2, <3>3, <3>4, <3>5
    <2>13. i + 1 \in 1 .. Len(y)
      BY <2>4, <2>7, <2>8, <2>9
    <2>14. h[1] .. h[2] - 1 \subseteq Bytes(y)
      BY <2>10, <2>13 DEF Bytes
    <2>15. ASSUME NEW b \in Bytes(x) PROVE b \in Bytes(y)
      <3>1. PICK k \in 1 .. Len(x) : b \in x[k][1] .. x[k][2] - 1
        BY DEF Bytes
      <3>2. k \in 1 .. i \/ k \in i + 1 .. j \/ k \in j + 1 .. Len(x)
        BY <2>4, <2>7, <2>8
      <3>3. CASE k \in 1 .. i
        <4>1. k \in 1 .. Len(y) /\ y[k] = x[k]
          BY <2>4, <2>7, <2>8, <2>9, <2>10, <3>3
        <4>2. QED
          BY <3>1, <4>1 DEF Bytes
      <3>4. CASE k \in i + 1 .. j
        BY <2>11, <2>14, <3>1, <3>4
      <3>5. CASE k \in j + 1 .. Len(x)
        <4>1. PICK n : n = k - (j - i) + 1
          OBVIOUS
        <4>2. n \in 1 .. Len(y) /\ n \in i + 2 .. Len(y) /\ n + (j - i) - 1 = k
          BY <2>4, <2>7, <2>8, <2>9, <3>5, <4>1
        <4>3. y[n] = x[k]
          BY <2>10, <4>2
        <4>4. QED
          BY <3>1, <4>2, <4>3 DEF Bytes
      <3>6. QED
        BY <3>2, <3>3, <3>4, <3>5
    <2>16. start .. end - 1 \subseteq Bytes(y)
      BY <2>11, <2>14
    <2>17. QED
      BY <2>3, <2>12, <2>15, <2>16
  <1>3. QED
    BY <1>1, <1>2

LEMMA NothingIs == Spaced(NoExtents) /\ Bytes(NoExtents) = {}
  <1>1. NoExtents \in Seq(Nat \X Nat) /\ Len(NoExtents) = 0
    BY DEF NoExtents
  <1>2. 1 .. Len(NoExtents) = {}
    BY <1>1
  <1>3. QED
    BY <1>1, <1>2 DEF Spaced, Bytes

-----------------------------------------------------------------------------
(* Judgements *)

Refusals == {"NotVmdk", "Corrupt", "Unsupported"}

\* A judgement is "ok" when no check applies, and otherwise the error of one that does.
LEMMA JudgeIs ==
    ASSUME NEW n \in Nat, NEW checks, DOMAIN checks = 1 .. n,
           \A i \in 1 .. n : checks[i][1] => checks[i][2] \in Refusals
    PROVE  /\ Judge(checks) \in Refusals \cup {"ok"}
           /\ Judge(checks) = "ok" => \A i \in 1 .. n : ~checks[i][1]
  <1>1. PICK T : T = {i \in DOMAIN checks : checks[i][1]}
    OBVIOUS
  <1>2. CASE T = {}
    BY <1>1, <1>2 DEF Judge
  <1>3. CASE T # {}
    <2>1. T \subseteq Nat
      BY <1>1
    <2>2. Min(T) \in T
      BY <1>3, <2>1, MinIs
    <2>3. Judge(checks) = checks[Min(T)][2]
      BY <1>1, <1>3 DEF Judge
    <2>4. QED
      BY <1>1, <2>2, <2>3 DEF Refusals
  <1>4. QED
    BY <1>2, <1>3

\* What parse has let through.
Parsed(h) == h.grainSize # 0 /\ h.grainSize * SectorBytes <= MaxWord /\ h.gtes # 0

LEMMA ParseHeaderIs ==
    ASSUME NEW h
    PROVE  /\ ParseHeader(h) \in Refusals \cup {"ok"}
           /\ h \in SparseHeaders /\ ParseHeader(h) = "ok" => Parsed(h)
  <1>1. PICK c : c = <<
          <<h.magic # "KDMV", "NotVmdk">>,
          <<h.version \notin {1, 2, 3}, "Unsupported">>,
          <<h.grainSize = 0, "Corrupt">>,
          <<h.grainSize * SectorBytes > MaxWord, "Corrupt">>,
          <<h.gtes = 0 \/ h.gtes > MaxGtes, "Corrupt">>,
          <<h.version = 3 /\ h.compress = 0, "Corrupt">>,
          <<h.version # 3 /\ h.compress = 1, "Corrupt">>,
          <<h.compress \notin {0, 1}, "Unsupported">> >>
    OBVIOUS
  <1>2. DOMAIN c = 1 .. 8 /\ \A i \in 1 .. 8 : c[i][2] \in Refusals
    BY <1>1 DEF Refusals
  <1>3. ParseHeader(h) = Judge(c)
    BY <1>1, Zenon DEF ParseHeader
  <1>4. /\ Judge(c) \in Refusals \cup {"ok"}
        /\ Judge(c) = "ok" => \A i \in 1 .. 8 : ~c[i][1]
    BY <1>2, JudgeIs
  <1>5. /\ c[3][1] = (h.grainSize = 0) /\ c[4][1] = (h.grainSize * SectorBytes > MaxWord)
        /\ c[5][1] = (h.gtes = 0 \/ h.gtes > MaxGtes)
    BY <1>1
  <1>6. ASSUME h \in SparseHeaders, ParseHeader(h) = "ok" PROVE Parsed(h)
    <2>1. ~c[3][1] /\ ~c[4][1] /\ ~c[5][1]
      BY <1>3, <1>4, <1>6
    <2>2. h.grainSize # 0 /\ ~(h.grainSize * SectorBytes > MaxWord) /\ h.gtes # 0
      BY <1>5, <2>1
    <2>3. h.grainSize \in Nat
      BY <1>6, OpenAssumption DEF SparseHeaders
    <2>4. h.grainSize * SectorBytes \in Nat
      BY <2>3, OpenAssumption
    <2>5. h.grainSize * SectorBytes <= MaxWord
      BY <2>2, <2>4, OpenAssumption
    <2>6. QED
      BY <2>2, <2>5 DEF Parsed
  <1>7. QED
    BY <1>3, <1>4, <1>6

LEMMA ParseDescriptorIs == ASSUME NEW t PROVE ParseDescriptor(t) \in Refusals \cup {"ok"}
  <1>1. PICK c : c = <<
          <<t.createType = "absent", "Corrupt">>,
          <<t.createType \notin {"monolithicSparse", "streamOptimized"}, "Unsupported">>,
          <<DeclaresParent(t), "Unsupported">> >>
    OBVIOUS
  <1>2. DOMAIN c = 1 .. 3 /\ \A i \in 1 .. 3 : c[i][2] \in Refusals
    BY <1>1 DEF Refusals
  <1>3. ParseDescriptor(t) = Judge(c)
    BY <1>1, Zenon DEF ParseDescriptor
  <1>4. QED
    BY <1>2, <1>3, JudgeIs

LEMMA AgreesIs == ASSUME NEW t, NEW h PROVE Agrees(t, h) \in Refusals \cup {"ok"}
  <1>1. PICK c : c = <<
          <<t.extents = <<>>, "Corrupt">>,
          <<Len(t.extents) > 1, "Unsupported">>,
          <<Len(t.extents) = 1 /\ t.extents[1].kind # "SPARSE", "Unsupported">>,
          <<(t.createType = "streamOptimized") # IsStream(h), "Corrupt">>,
          <<Len(t.extents) = 1 /\ t.extents[1].sectors # h.capacity, "Corrupt">> >>
    OBVIOUS
  <1>2. DOMAIN c = 1 .. 5 /\ \A i \in 1 .. 5 : c[i][2] \in Refusals
    BY <1>1 DEF Refusals
  <1>3. Agrees(t, h) = Judge(c)
    BY <1>1, Zenon DEF Agrees
  <1>4. QED
    BY <1>2, <1>3, JudgeIs

LEMMA JudgeHeaderIs ==
    /\ JudgeHeader(header) \in Refusals \cup {"ok"}
    /\ header \in SparseHeaders /\ JudgeHeader(header) = "ok" =>
          Parsed(header) /\ ~(writable /\ IsStream(header))
  <1>1. PICK h, p : h = header /\ p = ParseHeader(h)
    OBVIOUS
  <1>2. PICK c : c = <<
          <<p # "ok", p>>,
          <<IsStream(h) /\ h.grainSize > MaxStreamGrain, "Corrupt">>,
          <<writable /\ IsStream(h), "Unsupported">>,
          <<IsStream(h) /\ h.gdOffset = InFooter /\ file.size < 2 * SectorBytes, "Corrupt">> >>
    OBVIOUS
  <1>3. p \in Refusals \cup {"ok"} /\ (header \in SparseHeaders /\ p = "ok" => Parsed(header))
    BY <1>1, ParseHeaderIs
  <1>4. DOMAIN c = 1 .. 4 /\ \A i \in 1 .. 4 : c[i][1] => c[i][2] \in Refusals
    <2>1. c[1][1] <=> p # "ok"
      BY <1>2
    <2>2. c[1][2] = p /\ \A i \in 2 .. 4 : c[i][2] \in Refusals
      BY <1>2 DEF Refusals
    <2>3. DOMAIN c = 1 .. 4
      BY <1>2
    <2>4. QED
      BY <1>3, <2>1, <2>2, <2>3 DEF Refusals
  <1>5. JudgeHeader(h) = Judge(c)
    BY <1>1, <1>2, Zenon DEF JudgeHeader
  <1>6. /\ Judge(c) \in Refusals \cup {"ok"}
        /\ Judge(c) = "ok" => \A i \in 1 .. 4 : ~c[i][1]
    BY <1>4, JudgeIs
  <1>7. (~c[1][1] => p = "ok") /\ (~c[3][1] => ~(writable /\ IsStream(h)))
    BY <1>2
  <1>8. Judge(c) = "ok" => ~c[1][1] /\ ~c[3][1]
    BY <1>6
  <1>9. QED
    BY <1>1, <1>3, <1>5, <1>6, <1>7, <1>8, Zenon

LEMMA JudgePlaceIs ==
    ASSUME NEW h
    PROVE  /\ JudgeDescriptorPlace(h) \in Refusals \cup {"ok"}
           /\ JudgeDescriptorPlace(h) = "ok" =>
                InBounds(h.descOffset, h.descSize * SectorBytes, file.size)
  <1>1. PICK c : c = <<
          <<h.descOffset = 0 \/ h.descSize = 0, "Unsupported">>,
          <<~InBounds(h.descOffset, h.descSize * SectorBytes, file.size), "Corrupt">> >>
    OBVIOUS
  <1>2. DOMAIN c = 1 .. 2 /\ \A i \in 1 .. 2 : c[i][2] \in Refusals
    BY <1>1 DEF Refusals
  <1>3. JudgeDescriptorPlace(h) = Judge(c)
    BY <1>1, Zenon DEF JudgeDescriptorPlace
  <1>4. /\ Judge(c) \in Refusals \cup {"ok"}
        /\ Judge(c) = "ok" => \A i \in 1 .. 2 : ~c[i][1]
    BY <1>2, JudgeIs
  <1>5. ~c[2][1] => InBounds(h.descOffset, h.descSize * SectorBytes, file.size)
    BY <1>1
  <1>6. Judge(c) = "ok" => ~c[2][1]
    BY <1>4
  <1>7. QED
    BY <1>3, <1>4, <1>5, <1>6, Zenon

LEMMA JudgeDescriptorIs ==
    ASSUME NEW t
    PROVE  /\ JudgeDescriptor(t) \in Refusals \cup {"ok"}
           /\ JudgeDescriptor(t) = "ok" => /\ ~(writable /\ t.cid = "unwritable")
                                           /\ InBounds(header.gdOffset, GdBytes(header), file.size)
  <1>1. PICK p, a : p = ParseDescriptor(t) /\ a = Agrees(t, header)
    OBVIOUS
  <1>2. PICK c : c = <<
          <<~t.utf8, "Corrupt">>,
          <<t.blank, "Unsupported">>,
          <<p # "ok", p>>,
          <<a # "ok", a>>,
          <<writable /\ t.cid = "unwritable", "Corrupt">>,
          <<header.gdOffset = 0, "Corrupt">>,
          <<GtCount(header) > MaxEntry, "Corrupt">>,
          <<~InBounds(header.gdOffset, GdBytes(header), file.size), "Corrupt">> >>
    OBVIOUS
  <1>3. DOMAIN c = 1 .. 8 /\ \A i \in 1 .. 8 : c[i][1] => c[i][2] \in Refusals
    <2>1. (c[3][1] <=> p # "ok") /\ (c[4][1] <=> a # "ok")
      BY <1>2
    <2>2. c[3][2] = p /\ c[4][2] = a /\ \A i \in {1, 2, 5, 6, 7, 8} : c[i][2] \in Refusals
      BY <1>2 DEF Refusals
    <2>3. DOMAIN c = 1 .. 8
      BY <1>2
    <2>4. p \in Refusals \cup {"ok"} /\ a \in Refusals \cup {"ok"}
      BY <1>1, ParseDescriptorIs, AgreesIs
    <2>5. QED
      BY <2>1, <2>2, <2>3, <2>4
  <1>4. JudgeDescriptor(t) = Judge(c)
    BY <1>1, <1>2, Zenon DEF JudgeDescriptor
  <1>5. /\ Judge(c) \in Refusals \cup {"ok"}
        /\ Judge(c) = "ok" => \A i \in 1 .. 8 : ~c[i][1]
    BY <1>3, JudgeIs
  <1>6. /\ ~c[5][1] => ~(writable /\ t.cid = "unwritable")
        /\ ~c[8][1] => InBounds(header.gdOffset, GdBytes(header), file.size)
    BY <1>2
  <1>7. Judge(c) = "ok" => ~c[5][1] /\ ~c[8][1]
    BY <1>5
  <1>8. QED
    BY <1>4, <1>5, <1>6, <1>7, Zenon

LEMMA DescribeIs == ASSUME NEW t PROVE Describe(t) \in Refusals
  BY DEF Describe, Refusals

-----------------------------------------------------------------------------
(* Geometry *)

LEMMA CeilDivIs ==
    ASSUME NEW x \in Nat, NEW y \in Nat \ {0}
    PROVE  /\ CeilDiv(x, y) \in Nat
           /\ x <= CeilDiv(x, y) * y /\ CeilDiv(x, y) * y < x + y
  <1>1. PICK q, r : q = (x + y - 1) \div y /\ r = (x + y - 1) % y
    OBVIOUS
  <1>2. x + y - 1 \in Nat
    OBVIOUS
  <1>3. q \in Nat /\ r \in 0 .. y - 1 /\ x + y - 1 = y * q + r
    BY <1>1, <1>2
  <1>4. y * q = q * y /\ q * y \in Nat
    BY <1>3
  <1>5. x <= q * y /\ q * y < x + y
    BY <1>3, <1>4
  <1>6. CeilDiv(x, y) = q
    BY <1>1 DEF CeilDiv
  <1>7. QED
    BY <1>3, <1>5, <1>6

\* Division by y of what lies below a multiple of y.
LEMMA DivBelow ==
    ASSUME NEW y \in Nat \ {0}, NEW a \in Nat, NEW q \in Nat, a < q * y
    PROVE  a \div y \in Nat /\ a \div y < q
  <1>1. PICK d, r : d = a \div y /\ r = a % y
    OBVIOUS
  <1>2. d \in Nat /\ r \in 0 .. y - 1 /\ a = y * d + r
    BY <1>1
  <1>3. ASSUME q <= d PROVE FALSE
    <2>1. PICK k \in Nat : d = q + k
      BY <1>2, <1>3
    <2>2. y * d = y * q + y * k /\ y * k \in Nat /\ y * q = q * y
      BY <2>1
    <2>3. QED
      BY <1>2, <2>2
  <1>4. QED
    BY <1>1, <1>2, <1>3

\* What lies in the last y below a multiple of y.
LEMMA DivLast ==
    ASSUME NEW y \in Nat \ {0}, NEW a \in Nat, NEW q \in Nat, a < q * y, q * y <= a + y
    PROVE  a \div y = q - 1
  <1>1. PICK d, r : d = a \div y /\ r = a % y
    OBVIOUS
  <1>2. d \in Nat /\ r \in 0 .. y - 1 /\ a = y * d + r
    BY <1>1
  <1>3. d < q
    BY <1>1, DivBelow
  <1>4. ASSUME d + 1 < q PROVE FALSE
    <2>1. PICK k \in Nat \ {0} : q = d + 1 + k
      <3>1. q - (d + 1) \in Nat \ {0} /\ q = d + 1 + (q - (d + 1))
        BY <1>2, <1>4
      <3>2. QED
        BY <3>1
    <2>2. q * y = y * d + y + y * k /\ y * k \in Nat \ {0} /\ y * d \in Nat
      BY <1>2, <2>1
    <2>3. QED
      BY <1>2, <2>2
  <1>5. QED
    BY <1>1, <1>2, <1>3, <1>4

LEMMA FieldsAre ==
    ASSUME NEW h \in SparseHeaders
    PROVE  /\ h.capacity \in Nat /\ h.grainSize \in Nat /\ h.gtes \in Nat
           /\ h.descOffset \in Nat /\ h.descSize \in Nat /\ h.overHead \in Nat
           /\ h.gdOffset \in Nat /\ h.rgdOffset \in Nat
  BY OpenAssumption DEF SparseHeaders

LEMMA CountsAre ==
    ASSUME NEW h \in SparseHeaders, Parsed(h)
    PROVE  /\ GtCount(h) \in Nat /\ GdBytes(h) \in Nat /\ GtBytes(h) \in Nat \ {0}
           /\ h.grainSize \in Nat \ {0} /\ h.gtes \in Nat \ {0}
           /\ CeilDiv(h.capacity, h.grainSize) \in Nat
  <1>1. h.grainSize \in Nat \ {0} /\ h.gtes \in Nat \ {0} /\ h.capacity \in Nat
    BY FieldsAre DEF Parsed
  <1>2. CeilDiv(h.capacity, h.grainSize) \in Nat
    BY <1>1, CeilDivIs
  <1>3. GtCount(h) \in Nat
    BY <1>1, <1>2, CeilDivIs DEF GtCount
  <1>4. GdBytes(h) \in Nat
    BY <1>3, OpenAssumption DEF GdBytes
  <1>5. GtBytes(h) \in Nat \ {0}
    <2>1. \A a, b \in Nat \ {0} : a * b \in Nat \ {0}
      OBVIOUS
    <2>2. QED
      BY <1>1, <2>1, OpenAssumption DEF GtBytes
  <1>6. QED
    BY <1>1, <1>2, <1>3, <1>4, <1>5

-----------------------------------------------------------------------------
(* The fixed metadata *)

\* The bytes of a region the reader protects: those of one that the file holds whole.
Held(f, at, sectors) == at + sectors <= MaxWord /\ at + sectors <= f.size \div SectorBytes
RegionBytes(f, at, sectors) == IF Held(f, at, sectors) THEN Span(at, sectors * SectorBytes) ELSE {}

\* What header h and the redundant directory say is protected before any table is.
DirectorySectors(h) == CeilDiv(GdBytes(h), SectorBytes)
FixedBytes(h, f, redundant) ==
    Span(0, SectorBytes)
    \cup RegionBytes(f, h.descOffset, h.descSize)
    \cup RegionBytes(f, h.gdOffset, DirectorySectors(h))
    \cup (IF redundant = None THEN {} ELSE RegionBytes(f, h.rgdOffset, DirectorySectors(h)))

LEMMA AddFixedIs ==
    ASSUME NEW x, Spaced(x), NEW at \in Nat, NEW sectors \in Nat, NEW y, y = AddFixed(x, <<at, sectors>>)
    PROVE  Spaced(y) /\ Bytes(y) = Bytes(x) \cup RegionBytes(file, at, sectors)
  <1>1. PICK s, e : s = at * SectorBytes /\ e = (at + sectors) * SectorBytes
    OBVIOUS
  <1>2. s \in Nat /\ e \in Nat /\ sectors * SectorBytes \in Nat /\ e = s + sectors * SectorBytes
    BY <1>1, OpenAssumption
  <1>3. CASE Held(file, at, sectors)
    <2>1. y = Insert(x, s, e)
      BY <1>1, <1>3 DEF AddFixed, Fits, Held
    <2>2. Span(at, sectors * SectorBytes) = s .. e - 1
      BY <1>1, <1>2 DEF Span
    <2>3. Spaced(y) /\ Bytes(y) = Bytes(x) \cup (s .. e - 1)
      <3>1. s \in Nat /\ e \in Nat
        BY <1>2
      <3>2. Spaced(y)
        BY <2>1, <3>1, InsertSpaced
      <3>3. Bytes(y) = Bytes(x) \cup (s .. e - 1)
        BY <2>1, <3>1, InsertBytes
      <3>4. QED
        BY <3>2, <3>3
    <2>4. RegionBytes(file, at, sectors) = s .. e - 1
      BY <1>3, <2>2 DEF RegionBytes
    <2>5. QED
      BY <2>3, <2>4
  <1>4. CASE ~Held(file, at, sectors)
    BY <1>4 DEF AddFixed, Fits, Held, RegionBytes
  <1>5. QED
    BY <1>3, <1>4

LEMMA GdSectorsIs ==
    ASSUME header \in SparseHeaders, Parsed(header)
    PROVE  DirectorySectors(header) \in Nat /\ DirectorySectors(header) = GdSectors
  BY CountsAre, CeilDivIs, OpenAssumption DEF GdSectors, DirectorySectors

LEMMA FixedIs ==
    ASSUME header \in SparseHeaders, Parsed(header), NEW redundant, NEW x, x = FixedMetadata(redundant)
    PROVE  Spaced(x) /\ Bytes(x) = FixedBytes(header, file, redundant)
  <1>1. PICK d, n, g, r, s :
          /\ d = header.descOffset /\ n = header.descSize /\ g = header.gdOffset
          /\ r = header.rgdOffset /\ s = DirectorySectors(header)
    OBVIOUS
  <1>2. d \in Nat /\ n \in Nat /\ g \in Nat /\ r \in Nat /\ s \in Nat
    BY <1>1, FieldsAre, GdSectorsIs
  <1>3. PICK a : a = Insert(NoExtents, 0, SectorBytes)
    OBVIOUS
  <1>4. Spaced(a) /\ Bytes(a) = Span(0, SectorBytes)
    <2>1. 0 \in Nat /\ SectorBytes \in Nat
      BY OpenAssumption
    <2>2. Spaced(a) /\ Bytes(a) = {} \cup (0 .. SectorBytes - 1)
      <3>1. Spaced(a) /\ Bytes(a) = Bytes(NoExtents) \cup (0 .. SectorBytes - 1)
        BY <1>3, <2>1, NothingIs, InsertSpaced, InsertBytes, Zenon
      <3>2. QED
        BY <3>1, NothingIs, Zenon
    <2>3. Span(0, SectorBytes) = 0 .. SectorBytes - 1
      BY <2>1 DEF Span
    <2>4. QED
      BY <2>2, <2>3
  <1>5. PICK b : b = AddFixed(a, <<d, n>>)
    OBVIOUS
  <1>6. Spaced(b) /\ Bytes(b) = Bytes(a) \cup RegionBytes(file, d, n)
    BY <1>2, <1>4, <1>5, AddFixedIs
  <1>7. PICK c : c = AddFixed(b, <<g, s>>)
    OBVIOUS
  <1>8. Spaced(c) /\ Bytes(c) = Bytes(b) \cup RegionBytes(file, g, s)
    BY <1>2, <1>6, <1>7, AddFixedIs
  <1>9. CASE redundant = None
    <2>1. x = c
      BY <1>1, <1>3, <1>5, <1>7, <1>9, GdSectorsIs DEF FixedMetadata
    <2>2. QED
      BY <1>1, <1>4, <1>6, <1>8, <1>9, <2>1 DEF FixedBytes
  <1>10. CASE redundant # None
    <2>1. x = AddFixed(c, <<r, s>>)
      BY <1>1, <1>3, <1>5, <1>7, <1>10, GdSectorsIs DEF FixedMetadata
    <2>2. Spaced(x) /\ Bytes(x) = Bytes(c) \cup RegionBytes(file, r, s)
      BY <1>2, <1>8, <2>1, AddFixedIs
    <2>3. QED
      BY <1>1, <1>4, <1>6, <1>8, <1>10, <2>2 DEF FixedBytes
  <1>11. QED
    BY <1>9, <1>10

-----------------------------------------------------------------------------
(* The tables *)

\* What lookup_grain asks of a table pointer, of the metadata in x.
Usable(h, f, x, sector) ==
    /\ sector # 0
    /\ sector * SectorBytes + GtBytes(h) <= f.size
    /\ ~Overlaps(x, sector * SectorBytes, sector * SectorBytes + GtBytes(h))

TableBytes(h, sector) == Span(sector, GtBytes(h))

\* The directories' entries, the primary one's first.
Entries(h, redundant) == IF redundant = None THEN GtCount(h) ELSE 2 * GtCount(h)
Entry(h, primary, redundant, k) == IF k < GtCount(h) THEN primary[k] ELSE redundant[k - GtCount(h)]

LEMMA SpanIs ==
    ASSUME NEW at \in Nat, NEW bytes \in Nat \ {0}
    PROVE  /\ at * SectorBytes \in Nat /\ at * SectorBytes + bytes \in Nat
           /\ at * SectorBytes < at * SectorBytes + bytes
           /\ Span(at, bytes) = at * SectorBytes .. (at * SectorBytes + bytes) - 1
  <1>1. at * SectorBytes \in Nat
    BY OpenAssumption
  <1>2. QED
    BY <1>1 DEF Span

\* One turn of the loop.
LEMMA ProtectIs ==
    ASSUME header \in SparseHeaders, Parsed(header), NEW x, NEW acc, Spaced(acc.tables),
           NEW sector \in Nat, NEW new, new = ProtectTable(acc, x, sector)
    PROVE  /\ ~Usable(header, file, x, sector) => new = acc
           /\ Usable(header, file, x, sector) =>
                /\ Spaced(new.tables)
                /\ Bytes(new.tables) = Bytes(acc.tables) \cup TableBytes(header, sector)
                /\ ~new.clash => ~acc.clash /\ TableBytes(header, sector) \cap Bytes(acc.tables) = {}
  <1>1. PICK s, e : s = sector * SectorBytes /\ e = s + GtBytes(header)
    OBVIOUS
  <1>2. s \in Nat /\ e \in Nat /\ s < e /\ TableBytes(header, sector) = s .. e - 1
    BY <1>1, CountsAre, SpanIs DEF TableBytes
  <1>3. CASE ~Usable(header, file, x, sector)
    BY <1>3 DEF ProtectTable, Usable
  <1>4. CASE Usable(header, file, x, sector)
    <2>1. new = [tables |-> Insert(acc.tables, s, e), clash |-> acc.clash \/ Overlaps(acc.tables, s, e)]
      BY <1>1, <1>4 DEF ProtectTable, Usable
    <2>2. new.tables = Insert(acc.tables, s, e)
      BY <2>1
    <2>3. Spaced(new.tables) /\ Bytes(new.tables) = Bytes(acc.tables) \cup (s .. e - 1)
      BY <1>2, <2>2, InsertSpaced, InsertBytes
    <2>4. ~new.clash => ~acc.clash /\ ~Overlaps(acc.tables, s, e)
      <3>1. new.clash = (acc.clash \/ Overlaps(acc.tables, s, e))
        BY <2>1
      <3>2. QED
        BY <3>1, Zenon
    <2>5. ~Overlaps(acc.tables, s, e) => (s .. e - 1) \cap Bytes(acc.tables) = {}
      BY <1>2, OverlapsIs
    <2>6. QED
      BY <1>2, <1>4, <2>3, <2>4, <2>5
  <1>5. QED
    BY <1>3, <1>4

\* f is what the loop over the first n entries computes.
Loop(f, primary, redundant, x, n) ==
    f = [i \in 0 .. n |->
          IF i = 0 THEN [tables |-> NoExtents, clash |-> FALSE]
          ELSE ProtectTable(f[i - 1], x, Entry(header, primary, redundant, i - 1))]

\* The loop has its value at every turn.
LEMMA LoopIs ==
    ASSUME NEW primary, NEW redundant, NEW x, NEW n \in Nat
    PROVE  \E f : Loop(f, primary, redundant, x, n)
  <1>1. PICK S : S = {m \in Nat : \E f : Loop(f, primary, redundant, x, m)}
    OBVIOUS
  <1>2. 0 \in S
    <2>1. PICK f : f = [i \in 0 .. 0 |-> [tables |-> NoExtents, clash |-> FALSE]]
      OBVIOUS
    <2>2. Loop(f, primary, redundant, x, 0)
      BY <2>1 DEF Loop
    <2>3. QED
      BY <1>1, <2>2
  <1>3. ASSUME NEW m \in Nat, m \in S PROVE m + 1 \in S
    <2>1. PICK f : Loop(f, primary, redundant, x, m)
      BY <1>1, <1>3, Zenon
    <2>2. PICK g : g = [i \in 0 .. m + 1 |->
                         IF i = m + 1 THEN ProtectTable(f[m], x, Entry(header, primary, redundant, m)) ELSE f[i]]
      OBVIOUS
    <2>3. ASSUME NEW i \in 0 .. m + 1
          PROVE  g[i] = IF i = 0 THEN [tables |-> NoExtents, clash |-> FALSE]
                        ELSE ProtectTable(g[i - 1], x, Entry(header, primary, redundant, i - 1))
      <3>1. CASE i = 0
        BY <2>1, <2>2, <3>1 DEF Loop
      <3>2. CASE i = m + 1
        <4>1. i - 1 = m /\ m \in 0 .. m + 1 /\ m # m + 1 /\ i # 0
          BY <3>2
        <4>2. g[m] = f[m] /\ g[i] = ProtectTable(f[m], x, Entry(header, primary, redundant, m))
          BY <2>2, <3>2, <4>1
        <4>3. QED
          BY <4>1, <4>2
      <3>3. CASE i # 0 /\ i # m + 1
        <4>1. i \in 0 .. m /\ i - 1 \in 0 .. m /\ i - 1 \in 0 .. m + 1 /\ i - 1 # m + 1
          BY <3>3
        <4>2. g[i] = f[i] /\ g[i - 1] = f[i - 1]
          BY <2>2, <3>3, <4>1
        <4>3. QED
          BY <2>1, <3>3, <4>1, <4>2 DEF Loop
      <3>4. QED
        BY <3>1, <3>2, <3>3
    <2>4. Loop(g, primary, redundant, x, m + 1)
      BY <2>2, <2>3 DEF Loop
    <2>5. m + 1 \in Nat
      OBVIOUS
    <2>6. QED
      BY <1>1, <2>4, <2>5, Zenon
  <1>4. n \in S
    BY <1>2, <1>3, Induct
  <1>5. QED
    BY <1>1, <1>4, Zenon

\* A byte of the table that the directories' k-th entry names, if a lookup would follow it.
Holds(h, f, primary, redundant, x, k, b) ==
    /\ Usable(h, f, x, Entry(h, primary, redundant, k))
    /\ b \in TableBytes(h, Entry(h, primary, redundant, k))

\* What the loop has after its first i entries.
Collected(h, f, primary, redundant, x, acc, i) ==
    /\ Spaced(acc.tables)
    /\ \A b : b \in Bytes(acc.tables) <=> \E k \in 0 .. i - 1 : Holds(h, f, primary, redundant, x, k, b)
    /\ ~acc.clash =>
         \A k, l \in 0 .. i - 1 : \A b :
             Holds(h, f, primary, redundant, x, k, b) /\ Holds(h, f, primary, redundant, x, l, b) => k = l

LEMMA CollectNone ==
    ASSUME NEW primary, NEW redundant, NEW x, NEW acc, acc = [tables |-> NoExtents, clash |-> FALSE]
    PROVE  Collected(header, file, primary, redundant, x, acc, 0)
  <1>1. acc.tables = NoExtents
    OBVIOUS
  <1>2. Spaced(acc.tables) /\ Bytes(acc.tables) = {}
    BY <1>1, NothingIs
  <1>3. 0 .. 0 - 1 = {}
    OBVIOUS
  <1>4. QED
    BY <1>2, <1>3, Zenon DEF Collected

LEMMA CollectOne ==
    ASSUME header \in SparseHeaders, Parsed(header), NEW primary, NEW redundant, NEW x,
           NEW i \in Nat, NEW acc, Collected(header, file, primary, redundant, x, acc, i),
           Entry(header, primary, redundant, i) \in Nat,
           NEW new, new = ProtectTable(acc, x, Entry(header, primary, redundant, i))
    PROVE  Collected(header, file, primary, redundant, x, new, i + 1)
  <1> DEFINE s == Entry(header, primary, redundant, i)
             H(k, b) == Holds(header, file, primary, redundant, x, k, b)
  <1>1. /\ Spaced(acc.tables)
        /\ \A b : b \in Bytes(acc.tables) <=> \E k \in 0 .. i - 1 : H(k, b)
        /\ ~acc.clash => \A k, l \in 0 .. i - 1 : \A b : H(k, b) /\ H(l, b) => k = l
    BY DEF Collected
  <1>2. /\ ~Usable(header, file, x, s) => new = acc
        /\ Usable(header, file, x, s) =>
             /\ Spaced(new.tables)
             /\ Bytes(new.tables) = Bytes(acc.tables) \cup TableBytes(header, s)
             /\ ~new.clash => ~acc.clash /\ TableBytes(header, s) \cap Bytes(acc.tables) = {}
    <2>1. PICK r \in Nat : r = Entry(header, primary, redundant, i)
      OBVIOUS
    <2>2. Spaced(acc.tables) /\ new = ProtectTable(acc, x, r)
      BY <1>1, <2>1
    <2> HIDE DEF H
    <2>3. QED
      BY <2>1, <2>2, ProtectIs
  <1>3. \A b : H(i, b) <=> Usable(header, file, x, s) /\ b \in TableBytes(header, s)
    BY DEF Holds
  <1> HIDE DEF s, H
  <1>4. \A k : k \in 0 .. (i + 1) - 1 <=> (k \in 0 .. i - 1 \/ k = i)
    OBVIOUS
  <1>5. Spaced(new.tables)
    BY <1>1, <1>2
  <1>6. ASSUME NEW b
        PROVE  b \in Bytes(new.tables) <=> \E k \in 0 .. (i + 1) - 1 : H(k, b)
    <2>1. b \in Bytes(new.tables) <=> (b \in Bytes(acc.tables) \/ H(i, b))
      BY <1>2, <1>3
    <2>2. QED
      BY <1>1, <1>4, <2>1
  <1>7. ASSUME ~new.clash, NEW k \in 0 .. (i + 1) - 1, NEW l \in 0 .. (i + 1) - 1, NEW b, H(k, b), H(l, b)
        PROVE  k = l
    <2>1. ~acc.clash
      BY <1>2, <1>7, Zenon
    <2>2. ASSUME NEW m \in 0 .. i - 1, H(m, b) PROVE ~H(i, b)
      BY <1>1, <1>2, <1>3, <1>7, <2>2
    <2>3. QED
      BY <1>1, <1>4, <1>7, <2>1, <2>2
  <1>8. \A k, l \in 0 .. (i + 1) - 1 : \A b : H(k, b) /\ H(l, b) /\ ~new.clash => k = l
    BY <1>7
  <1>9. QED
    BY <1>5, <1>6, <1>8, Zenon DEF Collected, H

\* What the loop has when it is through.
LEMMA TablesAre ==
    ASSUME header \in SparseHeaders, Parsed(header), NEW primary, NEW redundant, NEW x,
           \A k \in 0 .. Entries(header, redundant) - 1 : Entry(header, primary, redundant, k) \in Nat,
           NEW t, t = GrainTables(primary, redundant, x)
    PROVE  Collected(header, file, primary, redundant, x, t, Entries(header, redundant))
  <1>1. PICK n : n = Entries(header, redundant)
    OBVIOUS
  <1>2. n \in Nat
    BY <1>1, CountsAre DEF Entries
  <1>3. \E f : Loop(f, primary, redundant, x, n)
    BY <1>2, LoopIs, Zenon
  <1>4. PICK f : f = CHOOSE g : Loop(g, primary, redundant, x, n)
    OBVIOUS
  <1>5. Loop(f, primary, redundant, x, n)
    BY <1>3, <1>4, Zenon
  <1>6. t = f[n]
    BY <1>1, <1>4, Zenon DEF GrainTables, Loop, Entries, Entry
  <1>7. PICK S : S = {i \in Nat : i <= n => Collected(header, file, primary, redundant, x, f[i], i)}
    OBVIOUS
  <1>8. 0 \in S
    <2>1. f[0] = [tables |-> NoExtents, clash |-> FALSE]
      BY <1>2, <1>5 DEF Loop
    <2>2. QED
      BY <1>7, <2>1, CollectNone
  <1>9. ASSUME NEW i \in Nat, i \in S PROVE i + 1 \in S
    <2>1. CASE i + 1 <= n
      <3>1. i \in 0 .. n - 1 /\ i + 1 \in 0 .. n /\ i + 1 # 0 /\ (i + 1) - 1 = i /\ i <= n
        BY <1>2, <2>1
      <3>2. f[i + 1] = ProtectTable(f[i], x, Entry(header, primary, redundant, i))
        BY <1>5, <3>1 DEF Loop
      <3>3. Collected(header, file, primary, redundant, x, f[i], i)
        BY <1>7, <1>9, <3>1
      <3>4. Entry(header, primary, redundant, i) \in Nat
        BY <1>1, <3>1
      <3>5. Collected(header, file, primary, redundant, x, f[i + 1], i + 1)
        BY <3>2, <3>3, <3>4, CollectOne
      <3>6. QED
        BY <1>7, <3>5
    <2>2. CASE ~(i + 1 <= n)
      BY <1>7, <2>2
    <2>3. QED
      BY <2>1, <2>2
  <1>10. Collected(header, file, primary, redundant, x, f[n], n)
    BY <1>2, <1>7, <1>8, <1>9, Induct
  <1>11. QED
    BY <1>1, <1>6, <1>10

-----------------------------------------------------------------------------
(* The invariant *)

\* The directories an open can end with.
Directories(f, h) == {Directory(f.gd, h), Directory(f.rgd, h)}

\* An image that was opened: header h of file f, w for writing, the directories g
\* and r, and the layout im. The layout is the one the header and the directories
\* describe, and a writer's has every copy and no table named twice.
Described(h, f, g, r) ==
    /\ h \in SparseHeaders /\ Parsed(h) /\ SectorBytes <= f.size
    /\ InBounds(h.descOffset, h.descSize * SectorBytes, f.size)
    /\ InBounds(h.gdOffset, GdBytes(h), f.size)
    /\ g = Directory(f.gd, h)
    /\ r # None => r = Directory(f.rgd, h) /\ InBounds(h.rgdOffset, GdBytes(h), f.size)

Keepable(h, f, r) ==
    ~IsStream(h) /\ f.text.cid # "unwritable" /\ (HasRedundant(h) => r # None)

Laid(h, f, w, g, r, im) ==
    /\ Described(h, f, g, r)
    /\ Spaced(im.fixed) /\ Bytes(im.fixed) = FixedBytes(h, f, r)
    /\ \E t : /\ im.tables = t.tables
              /\ Collected(h, f, g, r, im.fixed, t, Entries(h, r))
              /\ w => ~t.clash
    /\ im.floor \in SectorBytes .. f.size
    /\ im.size = h.capacity * SectorBytes
    /\ w => Keepable(h, f, r)

\* What each read of open_inner finds already settled.
Reached ==
    /\ pc \in {"probe", "describe", "header", "footer", "descriptor", "gd", "rgd", "done"}
    /\ pc \in {"header", "footer", "descriptor", "gd", "rgd"} => SectorBytes <= file.size
    /\ pc \in {"footer", "descriptor", "gd", "rgd"} => Parsed(header) /\ ~(writable /\ IsStream(header))
    /\ pc \in {"descriptor", "gd", "rgd"} =>
         InBounds(header.descOffset, header.descSize * SectorBytes, file.size)
    /\ pc \in {"gd", "rgd"} =>
         /\ InBounds(header.gdOffset, GdBytes(header), file.size)
         /\ ~(writable /\ file.text.cid = "unwritable")
    /\ pc = "rgd" => gd # None /\ InBounds(header.rgdOffset, GdBytes(header), file.size)
    /\ pc \notin {"rgd", "done"} => gd = None

Settled ==
    /\ verdict \in Verdicts \cup {"none"}
    /\ pc = "done" <=> verdict # "none"
    /\ gd # None => gd = Directory(file.gd, header)
    /\ verdict # "opened" => rgd = None /\ image = NoImage
    /\ verdict = "opened" => Laid(header, file, writable, gd, rgd, image)
    /\ failed => verdict = "Io" \/ (pc = "done" /\ ~writable /\ gd # None /\ rgd = None)

Inv ==
    /\ file \in Files /\ writable \in BOOLEAN /\ failed \in BOOLEAN /\ header \in SparseHeaders
    /\ Reached /\ Settled

\* A directory is never mistaken for the absence of one.
LEMMA DirectoryIs ==
    ASSUME NEW d, NEW h \in SparseHeaders, Parsed(h)
    PROVE  /\ Directory(d, h) # None
           /\ DOMAIN Directory(d, h) = 0 .. GtCount(h) - 1
  <1>1. PICK n \in Nat : n = GtCount(h)
    BY CountsAre
  <1>2. PICK e : e = [i \in 0 .. n - 1 |-> IF i \in DOMAIN d THEN d[i] ELSE 0]
    OBVIOUS
  <1>3. e = Directory(d, h)
    BY <1>1, <1>2 DEF Directory
  <1>4. DOMAIN e = 0 .. n - 1 /\ DOMAIN None = 1 .. 1
    BY <1>2 DEF None
  <1>5. (0 .. n - 1) # (1 .. 1)
    <2>1. CASE n = 0
      <3>1. 1 \notin 0 .. n - 1 /\ 1 \in 1 .. 1
        BY <2>1
      <3>2. QED
        BY <3>1
    <2>2. CASE n # 0
      <3>1. 0 \in 0 .. n - 1 /\ 0 \notin 1 .. 1
        BY <2>2
      <3>2. QED
        BY <3>1
    <2>3. QED
      BY <2>1, <2>2
  <1>6. e # None
    BY <1>4, <1>5
  <1>7. QED
    BY <1>1, <1>3, <1>4, <1>6

\* Directory entries are sector numbers.
LEMMA EntriesAre ==
    ASSUME NEW f \in Files, NEW h \in SparseHeaders, Parsed(h), NEW g, NEW r,
           g = Directory(f.gd, h), r = None \/ r = Directory(f.rgd, h),
           NEW k \in 0 .. Entries(h, r) - 1
    PROVE  Entry(h, g, r, k) \in Nat
  <1>1. PICK n \in Nat : n = GtCount(h)
    BY CountsAre
  <1>2. \A d \in {f.gd, f.rgd} : \A i \in DOMAIN d : d[i] \in Nat
    BY FilesAssumption, OpenAssumption
  <1>3. \A d \in {f.gd, f.rgd} : \A i \in 0 .. n - 1 : Directory(d, h)[i] \in Nat
    BY <1>1, <1>2 DEF Directory
  <1>4. CASE k < n
    <2>1. k \in 0 .. n - 1
      BY <1>1, <1>4 DEF Entries
    <2>2. QED
      BY <1>1, <1>3, <1>4, <2>1 DEF Entry
  <1>5. CASE ~(k < n)
    <2>1. r # None /\ k \in 0 .. 2 * n - 1
      BY <1>1, <1>5 DEF Entries
    <2>2. k - n \in 0 .. n - 1
      BY <1>5, <2>1
    <2>3. QED
      BY <1>1, <1>3, <1>5, <2>1, <2>2 DEF Entry
  <1>6. QED
    BY <1>4, <1>5

-----------------------------------------------------------------------------
(* The last part of open_inner *)

\* What ends by the end of the last whole sector ends within the file.
LEMMA WholeIs ==
    ASSUME NEW y \in Nat \ {0}, NEW a \in Nat, NEW q \in Nat, q <= a \div y
    PROVE  q * y <= a
  <1>1. PICK d, r : d = a \div y /\ r = a % y
    OBVIOUS
  <1>2. d \in Nat /\ r \in 0 .. y - 1 /\ a = y * d + r
    BY <1>1
  <1>3. PICK k \in Nat : d = q + k
    <2>1. d - q \in Nat /\ d = q + (d - q)
      BY <1>1, <1>2
    <2>2. QED
      BY <2>1
  <1>4. y * d = q * y + y * k /\ y * k \in Nat /\ q * y \in Nat
    BY <1>3
  <1>5. QED
    BY <1>2, <1>4

LEMMA TimesKeeps ==
    ASSUME NEW y \in Nat, NEW p \in Nat, NEW q \in Nat, p <= q
    PROVE  p * y \in Nat /\ q * y \in Nat /\ p * y <= q * y
  <1>1. PICK k \in Nat : q = p + k
    <2>1. q - p \in Nat /\ q = p + (q - p)
      OBVIOUS
    <2>2. QED
      BY <2>1
  <1>2. q * y = p * y + k * y /\ k * y \in Nat /\ p * y \in Nat
    BY <1>1
  <1>3. QED
    BY <1>2

\* What ends within the file's last, possibly partial, sector ends by the end of it.
LEMMA WithinIs ==
    ASSUME NEW y \in Nat \ {0}, NEW a \in Nat, NEW n \in Nat
    PROVE  /\ a \div y \in Nat /\ a \div y <= a
           /\ n * y <= a => n <= a \div y
           /\ a % y = 0 /\ n * y < a + y => n <= a \div y
  <1>1. PICK d, r : d = a \div y /\ r = a % y
    OBVIOUS
  <1>2. d \in Nat /\ r \in 0 .. y - 1 /\ a = y * d + r
    BY <1>1
  <1>3. y * d = d * y /\ d * y \in Nat
    BY <1>2
  <1>4. d <= d * y
    <2>1. PICK k \in Nat : y = 1 + k
      <3>1. y - 1 \in Nat /\ y = 1 + (y - 1)
        OBVIOUS
      <3>2. QED
        BY <3>1
    <2>2. d * y = d + d * k /\ d * k \in Nat
      BY <1>2, <2>1
    <2>3. QED
      BY <1>2, <2>2
  <1>5. ASSUME n * y < d * y + y PROVE n <= d
    <2>1. ASSUME d + 1 <= n PROVE FALSE
      <3>1. (d + 1) * y <= n * y
        BY <1>2, <2>1, TimesKeeps
      <3>2. (d + 1) * y = d * y + y /\ n * y \in Nat
        BY <1>2
      <3>3. QED
        BY <1>3, <1>5, <3>1, <3>2
    <2>2. QED
      BY <1>2, <2>1
  <1>6. n * y \in Nat
    OBVIOUS
  <1>7. n * y <= a => n * y < d * y + y
    BY <1>2, <1>3, <1>6
  <1>8. a % y = 0 /\ n * y < a + y => n * y < d * y + y
    BY <1>1, <1>2, <1>3, <1>6
  <1>9. QED
    BY <1>1, <1>2, <1>3, <1>4, <1>5, <1>7, <1>8

LEMMA FloorIs ==
    ASSUME file.size \in Nat, SectorBytes <= file.size, header \in SparseHeaders
    PROVE  Floor \in SectorBytes .. file.size
  <1>1. PICK o, s, w : /\ o = header.overHead /\ s = file.size
                       /\ w = IF Fits(header.overHead, 0) THEN header.overHead ELSE 0
    OBVIOUS
  <1>2. o \in Nat /\ s \in Nat /\ SectorBytes \in Nat \ {0}
    BY <1>1, FieldsAre, OpenAssumption
  <1>3. w \in Nat /\ w * SectorBytes <= s
    <2>1. CASE Fits(header.overHead, 0)
      <3>1. o <= s \div SectorBytes
        BY <1>1, <1>2, <2>1 DEF Fits
      <3>2. o * SectorBytes <= s
        BY <1>2, <3>1, WholeIs
      <3>3. QED
        BY <1>1, <1>2, <2>1, <3>2
    <2>2. CASE ~Fits(header.overHead, 0)
      BY <1>1, <1>2, <2>2
    <2>3. QED
      BY <2>1, <2>2
  <1>4. PICK m : m = Max({1, w})
    OBVIOUS
  <1>5. (m = 1 \/ m = w) /\ 1 <= m
    <2>1. {1, w} \subseteq Nat /\ 1 \in {1, w}
      BY <1>3
    <2>2. w + 1 \in Nat /\ \A n \in {1, w} : n <= w + 1
      BY <1>3
    <2>3. m \in {1, w} /\ 1 <= m
      BY <1>4, <2>1, <2>2, MaxIs
    <2>4. QED
      BY <2>3
  <1>6. m * SectorBytes \in SectorBytes .. s
    <2>1. CASE m = 1
      BY <1>1, <1>2, <2>1
    <2>2. CASE m = w
      <3>1. PICK k \in Nat : w = 1 + k
        <4>1. w - 1 \in Nat /\ w = 1 + (w - 1)
          BY <1>3, <1>5, <2>2
        <4>2. QED
          BY <4>1
      <3>2. w * SectorBytes = SectorBytes + k * SectorBytes /\ k * SectorBytes \in Nat
        BY <1>2, <3>1
      <3>3. QED
        BY <1>2, <1>3, <2>2, <3>2
    <2>3. QED
      BY <1>5, <2>1, <2>2
  <1>7. Floor = m * SectorBytes
    BY <1>1, <1>4 DEF Floor
  <1>8. QED
    BY <1>1, <1>6, <1>7

\* It ends in a refusal, or in the layout the directories describe.
LEMMA FinishIs ==
    ASSUME file \in Files, NEW primary, NEW redundant,
           Described(header, file, primary, redundant),
           writable => Keepable(header, file, redundant),
           Finish(primary, redundant)
    PROVE  \/ /\ pc' = "done" /\ verdict' \in Refusals
              /\ UNCHANGED <<header, gd, rgd, image>>
           \/ /\ pc' = "done" /\ verdict' = "opened" /\ header' = header
              /\ gd' = primary /\ rgd' = redundant
              /\ Laid(header, file, writable, primary, redundant, image')
  <1>1. PICK x : x = FixedMetadata(redundant)
    OBVIOUS
  <1>2. PICK t : t = GrainTables(primary, redundant, x)
    OBVIOUS
  <1>3. PICK n : n = header.capacity * SectorBytes
    OBVIOUS
  <1>4. PICK c : c = <<<<n > MaxWord, "Corrupt">>, <<writable /\ t.clash, "Corrupt">> >>
    OBVIOUS
  <1>5. DOMAIN c = 1 .. 2 /\ \A i \in 1 .. 2 : c[i][2] \in Refusals
    BY <1>4 DEF Refusals
  <1>6. /\ Judge(c) \in Refusals \cup {"ok"}
        /\ Judge(c) = "ok" => \A i \in 1 .. 2 : ~c[i][1]
    BY <1>5, JudgeIs
  <1>7. Judge(c) = "ok" => ~(writable /\ t.clash)
    <2>1. c[2][1] <=> writable /\ t.clash
      BY <1>4
    <2>2. QED
      BY <1>6, <2>1
  <1>8. IF Judge(c) = "ok"
        THEN /\ gd' = primary /\ rgd' = redundant
             /\ image' = [floor |-> Floor, fixed |-> x, tables |-> t.tables, size |-> n]
             /\ pc' = "done" /\ verdict' = "opened" /\ UNCHANGED header
        ELSE End(Judge(c))
    BY <1>1, <1>2, <1>3, <1>4, Zenon DEF Finish, Unless
  <1>9. CASE Judge(c) # "ok"
    BY <1>6, <1>8, <1>9 DEF End
  <1>10. CASE Judge(c) = "ok"
    <2>1. /\ header \in SparseHeaders /\ Parsed(header) /\ SectorBytes <= file.size
          /\ primary = Directory(file.gd, header)
          /\ redundant = None \/ redundant = Directory(file.rgd, header)
      BY DEF Described
    <2>2. file.size \in Nat
      BY FilesAssumption, OpenAssumption
    <2>3. Spaced(x) /\ Bytes(x) = FixedBytes(header, file, redundant)
      BY <1>1, <2>1, FixedIs
    <2>4. \A k \in 0 .. Entries(header, redundant) - 1 : Entry(header, primary, redundant, k) \in Nat
      BY <2>1, EntriesAre
    <2>5. Collected(header, file, primary, redundant, x, t, Entries(header, redundant))
      BY <1>2, <2>1, <2>4, TablesAre
    <2>6. Floor \in SectorBytes .. file.size
      BY <2>1, <2>2, FloorIs
    <2>7. image'.fixed = x /\ image'.tables = t.tables /\ image'.floor = Floor /\ image'.size = n
      BY <1>8, <1>10
    <2>8. Laid(header, file, writable, primary, redundant, image')
      BY <1>3, <1>7, <1>10, <2>3, <2>5, <2>6, <2>7, Zenon DEF Laid
    <2>9. QED
      BY <1>8, <1>10, <2>8
  <1>11. QED
    BY <1>9, <1>10

-----------------------------------------------------------------------------
(* Every step keeps the invariant *)

LEMMA InitIs == ASSUME Init PROVE Inv
  <1>1. /\ file \in Files /\ writable \in BOOLEAN /\ failed = FALSE /\ header = file.header
        /\ pc = "probe" /\ verdict = "none" /\ gd = None /\ rgd = None /\ image = NoImage
    BY DEF Init
  <1>2. header \in SparseHeaders
    BY <1>1, FilesAssumption
  <1>3. Reached
    BY <1>1 DEF Reached
  <1>4. Settled
    BY <1>1 DEF Settled, Verdicts
  <1>5. QED
    BY <1>1, <1>2, <1>3, <1>4 DEF Inv

\* A stage that ends with a verdict on the file, or as an I/O error.
LEMMA EndIs ==
    ASSUME Inv, pc # "done", NEW v \in Refusals \cup {"Io"}, End(v), UNCHANGED <<file, writable>>,
           failed' \in BOOLEAN, failed' => v = "Io"
    PROVE  Inv'
  <1>1. /\ pc' = "done" /\ verdict' = v /\ header' = header /\ gd' = gd /\ rgd' = rgd /\ image' = image
        /\ file' = file /\ writable' = writable
    BY DEF End
  <1>2. v \in Verdicts /\ v # "opened" /\ v # "none"
    BY DEF Refusals, Verdicts
  <1>3. verdict = "none" /\ rgd = None /\ image = NoImage /\ (gd # None => gd = Directory(file.gd, header))
    BY DEF Inv, Settled
  <1>4. Reached'
    BY <1>1 DEF Reached
  <1>5. Settled'
    BY <1>1, <1>2, <1>3 DEF Settled
  <1>6. QED
    BY <1>1, <1>4, <1>5 DEF Inv

\* A stage that goes on to the next.
LEMMA GoIs ==
    ASSUME Inv, NEW to, Go(to), to # "done", pc # "done", Reached',
           UNCHANGED <<file, writable, failed, rgd, image>>, header' \in SparseHeaders,
           gd' # None => gd' = Directory(file.gd, header')
    PROVE  Inv'
  <1>1. pc' = to /\ verdict' = verdict
    BY DEF Go
  <1>2. verdict = "none" /\ ~failed /\ rgd = None /\ image = NoImage
    BY DEF Inv, Settled
  <1>3. Settled'
    BY <1>1, <1>2 DEF Settled, Verdicts
  <1>4. QED
    BY <1>3 DEF Inv

LEMMA ProbeIs == ASSUME Inv, Probe PROVE Inv'
  <1>1. pc = "probe" /\ UNCHANGED <<file, writable, failed>> /\ ~failed /\ gd = None
    BY DEF Probe, Inv, Reached, Settled
  <1>2. ASSUME NEW v \in Refusals, End(v) PROVE Inv'
    BY <1>1, <1>2, EndIs DEF Inv
  <1>3. CASE Go("header") /\ SectorBytes <= file.size /\ UNCHANGED <<header, gd, rgd, image>>
    <2>1. Reached'
      BY <1>1, <1>3 DEF Go, Reached
    <2>2. QED
      BY <1>1, <1>3, <2>1, GoIs DEF Inv
  <1>4. CASE Go("describe") /\ UNCHANGED <<header, gd, rgd, image>>
    <2>1. Reached'
      BY <1>1, <1>4 DEF Go, Reached
    <2>2. QED
      BY <1>1, <1>4, <2>1, GoIs DEF Inv
  <1>5. file.size \in Nat
    BY FilesAssumption, OpenAssumption DEF Inv
  <1>6. \/ End("Unsupported") \/ End("NotVmdk")
        \/ Go("header") /\ SectorBytes <= file.size /\ UNCHANGED <<header, gd, rgd, image>>
        \/ Go("describe") /\ UNCHANGED <<header, gd, rgd, image>>
    BY <1>5, OpenAssumption DEF Probe
  <1>7. "Unsupported" \in Refusals /\ "NotVmdk" \in Refusals
    BY DEF Refusals
  <1>8. QED
    BY <1>2, <1>3, <1>4, <1>6, <1>7

LEMMA DescribeFileIs == ASSUME Inv, DescribeFile PROVE Inv'
  <1>1. pc = "describe" /\ UNCHANGED <<file, writable, failed>> /\ ~failed /\ End(Describe(file.text))
    BY DEF DescribeFile, Inv, Settled
  <1>2. PICK v : v = Describe(file.text)
    OBVIOUS
  <1>3. v \in Refusals
    BY <1>2, DescribeIs
  <1>4. QED
    BY <1>1, <1>2, <1>3, EndIs DEF Inv

LEMMA ReadHeaderIs == ASSUME Inv, ReadHeader PROVE Inv'
  <1>1. /\ pc = "header" /\ UNCHANGED <<file, writable, failed>> /\ ~failed /\ gd = None
        /\ header \in SparseHeaders /\ SectorBytes <= file.size
    BY DEF ReadHeader, Inv, Reached, Settled
  <1>2. PICK v, u : v = JudgeHeader(header) /\ u = JudgeDescriptorPlace(header)
    OBVIOUS
  <1>3. v \in Refusals \cup {"ok"} /\ u \in Refusals \cup {"ok"}
    BY <1>2, JudgeHeaderIs, JudgePlaceIs
  <1>4. \/ v # "ok" /\ End(v)
        \/ v = "ok" /\ Go("footer") /\ UNCHANGED <<header, gd, rgd, image>>
        \/ v = "ok" /\ u # "ok" /\ End(u)
        \/ v = "ok" /\ u = "ok" /\ Go("descriptor") /\ UNCHANGED <<header, gd, rgd, image>>
    BY <1>2, Zenon DEF ReadHeader, Unless
  <1>5. ASSUME NEW e \in Refusals, End(e) PROVE Inv'
    BY <1>1, <1>5, EndIs DEF Inv
  <1>6. ASSUME v = "ok" PROVE Parsed(header) /\ ~(writable /\ IsStream(header))
    BY <1>1, <1>2, <1>6, JudgeHeaderIs
  <1>7. ASSUME u = "ok" PROVE InBounds(header.descOffset, header.descSize * SectorBytes, file.size)
    BY <1>2, <1>7, JudgePlaceIs
  <1>8. CASE v = "ok" /\ Go("footer") /\ UNCHANGED <<header, gd, rgd, image>>
    <2>1. Reached'
      BY <1>1, <1>6, <1>8 DEF Go, Reached
    <2>2. QED
      BY <1>1, <1>8, <2>1, GoIs DEF Inv
  <1>9. CASE v = "ok" /\ u = "ok" /\ Go("descriptor") /\ UNCHANGED <<header, gd, rgd, image>>
    <2>1. Reached'
      BY <1>1, <1>6, <1>7, <1>9 DEF Go, Reached
    <2>2. QED
      BY <1>1, <1>9, <2>1, GoIs DEF Inv
  <1>10. QED
    BY <1>3, <1>4, <1>5, <1>8, <1>9

LEMMA ReadFooterIs == ASSUME Inv, ReadFooter PROVE Inv'
  <1>1. /\ pc = "footer" /\ UNCHANGED <<file, writable, failed>> /\ ~failed /\ gd = None
        /\ header \in SparseHeaders /\ SectorBytes <= file.size /\ file \in Files
        /\ Parsed(header) /\ ~(writable /\ IsStream(header))
    BY DEF ReadFooter, Inv, Reached, Settled
  <1>2. PICK f, h : f = file.footer
                    /\ h = [header EXCEPT !.gdOffset = f.gdOffset, !.rgdOffset = f.rgdOffset]
    OBVIOUS
  <1>3. PICK p, u : p = ParseHeader(f) /\ u = JudgeDescriptorPlace(h)
    OBVIOUS
  <1>4. PICK c : c = << <<p # "ok", p>>, <<f.gdOffset = InFooter \/ ~IsStream(f), "Corrupt">> >>
    OBVIOUS
  <1>5. p \in Refusals \cup {"ok"} /\ u \in Refusals \cup {"ok"}
    BY <1>3, ParseHeaderIs, JudgePlaceIs
  <1>6. DOMAIN c = 1 .. 2 /\ \A i \in 1 .. 2 : c[i][1] => c[i][2] \in Refusals
    <2>1. c[1][1] <=> p # "ok"
      BY <1>4
    <2>2. c[1][2] = p /\ c[2][2] \in Refusals /\ DOMAIN c = 1 .. 2
      BY <1>4 DEF Refusals
    <2>3. QED
      BY <1>5, <2>1, <2>2
  <1>7. PICK v : v = Judge(c)
    OBVIOUS
  <1>8. v \in Refusals \cup {"ok"}
    BY <1>6, <1>7, JudgeIs
  <1>9. \/ v # "ok" /\ End(v)
        \/ v = "ok" /\ u # "ok" /\ End(u)
        \/ u = "ok" /\ header' = h /\ Go("descriptor") /\ UNCHANGED <<gd, rgd, image>>
    BY <1>2, <1>3, <1>4, <1>7, Zenon DEF ReadFooter, Unless
  <1>10. ASSUME NEW e \in Refusals, End(e) PROVE Inv'
    BY <1>1, <1>10, EndIs DEF Inv
  <1>11. CASE u = "ok" /\ header' = h /\ Go("descriptor") /\ UNCHANGED <<gd, rgd, image>>
    <2>1. f \in SparseHeaders
      BY <1>1, <1>2, FilesAssumption
    <2>2. h \in SparseHeaders
      BY <1>1, <1>2, <2>1 DEF SparseHeaders
    <2>3. /\ h.grainSize = header.grainSize /\ h.gtes = header.gtes /\ h.compress = header.compress
      BY <1>1, <1>2 DEF SparseHeaders
    <2>4. Parsed(h) /\ ~(writable /\ IsStream(h))
      BY <1>1, <2>3 DEF Parsed, IsStream
    <2>5. InBounds(h.descOffset, h.descSize * SectorBytes, file.size)
      BY <1>3, <1>11, JudgePlaceIs
    <2>6. Reached'
      BY <1>1, <1>11, <2>4, <2>5 DEF Go, Reached
    <2>7. QED
      BY <1>1, <1>11, <2>2, <2>6, GoIs DEF Inv
  <1>12. QED
    BY <1>5, <1>8, <1>9, <1>10, <1>11

LEMMA ReadDescriptorIs == ASSUME Inv, ReadDescriptor PROVE Inv'
  <1>1. /\ pc = "descriptor" /\ UNCHANGED <<file, writable, failed>> /\ ~failed /\ gd = None
        /\ header \in SparseHeaders /\ SectorBytes <= file.size
        /\ Parsed(header) /\ ~(writable /\ IsStream(header))
        /\ InBounds(header.descOffset, header.descSize * SectorBytes, file.size)
    BY DEF ReadDescriptor, Inv, Reached, Settled
  <1>2. PICK v, t : t = file.text /\ v = JudgeDescriptor(t)
    OBVIOUS
  <1>3. /\ v \in Refusals \cup {"ok"}
        /\ v = "ok" => /\ ~(writable /\ t.cid = "unwritable")
                       /\ InBounds(header.gdOffset, GdBytes(header), file.size)
    BY <1>2, JudgeDescriptorIs
  <1>4. \/ v # "ok" /\ End(v)
        \/ v = "ok" /\ Go("gd") /\ UNCHANGED <<header, gd, rgd, image>>
    BY <1>2, Zenon DEF ReadDescriptor, Unless
  <1>5. CASE v # "ok" /\ End(v)
    BY <1>1, <1>3, <1>5, EndIs DEF Inv
  <1>6. CASE v = "ok" /\ Go("gd") /\ UNCHANGED <<header, gd, rgd, image>>
    <2>1. Reached'
      BY <1>1, <1>2, <1>3, <1>6 DEF Go, Reached
    <2>2. QED
      BY <1>1, <1>6, <2>1, GoIs DEF Inv
  <1>7. QED
    BY <1>4, <1>5, <1>6

\* A stage that is the last.
LEMMA FinishKeeps ==
    ASSUME Inv, pc # "done", NEW primary, NEW redundant, Finish(primary, redundant),
           Described(header, file, primary, redundant),
           writable => Keepable(header, file, redundant),
           UNCHANGED <<file, writable>>, failed' \in BOOLEAN, gd = None \/ gd = primary,
           failed' => ~writable /\ gd = primary /\ redundant = None
    PROVE  Inv'
  <1>1. \/ /\ pc' = "done" /\ verdict' \in Refusals
           /\ UNCHANGED <<header, gd, rgd, image>>
        \/ /\ pc' = "done" /\ verdict' = "opened" /\ header' = header
           /\ gd' = primary /\ rgd' = redundant
           /\ Laid(header, file, writable, primary, redundant, image')
    BY FinishIs DEF Inv
  <1>2. /\ verdict = "none" /\ rgd = None /\ image = NoImage
        /\ header \in SparseHeaders /\ file \in Files /\ writable \in BOOLEAN
    BY DEF Inv, Settled
  <1>3. primary = Directory(file.gd, header) /\ primary # None
    BY DirectoryIs DEF Described
  <1>4. Reached'
    BY <1>1 DEF Reached
  <1>5. CASE /\ verdict' \in Refusals /\ UNCHANGED <<header, gd, rgd, image>> /\ pc' = "done"
    <2>1. Settled'
      BY <1>2, <1>3, <1>5 DEF Settled, Refusals, Verdicts
    <2>2. QED
      BY <1>2, <1>4, <1>5, <2>1 DEF Inv
  <1>6. CASE /\ pc' = "done" /\ verdict' = "opened" /\ header' = header
             /\ gd' = primary /\ rgd' = redundant
             /\ Laid(header, file, writable, primary, redundant, image')
    <2>1. Laid(header', file', writable', gd', rgd', image')
      BY <1>6
    <2>2. Settled'
      BY <1>2, <1>3, <1>6, <2>1 DEF Settled, Verdicts
    <2>3. QED
      BY <1>2, <1>4, <1>6, <2>2 DEF Inv
  <1>7. QED
    BY <1>1, <1>5, <1>6

LEMMA ReadGdIs == ASSUME Inv, ReadGd PROVE Inv'
  <1>1. /\ pc = "gd" /\ UNCHANGED <<file, writable, failed>> /\ ~failed /\ gd = None
        /\ header \in SparseHeaders /\ Parsed(header) /\ SectorBytes <= file.size
        /\ ~(writable /\ IsStream(header)) /\ ~(writable /\ file.text.cid = "unwritable")
        /\ InBounds(header.descOffset, header.descSize * SectorBytes, file.size)
        /\ InBounds(header.gdOffset, GdBytes(header), file.size)
    BY DEF ReadGd, Inv, Reached, Settled
  <1>2. PICK p : p = Directory(file.gd, header)
    OBVIOUS
  <1>3. \/ /\ InBounds(header.rgdOffset, GdBytes(header), file.size)
           /\ gd' = p /\ Go("rgd") /\ UNCHANGED <<header, rgd, image>>
        \/ HasRedundant(header) /\ writable /\ End("Corrupt")
        \/ ~(HasRedundant(header) /\ writable) /\ Finish(p, None)
    BY <1>2, Zenon DEF ReadGd, NoRedundant
  <1>4. p # None
    BY <1>1, <1>2, DirectoryIs
  <1>5. CASE /\ InBounds(header.rgdOffset, GdBytes(header), file.size)
             /\ gd' = p /\ Go("rgd") /\ UNCHANGED <<header, rgd, image>>
    <2>1. Reached'
      BY <1>1, <1>4, <1>5 DEF Go, Reached
    <2>2. gd' = Directory(file.gd, header')
      BY <1>2, <1>5
    <2>3. QED
      BY <1>1, <1>5, <2>1, <2>2, GoIs DEF Inv
  <1>6. CASE End("Corrupt")
    BY <1>1, <1>6, EndIs DEF Inv, Refusals
  <1>7. CASE ~(HasRedundant(header) /\ writable) /\ Finish(p, None)
    <2>1. Described(header, file, p, None)
      BY <1>1, <1>2 DEF Described
    <2>2. writable => Keepable(header, file, None)
      BY <1>1, <1>7 DEF Keepable
    <2>3. QED
      BY <1>1, <1>7, <2>1, <2>2, FinishKeeps DEF Inv
  <1>8. QED
    BY <1>3, <1>5, <1>6, <1>7

\* What the last stage goes on with: the redundant directory, or none for a reader.
LEMMA RgdIs ==
    ASSUME Inv, pc = "rgd", NEW r, r = Directory(file.rgd, header) \/ (r = None /\ ~writable)
    PROVE  Described(header, file, gd, r) /\ (writable => Keepable(header, file, r))
  <1>1. /\ header \in SparseHeaders /\ Parsed(header) /\ SectorBytes <= file.size
        /\ ~(writable /\ IsStream(header)) /\ ~(writable /\ file.text.cid = "unwritable")
        /\ InBounds(header.descOffset, header.descSize * SectorBytes, file.size)
        /\ InBounds(header.gdOffset, GdBytes(header), file.size)
        /\ InBounds(header.rgdOffset, GdBytes(header), file.size)
        /\ gd = Directory(file.gd, header)
    BY DEF Inv, Reached, Settled
  <1>2. Directory(file.rgd, header) # None
    BY <1>1, DirectoryIs
  <1>3. QED
    BY <1>1, <1>2 DEF Described, Keepable

LEMMA ReadRgdIs == ASSUME Inv, ReadRgd PROVE Inv'
  <1>1. pc = "rgd" /\ UNCHANGED <<file, writable, failed>> /\ ~failed
    BY DEF ReadRgd, Inv, Settled
  <1>2. PICK r : r = Directory(file.rgd, header)
    OBVIOUS
  <1>3. Finish(gd, r)
    BY <1>2, Zenon DEF ReadRgd
  <1>4. PICK g : g = gd
    OBVIOUS
  <1>5. Described(header, file, g, r) /\ (writable => Keepable(header, file, r))
    BY <1>1, <1>2, <1>4, RgdIs
  <1>6. Finish(g, r)
    BY <1>3, <1>4
  <1>7. QED
    BY <1>1, <1>4, <1>5, <1>6, FinishKeeps DEF Inv

LEMMA ReadFailsIs == ASSUME Inv, ReadFails PROVE Inv'
  <1>1. /\ pc # "done" /\ failed' = TRUE /\ UNCHANGED <<file, writable>>
        /\ IF pc = "rgd" /\ ~writable THEN Finish(gd, None) ELSE End("Io")
    BY DEF ReadFails
  <1>2. CASE pc = "rgd" /\ ~writable
    <2>1. PICK g, r : g = gd /\ r = None
      OBVIOUS
    <2>2. Described(header, file, g, r) /\ (writable => Keepable(header, file, r))
      BY <1>2, <2>1, RgdIs
    <2>3. Finish(g, r)
      BY <1>1, <1>2, <2>1
    <2>4. QED
      BY <1>1, <1>2, <2>1, <2>2, <2>3, FinishKeeps
  <1>3. CASE ~(pc = "rgd" /\ ~writable)
    BY <1>1, <1>3, EndIs
  <1>4. QED
    BY <1>2, <1>3

LEMMA StutterIs == ASSUME Inv, UNCHANGED vars PROVE Inv'
  <1>1. /\ file' = file /\ writable' = writable /\ pc' = pc /\ header' = header /\ gd' = gd
        /\ rgd' = rgd /\ image' = image /\ verdict' = verdict /\ failed' = failed
    BY DEF vars
  <1>2. Reached'
    BY <1>1 DEF Inv, Reached
  <1>3. Settled'
    BY <1>1 DEF Inv, Settled
  <1>4. QED
    BY <1>1, <1>2, <1>3 DEF Inv

LEMMA NextIs == ASSUME Inv, [Next]_vars PROVE Inv'
  BY ProbeIs, DescribeFileIs, ReadHeaderIs, ReadFooterIs, ReadDescriptorIs, ReadGdIs, ReadRgdIs,
     ReadFailsIs, StutterIs DEF Next, Done

LEMMA InvAlways == Spec => []Inv
  BY InitIs, NextIs, PTL DEF Spec

-----------------------------------------------------------------------------
(* What an open image is *)

LEMMA OpenedIs ==
    ASSUME Inv, verdict = "opened"
    PROVE  /\ file \in Files /\ writable \in BOOLEAN
           /\ Laid(header, file, writable, gd, rgd, image)
           /\ Described(header, file, gd, rgd)
           /\ file.size \in Nat
  BY FilesAssumption, OpenAssumption DEF Inv, Settled, Laid

\* Wherever an open stands, its state has the shape the code gives it: a layout
\* exactly when the image was opened, with its floor inside the file, and
\* directories with an entry for every table.
THEOREM TypeCorrect == Spec => []TypeOK
  <1>1. ASSUME Inv PROVE TypeOK
    <2>1. pc \in {"probe", "describe", "header", "footer", "descriptor", "gd", "rgd", "done"}
      BY <1>1 DEF Inv, Reached
    <2>2. /\ writable \in BOOLEAN /\ failed \in BOOLEAN /\ verdict \in Verdicts \cup {"none"}
          /\ (pc = "done") <=> (verdict # "none")
      BY <1>1 DEF Inv, Settled
    <2>3. IF verdict = "opened" THEN image.floor \in SectorBytes .. file.size ELSE image = NoImage
      BY <1>1 DEF Inv, Settled, Laid
    <2>4. \A d \in {gd, rgd} : d # None => d = Directory(file.gd, header) \/ d = Directory(file.rgd, header)
      BY <1>1 DEF Inv, Settled, Laid, Described
    <2>5. \A d \in {gd, rgd} : d # None => DOMAIN d = 0 .. GtCount(header) - 1
      BY <2>4 DEF Directory
    <2>6. QED
      BY <2>1, <2>2, <2>3, <2>5 DEF TypeOK
  <1>2. QED
    BY <1>1, InvAlways, PTL

\* A failed read is never taken for a statement about the file: the open ends as
\* an I/O error, unless it was the redundant directory of a read-only open.
THEOREM FailedReadsAreNoVerdict == Spec => []FailedReadIsNoVerdict
  <1>1. ASSUME Inv PROVE FailedReadIsNoVerdict
    BY <1>1 DEF Inv, Settled, FailedReadIsNoVerdict
  <1>2. QED
    BY <1>1, InvAlways, PTL

\* Every byte of the virtual disk has a directory entry, and no entry is to spare.
LEMMA EntryOf ==
    ASSUME NEW h \in SparseHeaders, Parsed(h), NEW at \in Nat, at < h.capacity * SectorBytes
    PROVE  /\ (at \div (h.grainSize * SectorBytes)) \div h.gtes \in 0 .. GtCount(h) - 1
           /\ at = h.capacity * SectorBytes - 1 =>
                (at \div (h.grainSize * SectorBytes)) \div h.gtes = GtCount(h) - 1
  <1>1. PICK s, c, g, e, G, N, b :
          /\ s = SectorBytes /\ c = h.capacity /\ g = h.grainSize /\ e = h.gtes
          /\ G = CeilDiv(c, g) /\ N = CeilDiv(G, e) /\ b = g * s
    OBVIOUS
  <1>2. s \in Nat \ {0} /\ c \in Nat /\ g \in Nat \ {0} /\ e \in Nat \ {0}
    BY <1>1, CountsAre, FieldsAre, OpenAssumption
  <1>3. G \in Nat /\ c <= G * g /\ G * g < c + g
    BY <1>1, <1>2, CeilDivIs
  <1>4. N \in Nat /\ G <= N * e /\ N * e < G + e
    BY <1>1, <1>2, <1>3, CeilDivIs
  <1>5. \A p, q \in Nat : p <= q => p * s <= q * s
    BY <1>2, TimesKeeps
  <1>6. PICK x : x = G * g
    OBVIOUS
  <1>7. x \in Nat /\ c <= x /\ x + 1 <= c + g
    BY <1>2, <1>3, <1>6
  <1>8. x * s = G * b /\ b \in Nat \ {0}
    <2>1. (G * g) * s = G * (g * s)
      BY <1>2, <1>3
    <2>2. \A p, q \in Nat \ {0} : p * q \in Nat \ {0}
      OBVIOUS
    <2>3. QED
      BY <1>1, <1>2, <1>6, <2>1, <2>2
  <1>9. c * s <= x * s /\ (x + 1) * s <= (c + g) * s
    BY <1>2, <1>5, <1>7
  <1>10. (x + 1) * s = x * s + s /\ (c + g) * s = c * s + g * s /\ c * s \in Nat /\ x * s \in Nat
    BY <1>2, <1>7
  <1>11. at < G * b
    BY <1>1, <1>8, <1>9, <1>10
  <1>12. at \div b \in Nat /\ at \div b < G
    BY <1>3, <1>8, <1>11, DivBelow
  <1>13. PICK d : d = at \div b
    OBVIOUS
  <1>14. d \div e \in Nat /\ d \div e < N
    <2>1. d < N * e
      BY <1>2, <1>3, <1>4, <1>12, <1>13
    <2>2. QED
      BY <1>2, <1>4, <1>12, <1>13, <2>1, DivBelow
  <1>15. ASSUME at = c * s - 1 PROVE d \div e = N - 1
    <2>1. G * b <= at + b
      BY <1>1, <1>2, <1>8, <1>9, <1>10, <1>15
    <2>2. d = G - 1
      BY <1>3, <1>8, <1>11, <1>13, <2>1, DivLast
    <2>3. d < N * e /\ N * e <= d + e
      BY <1>2, <1>3, <1>4, <2>2
    <2>4. QED
      BY <1>2, <1>4, <1>12, <1>13, <2>3, DivLast
  <1>16. GtCount(h) = N
    BY <1>1 DEF GtCount
  <1>17. QED
    BY <1>1, <1>4, <1>13, <1>14, <1>15, <1>16

\* Every byte of an open image's virtual disk is in a grain with an entry in the
\* grain directory, and the last entry is used.
THEOREM OffsetsHaveEntries == Spec => []EveryOffsetHasAnEntry
  <1>1. ASSUME Inv, verdict = "opened"
        PROVE  /\ \A at \in 0 .. image.size - 1 : (at \div GrainBytes) \div header.gtes \in DOMAIN gd
               /\ image.size > 0 =>
                    ((image.size - 1) \div GrainBytes) \div header.gtes = GtCount(header) - 1
    <2>1. /\ header \in SparseHeaders /\ Parsed(header) /\ image.size = header.capacity * SectorBytes
          /\ DOMAIN gd = 0 .. GtCount(header) - 1
      BY <1>1, OpenedIs DEF Laid, Described, Directory
    <2>2. GrainBytes = header.grainSize * SectorBytes
      BY DEF GrainBytes
    <2>3. PICK z \in Nat : z = image.size
      <3>1. header.capacity \in Nat /\ SectorBytes \in Nat
        BY <2>1, FieldsAre, OpenAssumption
      <3>2. header.capacity * SectorBytes \in Nat
        BY <3>1
      <3>3. QED
        BY <2>1, <3>2
    <2>4. ASSUME NEW at \in 0 .. image.size - 1
          PROVE  (at \div GrainBytes) \div header.gtes \in DOMAIN gd
      <3>1. at \in Nat /\ at < header.capacity * SectorBytes
        BY <2>1, <2>3
      <3>2. QED
        BY <2>1, <2>2, <3>1, EntryOf
    <2>5. ASSUME image.size > 0
          PROVE  ((image.size - 1) \div GrainBytes) \div header.gtes = GtCount(header) - 1
      <3>1. PICK at \in Nat : at = image.size - 1 /\ at < image.size
        BY <2>3, <2>5
      <3>2. QED
        BY <2>1, <2>2, <3>1, EntryOf
    <2>6. QED
      BY <2>4, <2>5
  <1>2. ASSUME Inv PROVE EveryOffsetHasAnEntry
    BY <1>1, <1>2 DEF EveryOffsetHasAnEntry
  <1>3. QED
    BY <1>2, InvAlways, PTL

\* The tables the directories name and a lookup would follow, as the open image tells.
Protected ==
    LET named == {gd[i] : i \in DOMAIN gd} \cup
                 (IF rgd = None THEN {} ELSE {rgd[i] : i \in DOMAIN gd})
    IN UNION {Span(sector, GtBytes(header)) : sector \in {s \in named : TableUsable(s)}}

\* The protected tables are those the loop has collected.
LEMMA ProtectedIs ==
    ASSUME Inv, verdict = "opened", NEW b
    PROVE  b \in Protected <=>
             \E k \in 0 .. Entries(header, rgd) - 1 : Holds(header, file, gd, rgd, image.fixed, k, b)
  <1>1. PICK g, r, n : g = gd /\ r = rgd /\ n = GtCount(header)
    OBVIOUS
  <1>2. header \in SparseHeaders /\ Parsed(header) /\ g = Directory(file.gd, header)
    BY <1>1, OpenedIs DEF Described
  <1>3. n \in Nat /\ DOMAIN g = 0 .. n - 1
    BY <1>1, <1>2, CountsAre, DirectoryIs
  <1>4. PICK named : named = {g[i] : i \in DOMAIN g} \cup
                             (IF r = None THEN {} ELSE {r[i] : i \in DOMAIN g})
    OBVIOUS
  <1>5. ASSUME NEW k \in 0 .. Entries(header, r) - 1 PROVE Entry(header, g, r, k) \in named
    <2>1. CASE k < n
      <3>1. k \in 0 .. n - 1
        BY <1>1, <1>3, <2>1 DEF Entries
      <3>2. QED
        BY <1>1, <1>3, <1>4, <2>1, <3>1 DEF Entry
    <2>2. CASE ~(k < n)
      <3>1. r # None /\ k \in 0 .. 2 * n - 1
        BY <1>1, <1>3, <2>2 DEF Entries
      <3>2. k - n \in 0 .. n - 1
        BY <1>3, <2>2, <3>1
      <3>3. QED
        BY <1>1, <1>3, <1>4, <2>2, <3>1, <3>2 DEF Entry
    <2>3. QED
      BY <2>1, <2>2
  <1>6. ASSUME NEW s \in named PROVE \E k \in 0 .. Entries(header, r) - 1 : Entry(header, g, r, k) = s
    <2>1. CASE s \in {g[i] : i \in DOMAIN g}
      <3>1. PICK i \in 0 .. n - 1 : s = g[i]
        BY <1>3, <2>1
      <3>2. i < n /\ i \in 0 .. Entries(header, r) - 1
        BY <1>1, <1>3 DEF Entries
      <3>3. Entry(header, g, r, i) = s
        BY <1>1, <3>1, <3>2 DEF Entry
      <3>4. QED
        BY <3>2, <3>3
    <2>2. CASE r # None /\ s \in {r[i] : i \in DOMAIN g}
      <3>1. PICK i \in 0 .. n - 1 : s = r[i]
        BY <1>3, <2>2
      <3>2. PICK k : k = n + i
        OBVIOUS
      <3>3. ~(k < n) /\ k - n = i /\ k \in 0 .. Entries(header, r) - 1
        BY <1>1, <1>3, <2>2, <3>2 DEF Entries
      <3>4. Entry(header, g, r, k) = s
        BY <1>1, <3>1, <3>3 DEF Entry
      <3>5. QED
        BY <3>3, <3>4
    <2>3. QED
      BY <1>4, <2>1, <2>2
  <1>7. Protected = UNION {TableBytes(header, s) : s \in {s \in named : Usable(header, file, image.fixed, s)}}
    BY <1>1, <1>4 DEF Protected, TableUsable, Usable, TableBytes
  <1>8. PICK x : x = image.fixed
    OBVIOUS
  <1>9. b \in Protected <=> \E s \in named : Usable(header, file, x, s) /\ b \in TableBytes(header, s)
    BY <1>7, <1>8
  <1>10. b \in Protected <=> \E k \in 0 .. Entries(header, r) - 1 : Holds(header, file, g, r, x, k, b)
    BY <1>5, <1>6, <1>9 DEF Holds
  <1>11. QED
    BY <1>1, <1>8, <1>10

\* What the open image keeps of the tables is what is protected of them.
LEMMA TablesProtected ==
    ASSUME Inv, verdict = "opened"
    PROVE  Spaced(image.tables) /\ \A b : b \in Bytes(image.tables) <=> b \in Protected
  <1>1. PICK t : /\ image.tables = t.tables
                 /\ Collected(header, file, gd, rgd, image.fixed, t, Entries(header, rgd))
    BY OpenedIs DEF Laid
  <1>2. PICK x : x = image.tables
    OBVIOUS
  <1>3. /\ Spaced(x)
        /\ \A b : b \in Bytes(x) <=> \E k \in 0 .. Entries(header, rgd) - 1 :
                                       Holds(header, file, gd, rgd, image.fixed, k, b)
    BY <1>1, <1>2 DEF Collected
  <1>4. QED
    BY <1>2, <1>3, ProtectedIs

LEMMA SortedIs == ASSUME NEW x, Spaced(x) PROVE SortedAndMerged(x)
  <1>1. Len(x) \in Nat
    BY SpacedIs
  <1>2. ASSUME NEW i \in 1 .. Len(x), i > 1 PROVE x[i - 1][2] < x[i][1]
    <2>1. i - 1 \in 1 .. Len(x) /\ i - 1 < i
      BY <1>1, <1>2
    <2>2. QED
      BY <2>1 DEF Spaced
  <1>3. QED
    BY <1>2 DEF SortedAndMerged, Spaced

\* A region is held if it ends by the file's last whole sector.
LEMMA HeldIs ==
    ASSUME Inv, verdict = "opened", NEW at \in Nat, NEW sectors \in Nat
    PROVE  Held(file, at, sectors) <=> at + sectors <= file.size \div SectorBytes
  <1>1. PICK n, z : n = at + sectors /\ z = file.size
    OBVIOUS
  <1>2. n \in Nat /\ z \in Nat /\ z <= MaxWord /\ MaxWord \in Nat
    BY <1>1, OpenedIs, FilesAssumption, OpenAssumption
  <1>3. z \div SectorBytes \in Nat /\ z \div SectorBytes <= z
    BY <1>2, WithinIs, OpenAssumption
  <1>4. n <= z \div SectorBytes => n <= MaxWord
    BY <1>2, <1>3
  <1>5. QED
    BY <1>1, <1>4 DEF Held

\* The bytes held of the fixed metadata are those the open image keeps.
LEMMA HeldFixedIs ==
    ASSUME Inv, verdict = "opened"
    PROVE  HeldFixed = FixedBytes(header, file, rgd)
  <1>1. PICK d, n, g, r, s, w :
          /\ d = header.descOffset /\ n = header.descSize /\ g = header.gdOffset
          /\ r = header.rgdOffset /\ s = DirectorySectors(header)
          /\ w = file.size \div SectorBytes
    OBVIOUS
  <1>2. header \in SparseHeaders /\ Parsed(header) /\ SectorBytes <= file.size
    BY OpenedIs DEF Described
  <1>3. d \in Nat /\ n \in Nat /\ g \in Nat /\ r \in Nat /\ s \in Nat
    BY <1>1, <1>2, FieldsAre, GdSectorsIs
  <1>4. PICK F : F = FixedRegions
    OBVIOUS
  <1>5. F = {<<0, 1>>, <<d, n>>, <<g, s>>} \cup (IF rgd = None THEN {} ELSE {<<r, s>>})
    BY <1>1, <1>4 DEF FixedRegions, DirectorySectors
  <1>6. PICK R : R = [q \in Nat \X Nat |->
                        IF q[1] + q[2] <= w THEN Span(q[1], q[2] * SectorBytes) ELSE {}]
    OBVIOUS
  <1>7. F \subseteq Nat \X Nat
    BY <1>3, <1>5
  <1>8. HeldFixed = UNION {Span(q[1], q[2] * SectorBytes) : q \in {q \in F : q[1] + q[2] <= w}}
    BY <1>1, <1>4 DEF HeldFixed
  <1>9. \A b : b \in HeldFixed <=> \E q \in F : b \in R[q]
    <2>1. \A q \in F : R[q] = IF q[1] + q[2] <= w THEN Span(q[1], q[2] * SectorBytes) ELSE {}
      BY <1>6, <1>7
    <2>2. QED
      BY <1>8, <2>1
  <1>10. ASSUME NEW at \in Nat, NEW sectors \in Nat
         PROVE  R[<<at, sectors>>] = RegionBytes(file, at, sectors)
    <2>1. R[<<at, sectors>>] = IF at + sectors <= w THEN Span(at, sectors * SectorBytes) ELSE {}
      BY <1>6
    <2>2. QED
      BY <1>1, <2>1, HeldIs DEF RegionBytes
  <1>11. R[<<0, 1>>] = Span(0, SectorBytes)
    <2>1. 1 <= w
      <3>1. file.size \in Nat /\ SectorBytes \in Nat \ {0} /\ 1 * SectorBytes <= file.size
        BY <1>2, OpenedIs, OpenAssumption
      <3>2. QED
        BY <1>1, <3>1, WithinIs
    <2>2. 1 * SectorBytes = SectorBytes /\ 0 + 1 = 1
      BY OpenAssumption
    <2>3. R[<<0, 1>>] = IF 0 + 1 <= w THEN Span(0, 1 * SectorBytes) ELSE {}
      BY <1>6
    <2>4. QED
      BY <2>1, <2>2, <2>3
  <1>12. \A b : b \in FixedBytes(header, file, rgd) <=> \E q \in F : b \in R[q]
    <2>1. FixedBytes(header, file, rgd) =
            R[<<0, 1>>] \cup R[<<d, n>>] \cup R[<<g, s>>] \cup (IF rgd = None THEN {} ELSE R[<<r, s>>])
      BY <1>1, <1>3, <1>10, <1>11 DEF FixedBytes
    <2>2. QED
      BY <1>5, <2>1
  <1>13. QED
    BY <1>9, <1>12

\* A directory's entries are sector numbers.
LEMMA NamedAre ==
    ASSUME Inv, verdict = "opened"
    PROVE  \A i \in DOMAIN gd : gd[i] \in Nat /\ (rgd # None => rgd[i] \in Nat)
  <1>1. PICK n \in Nat : n = GtCount(header)
    BY OpenedIs, CountsAre DEF Described
  <1>2. /\ header \in SparseHeaders /\ Parsed(header) /\ file \in Files
        /\ gd = Directory(file.gd, header) /\ (rgd # None => rgd = Directory(file.rgd, header))
    BY OpenedIs DEF Described
  <1>3. DOMAIN gd = 0 .. n - 1
    BY <1>1, <1>2, DirectoryIs
  <1>4. \A d \in {file.gd, file.rgd} : \A i \in DOMAIN d : d[i] \in Nat
    BY <1>2, FilesAssumption, OpenAssumption
  <1>5. \A d \in {file.gd, file.rgd} : \A i \in 0 .. n - 1 : Directory(d, header)[i] \in Nat
    BY <1>1, <1>4 DEF Directory
  <1>6. QED
    BY <1>2, <1>3, <1>5

\* And so are the tables: the ones a lookup would follow are those apart from what is held.
LEMMA HeldTablesIs ==
    ASSUME Inv, verdict = "opened"
    PROVE  HeldTables = Protected
  <1>1. PICK named, H, x, n :
          /\ named = {gd[i] : i \in DOMAIN gd} \cup
                     (IF rgd = None THEN {} ELSE {rgd[i] : i \in DOMAIN gd})
          /\ H = HeldFixed /\ x = image.fixed /\ n = GtBytes(header)
    OBVIOUS
  <1>2. n \in Nat \ {0}
    BY <1>1, OpenedIs, CountsAre DEF Described
  <1>3. Spaced(x) /\ Bytes(x) = H
    BY <1>1, OpenedIs, HeldFixedIs DEF Laid
  <1>4. \A s \in named : s \in Nat
    BY <1>1, NamedAre
  <1>5. ASSUME NEW s \in named
        PROVE  TableUsable(s) <=> /\ s # 0 /\ s * SectorBytes + n <= file.size
                                  /\ Span(s, n) \cap H = {}
    <2>1. PICK a, e : a = s * SectorBytes /\ e = a + n
      OBVIOUS
    <2>2. a \in Nat /\ e \in Nat /\ a < e /\ Span(s, n) = a .. e - 1
      BY <1>2, <1>4, <2>1, SpanIs
    <2>3. Overlaps(x, a, e) <=> (a .. e - 1) \cap Bytes(x) # {}
      BY <1>3, <2>2, OverlapsIs
    <2>4. TableUsable(s) <=> s # 0 /\ e <= file.size /\ ~Overlaps(x, a, e)
      BY <1>1, <2>1 DEF TableUsable
    <2>5. QED
      BY <1>3, <2>1, <2>2, <2>3, <2>4
  <1>6. Protected = UNION {Span(s, n) : s \in {s \in named : TableUsable(s)}}
    BY <1>1 DEF Protected
  <1>7. HeldTables = UNION {Span(s, n) : s \in {s \in named : /\ s # 0 /\ s * SectorBytes + n <= file.size
                                                            /\ Span(s, n) \cap H = {}}}
    BY <1>1 DEF HeldTables
  <1>8. QED
    BY <1>5, <1>6, <1>7

\* A range overlaps what the reader keeps exactly where it shares a byte with what is to
\* be protected: the whole sectors of fixed metadata that lie in the file, and the tables
\* a directory names there, apart from that metadata.
THEOREM ProtectedIsTheMetadata == Spec => []ProtectedIsExact
  <1>1. ASSUME Inv, verdict = "opened"
        PROVE  /\ SortedAndMerged(image.fixed) /\ SortedAndMerged(image.tables)
               /\ \A start \in 0 .. file.size - 1 : \A end \in start + 1 .. file.size :
                     /\ Overlaps(image.fixed, start, end) <=> (start .. end - 1) \cap HeldFixed # {}
                     /\ Overlaps(image.tables, start, end) <=> (start .. end - 1) \cap HeldTables # {}
    <2>1. PICK m, x : m = image.fixed /\ x = image.tables
      OBVIOUS
    <2>2. file.size \in Nat
      BY <1>1, OpenedIs
    <2>3. Spaced(m) /\ Bytes(m) = HeldFixed
      BY <1>1, <2>1, OpenedIs, HeldFixedIs DEF Laid
    <2>4. Spaced(x) /\ Bytes(x) = HeldTables
      <3>1. Spaced(x) /\ \A b : b \in Bytes(x) <=> b \in Protected
        BY <1>1, <2>1, TablesProtected
      <3>2. Bytes(x) = Protected
        BY <3>1
      <3>3. QED
        BY <1>1, <3>1, <3>2, HeldTablesIs
    <2>5. ASSUME NEW start \in 0 .. file.size - 1, NEW end \in start + 1 .. file.size
          PROVE  /\ Overlaps(image.fixed, start, end) <=> (start .. end - 1) \cap HeldFixed # {}
                 /\ Overlaps(image.tables, start, end) <=> (start .. end - 1) \cap HeldTables # {}
      <3>1. start \in Nat /\ end \in Nat /\ start < end
        BY <2>2
      <3>2. Overlaps(m, start, end) <=> (start .. end - 1) \cap Bytes(m) # {}
        BY <2>3, <3>1, OverlapsIs
      <3>3. Overlaps(x, start, end) <=> (start .. end - 1) \cap Bytes(x) # {}
        BY <2>4, <3>1, OverlapsIs
      <3>4. QED
        BY <2>1, <2>3, <2>4, <3>2, <3>3
    <2>6. QED
      BY <2>1, <2>3, <2>4, <2>5, SortedIs
  <1>2. ASSUME Inv PROVE ProtectedIsExact
    BY <1>1, <1>2 DEF ProtectedIsExact
  <1>3. QED
    BY <1>2, InvAlways, PTL

\* The directory entries by name, as WritableIsMaintainable tells them apart.
Keys(g, r) == {<<"gd", i>> : i \in DOMAIN g} \cup
              (IF r = None THEN {} ELSE {<<"rgd", i>> : i \in DOMAIN g})
Named(g, r) == [k \in Keys(g, r) |-> IF k[1] = "gd" THEN g[k[2]] ELSE r[k[2]]]

\* The entry of that name, as the loop counts them.
Place(n, k) == IF k[1] = "gd" THEN k[2] ELSE n + k[2]

LEMMA PlaceIs ==
    ASSUME NEW h \in SparseHeaders, Parsed(h), NEW g, NEW r, NEW n, n = GtCount(h),
           DOMAIN g = 0 .. n - 1, NEW k \in Keys(g, r)
    PROVE  /\ Place(n, k) \in 0 .. Entries(h, r) - 1
           /\ Entry(h, g, r, Place(n, k)) = Named(g, r)[k]
           /\ \A l \in Keys(g, r) : Place(n, k) = Place(n, l) => k = l
  <1>1. n \in Nat
    BY CountsAre
  <1>2. ASSUME NEW j \in Keys(g, r)
        PROVE  \/ \E i \in 0 .. n - 1 : j = <<"gd", i>>
               \/ r # None /\ \E i \in 0 .. n - 1 : j = <<"rgd", i>>
    BY DEF Keys
  <1>3. Named(g, r)[k] = IF k[1] = "gd" THEN g[k[2]] ELSE r[k[2]]
    BY DEF Named
  <1>4. ASSUME NEW i \in 0 .. n - 1, k = <<"gd", i>>
        PROVE  Place(n, k) \in 0 .. Entries(h, r) - 1 /\ Entry(h, g, r, Place(n, k)) = Named(g, r)[k]
    <2>1. k[1] = "gd" /\ k[2] = i
      BY <1>4
    <2>2. Place(n, k) = i /\ Named(g, r)[k] = g[i]
      BY <1>3, <2>1 DEF Place
    <2>3. i < n /\ i \in 0 .. Entries(h, r) - 1
      BY <1>1 DEF Entries
    <2>4. QED
      BY <2>2, <2>3 DEF Entry
  <1>5. ASSUME r # None, NEW i \in 0 .. n - 1, k = <<"rgd", i>>
        PROVE  Place(n, k) \in 0 .. Entries(h, r) - 1 /\ Entry(h, g, r, Place(n, k)) = Named(g, r)[k]
    <2>1. k[1] # "gd" /\ k[2] = i
      BY <1>5
    <2>2. Place(n, k) = n + i /\ Named(g, r)[k] = r[i]
      BY <1>3, <2>1 DEF Place
    <2>3. ~(n + i < n) /\ (n + i) - n = i /\ n + i \in 0 .. Entries(h, r) - 1
      BY <1>1, <1>5 DEF Entries
    <2>4. QED
      BY <2>2, <2>3 DEF Entry
  <1>6. ASSUME NEW l \in Keys(g, r), Place(n, k) = Place(n, l) PROVE k = l
    <2>1. \A i \in 0 .. n - 1 : <<"gd", i>>[1] = "gd" /\ <<"gd", i>>[2] = i
      OBVIOUS
    <2>2. \A i \in 0 .. n - 1 : <<"rgd", i>>[1] # "gd" /\ <<"rgd", i>>[2] = i
      OBVIOUS
    <2>3. \A i, j \in 0 .. n - 1 : n + i # j /\ (n + i = n + j => i = j)
      BY <1>1
    <2>4. \A i \in 0 .. n - 1 : Place(n, <<"gd", i>>) = i /\ Place(n, <<"rgd", i>>) = n + i
      BY <2>1, <2>2, Zenon DEF Place
    <2>5. PICK i \in 0 .. n - 1 : k = <<"gd", i>> \/ k = <<"rgd", i>>
      BY <1>2
    <2>6. PICK j \in 0 .. n - 1 : l = <<"gd", j>> \/ l = <<"rgd", j>>
      BY <1>2
    <2>7. PICK p, q : p = Place(n, k) /\ q = Place(n, l)
      OBVIOUS
    <2>8. /\ (k = <<"gd", i>> /\ p = i) \/ (k = <<"rgd", i>> /\ p = n + i)
          /\ (l = <<"gd", j>> /\ q = j) \/ (l = <<"rgd", j>> /\ q = n + j)
      BY <2>4, <2>5, <2>6, <2>7, Zenon
    <2>9. p = q
      BY <1>6, <2>7
    <2>10. n + i # j /\ n + j # i /\ (n + i = n + j => i = j)
      BY <1>1
    <2>11. QED
      BY <2>8, <2>9, <2>10, Zenon
  <1>7. QED
    BY <1>2, <1>4, <1>5, <1>6

\* What was opened for writing can be kept in order: it is not compressed, its
\* content identifier can be rewritten, each redundant copy was found, and no two
\* entries of the directories share a table.
THEOREM WritableCanBeKept == Spec => []WritableIsMaintainable
  <1>1. ASSUME Inv, verdict = "opened", writable
        PROVE  /\ Keepable(header, file, rgd)
               /\ LET named == Named(gd, rgd)
                      usable == {k \in DOMAIN named : TableUsable(named[k])}
                  IN \A k, l \in usable : k # l =>
                       Span(named[k], GtBytes(header)) \cap Span(named[l], GtBytes(header)) = {}
    <2>1. PICK g, r, n, x : g = gd /\ r = rgd /\ n = GtCount(header) /\ x = image.fixed
      OBVIOUS
    <2>2. header \in SparseHeaders /\ Parsed(header) /\ g = Directory(file.gd, header)
      BY <1>1, <2>1, OpenedIs DEF Described
    <2>3. DOMAIN g = 0 .. n - 1
      BY <2>1, <2>2, DirectoryIs
    <2>4. \A i, j \in 0 .. Entries(header, r) - 1 : \A b :
            Holds(header, file, g, r, x, i, b) /\ Holds(header, file, g, r, x, j, b) => i = j
      <3>1. PICK t : /\ Collected(header, file, g, r, x, t, Entries(header, r))
                     /\ writable => ~t.clash
        BY <1>1, <2>1, OpenedIs DEF Laid
      <3>2. ~t.clash
        BY <1>1, <3>1
      <3>3. QED
        BY <3>1, <3>2, Zenon DEF Collected
    <2>5. PICK m : m = Named(g, r)
      OBVIOUS
    <2>6. DOMAIN m = Keys(g, r)
      BY <2>5 DEF Named
    <2>7. ASSUME NEW k \in Keys(g, r), NEW l \in Keys(g, r), k # l, TableUsable(m[k]), TableUsable(m[l])
          PROVE  Span(m[k], GtBytes(header)) \cap Span(m[l], GtBytes(header)) = {}
      <3>1. PICK i, j : i = Place(n, k) /\ j = Place(n, l)
        OBVIOUS
      <3>2. /\ i \in 0 .. Entries(header, r) - 1 /\ j \in 0 .. Entries(header, r) - 1
            /\ Entry(header, g, r, i) = m[k] /\ Entry(header, g, r, j) = m[l] /\ i # j
        BY <2>1, <2>2, <2>3, <2>5, <2>7, <3>1, PlaceIs
      <3>3. Usable(header, file, x, m[k]) /\ Usable(header, file, x, m[l])
        BY <2>1, <2>7 DEF TableUsable, Usable
      <3>4. \A b : /\ b \in Span(m[k], GtBytes(header)) => Holds(header, file, g, r, x, i, b)
                   /\ b \in Span(m[l], GtBytes(header)) => Holds(header, file, g, r, x, j, b)
        BY <3>2, <3>3, Zenon DEF Holds, TableBytes
      <3>5. QED
        BY <2>4, <3>2, <3>4
    <2>8. Keepable(header, file, rgd)
      BY <1>1, OpenedIs DEF Laid
    <2>9. QED
      BY <2>1, <2>5, <2>6, <2>7, <2>8
  <1>2. ASSUME Inv PROVE WritableIsMaintainable
    BY <1>1, <1>2, Zenon DEF WritableIsMaintainable, Keepable, Named, Keys
  <1>3. QED
    BY <1>2, InvAlways, PTL

-----------------------------------------------------------------------------
(* Grain pointers *)

\* A region in bounds is held whole, in sectors, and is protected.
LEMMA RegionIs ==
    ASSUME NEW f \in Files, NEW at \in Nat, NEW bytes \in Nat, NEW sectors \in Nat,
           InBounds(at, bytes, f.size),
           \/ bytes = sectors * SectorBytes
           \/ f.size % SectorBytes = 0 /\ sectors = CeilDiv(bytes, SectorBytes)
    PROVE  Span(at, bytes) \subseteq RegionBytes(f, at, sectors)
  <1>1. PICK y, z, a, s : y = SectorBytes /\ z = f.size /\ a = at * y /\ s = sectors * y
    OBVIOUS
  <1>2. y \in Nat \ {0} /\ z \in Nat /\ z <= MaxWord /\ MaxWord \in Nat
    BY <1>1, FilesAssumption, OpenAssumption
  <1>3. a \in Nat /\ s \in Nat /\ a + bytes <= z
    BY <1>1, <1>2 DEF InBounds
  <1>4. PICK n : n = at + sectors
    OBVIOUS
  <1>5. n \in Nat /\ n * y = a + s
    BY <1>1, <1>2, <1>4
  <1>6. bytes <= s /\ n <= z \div y
    <2>1. CASE bytes = s
      <3>1. n * y <= z
        BY <1>3, <1>5, <2>1
      <3>2. QED
        BY <1>2, <1>3, <1>5, <2>1, <3>1, WithinIs
    <2>2. CASE z % y = 0 /\ sectors = CeilDiv(bytes, y)
      <3>1. bytes <= s /\ s < bytes + y
        BY <1>1, <1>2, <2>2, CeilDivIs
      <3>2. n * y < z + y
        BY <1>2, <1>3, <1>5, <3>1
      <3>3. QED
        BY <1>2, <1>5, <2>2, <3>1, <3>2, WithinIs
    <2>3. QED
      BY <1>1, <2>1, <2>2
  <1>7. z \div y \in Nat /\ z \div y <= z
    BY <1>2, WithinIs
  <1>8. Held(f, at, sectors)
    BY <1>1, <1>2, <1>4, <1>5, <1>6, <1>7 DEF Held
  <1>9. Span(at, bytes) = a .. a + bytes - 1 /\ Span(at, s) = a .. a + s - 1
    BY <1>1 DEF Span
  <1>10. Span(at, bytes) \subseteq Span(at, s)
    BY <1>3, <1>6, <1>9
  <1>11. QED
    BY <1>1, <1>8, <1>10 DEF RegionBytes

\* All of an open image's metadata is protected.
LEMMA MetadataIs ==
    ASSUME Inv, verdict = "opened", WholeSectors
    PROVE  Metadata \subseteq FixedBytes(header, file, rgd) \cup Protected
  <1>1. /\ file \in Files /\ header \in SparseHeaders /\ Parsed(header)
        /\ InBounds(header.descOffset, header.descSize * SectorBytes, file.size)
        /\ InBounds(header.gdOffset, GdBytes(header), file.size)
        /\ rgd # None => InBounds(header.rgdOffset, GdBytes(header), file.size)
    BY OpenedIs DEF Described
  <1>2. PICK d, n, g, r, b, s :
          /\ d = header.descOffset /\ n = header.descSize /\ g = header.gdOffset
          /\ r = header.rgdOffset /\ b = GdBytes(header) /\ s = DirectorySectors(header)
    OBVIOUS
  <1>3. /\ d \in Nat /\ n \in Nat /\ g \in Nat /\ r \in Nat /\ b \in Nat
        /\ s \in Nat /\ s = CeilDiv(b, SectorBytes) /\ n * SectorBytes \in Nat
    BY <1>1, <1>2, FieldsAre, CountsAre, GdSectorsIs, OpenAssumption DEF DirectorySectors
  <1>4. Span(d, n * SectorBytes) \subseteq RegionBytes(file, d, n)
    <2>1. PICK m \in Nat : m = n * SectorBytes
      BY <1>3
    <2>2. InBounds(d, m, file.size)
      BY <1>1, <1>2, <2>1
    <2>3. QED
      BY <1>1, <1>3, <2>1, <2>2, RegionIs
  <1>5. Span(g, b) \subseteq RegionBytes(file, g, s)
    BY <1>1, <1>2, <1>3, RegionIs DEF WholeSectors
  <1>6. rgd # None => Span(r, b) \subseteq RegionBytes(file, r, s)
    BY <1>1, <1>2, <1>3, RegionIs DEF WholeSectors
  <1>7. UNION {Span(gd[i], GtBytes(header)) : i \in {j \in DOMAIN gd : TableUsable(gd[j])}} \subseteq Protected
    BY DEF Protected
  <1>8. QED
    BY <1>2, <1>4, <1>5, <1>6, <1>7 DEF Metadata, FixedBytes

\* Whatever sector a grain-table entry holds, what it lets a read or a write touch
\* lies in the file, past the floor, and clear of every byte that is held, where no
\* grain is so far out that an offset wraps; in a file of whole sectors that is clear
\* of every byte of metadata.
THEOREM PointersAreSafe == Spec => []PointersStayInGrains
  <1>1. ASSUME Inv, verdict = "opened", NoWrap,
               NEW sector \in 1 .. CeilDiv(file.size, SectorBytes), NEW p \in Pieces,
               NEW off, off = GrainHostOffset(sector, p[1], p[2]), off # Refusal
        PROVE  /\ off >= image.floor /\ off + p[2] <= file.size
               /\ (off .. off + p[2] - 1) \cap (HeldFixed \cup HeldTables) = {}
               /\ WholeSectors => (off .. off + p[2] - 1) \cap Metadata = {}
    <2>1. PICK y, z, i, n, g : /\ y = SectorBytes /\ z = file.size /\ i = p[1] /\ n = p[2] /\ g = GrainBytes
      OBVIOUS
    <2>2. /\ header \in SparseHeaders /\ Parsed(header)
          /\ y \in Nat \ {0} /\ z \in Nat /\ MaxWord \in Nat
      BY <1>1, <2>1, OpenedIs, OpenAssumption DEF Described
    <2>3. g \in Nat
      BY <2>1, <2>2, FieldsAre DEF GrainBytes
    <2>4. i \in Nat /\ i <= g - 1 /\ n \in Nat \ {0}
      BY <2>1, <2>3 DEF Pieces
    <2>5. CeilDiv(z, y) \in Nat /\ CeilDiv(z, y) * y < z + y
      BY <2>2, CeilDivIs
    <2>6. sector \in Nat /\ sector <= CeilDiv(z, y)
      BY <2>1, <2>5
    <2>7. PICK start : start = sector * y
      OBVIOUS
    <2>8. start \in Nat /\ start < z + y
      <3>1. sector * y \in Nat /\ CeilDiv(z, y) * y \in Nat /\ sector * y <= CeilDiv(z, y) * y
        BY <2>2, <2>5, <2>6, TimesKeeps
      <3>2. QED
        BY <2>2, <2>5, <2>7, <3>1
    <2>9. start + i \in 0 .. MaxWord
      BY <1>1, <2>1, <2>2, <2>3, <2>4, <2>8 DEF NoWrap
    <2>10. (start + i) % (MaxWord + 1) = start + i
      BY <2>2, <2>9
    <2>11. /\ off = start + i /\ start >= image.floor /\ off + n <= z
           /\ ~Overlaps(image.fixed, off, off + n) /\ ~Overlaps(image.tables, off, off + n)
      BY <1>1, <2>1, <2>7, <2>10, Zenon DEF GrainHostOffset
    <2>12. off \in Nat /\ off + n \in Nat /\ off < off + n
      BY <2>4, <2>8, <2>11
    <2>13. Spaced(image.fixed) /\ Bytes(image.fixed) = FixedBytes(header, file, rgd)
      BY <1>1, OpenedIs DEF Laid
    <2>14. Spaced(image.tables) /\ \A b : b \in Bytes(image.tables) <=> b \in Protected
      BY <1>1, TablesProtected
    <2>15. (off .. off + n - 1) \cap Bytes(image.fixed) = {}
      <3>1. PICK x : x = image.fixed
        OBVIOUS
      <3>2. Spaced(x) /\ ~Overlaps(x, off, off + n)
        BY <2>11, <2>13, <3>1
      <3>3. (off .. (off + n) - 1) \cap Bytes(x) = {}
        BY <2>12, <3>2, OverlapsIs
      <3>4. (off + n) - 1 = off + n - 1
        BY <2>4, <2>12
      <3>5. QED
        BY <3>1, <3>3, <3>4, Zenon
    <2>16. (off .. off + n - 1) \cap Bytes(image.tables) = {}
      <3>1. PICK x : x = image.tables
        OBVIOUS
      <3>2. Spaced(x) /\ ~Overlaps(x, off, off + n)
        BY <2>11, <2>14, <3>1
      <3>3. (off .. (off + n) - 1) \cap Bytes(x) = {}
        BY <2>12, <3>2, OverlapsIs
      <3>4. (off + n) - 1 = off + n - 1
        BY <2>4, <2>12
      <3>5. QED
        BY <3>1, <3>3, <3>4, Zenon
    <2>17. /\ (off .. off + n - 1) \cap (HeldFixed \cup HeldTables) = {}
           /\ WholeSectors => (off .. off + n - 1) \cap Metadata = {}
      <3>1. HeldFixed = Bytes(image.fixed) /\ HeldTables = Bytes(image.tables)
        BY <1>1, <2>13, <2>14, HeldFixedIs, HeldTablesIs
      <3>2. WholeSectors => Metadata \subseteq HeldFixed \cup HeldTables
        BY <1>1, MetadataIs, HeldFixedIs, HeldTablesIs
      <3>3. QED
        BY <2>15, <2>16, <3>1, <3>2
    <2>18. image.floor \in Nat
      BY <1>1, <2>1, <2>2, OpenedIs DEF Laid
    <2>19. QED
      BY <2>1, <2>4, <2>8, <2>11, <2>17, <2>18
  <1>2. ASSUME Inv PROVE PointersStayInGrains
    BY <1>1, <1>2, Zenon DEF PointersStayInGrains
  <1>3. QED
    BY <1>2, InvAlways, PTL
=============================================================================
