---------------------------- MODULE ContentId_proof ----------------------------
(***************************************************************************)
(* What rewriting the CID= line in place does to a descriptor, for every   *)
(* text, every sector size and any number of sessions, faults and crashes: *)
(* a write that completes moves the identifier and changes nothing else,   *)
(* the line up to the value is never lost, nothing is written past the     *)
(* region, a bumped value is durable, and a rewrite that moves nothing     *)
(* across a sector is all or nothing.                                      *)
(***************************************************************************)
EXTENDS ContentId, SequenceTheorems, WellFoundedInduction, TLAPS

-----------------------------------------------------------------------------
(* Least and greatest elements *)

LEMMA Smallest ==
    ASSUME NEW T, T \subseteq Nat, T # {}
    PROVE  \E n \in T : \A m \in T : n <= m
  <1>1. PICK n \in T : \A m \in T : ~ (<<m, n>> \in OpToRel(<, Nat))
    BY NatLessThanWellFounded, WFMin
  <1>2. \A m \in T : ~(m < n)
    BY <1>1 DEF OpToRel
  <1>3. QED
    BY <1>2

LEMMA Largest ==
    ASSUME NEW T, T \subseteq Nat, T # {}, NEW b \in Nat, \A n \in T : n <= b
    PROVE  \E n \in T : \A m \in T : m <= n
  <1>1. PICK U : U = {b - n : n \in T}
    OBVIOUS
  <1>2. U \subseteq Nat /\ U # {}
    <2>1. PICK n : n \in T
      OBVIOUS
    <2>2. b - n \in U
      BY <1>1, <2>1
    <2>3. ASSUME NEW u \in U PROVE u \in Nat
      BY <1>1
    <2>4. QED
      BY <2>2, <2>3
  <1>3. PICK u \in U : \A m \in U : u <= m
    BY <1>2, Smallest
  <1>4. PICK n \in T : u = b - n
    BY <1>1, <1>3
  <1>5. \A m \in T : b - n <= b - m
    BY <1>1, <1>3, <1>4
  <1>6. QED
    BY <1>5

\* The least element of a set is the one that is least.
LEMMA MinIs ==
    ASSUME NEW T, T \subseteq Nat, NEW n \in T, \A m \in T : n <= m
    PROVE  Min(T) = n
  <1>1. Min(T) \in T /\ \A m \in T : Min(T) <= m
    BY DEF Min
  <1>2. Min(T) \in Nat /\ n \in Nat
    BY <1>1
  <1>3. Min(T) <= n /\ n <= Min(T)
    BY <1>1
  <1>4. QED
    BY <1>2, <1>3

\* The greatest element is the one that is greatest.
LEMMA MaxIs ==
    ASSUME NEW T, T \subseteq Nat, NEW n \in T, \A m \in T : m <= n
    PROVE  Max(T) = n
  <1>1. Max(T) \in T /\ \A m \in T : m <= Max(T)
    <2>1. \E x \in T : \A m \in T : x >= m
      OBVIOUS
    <2>2. QED
      BY <2>1 DEF Max
  <1>2. Max(T) \in Nat /\ n \in Nat
    BY <1>1
  <1>3. Max(T) <= n /\ n <= Max(T)
    BY <1>1
  <1>4. QED
    BY <1>2, <1>3

-----------------------------------------------------------------------------
(* Where a byte lies *)

\* The sector of byte k, where in that sector, and the sector past the region.
SectorOf(k) == (k - 1) \div SectorBytes
OffsetOf(k) == ((k - 1) % SectorBytes) + 1
PastRegion == RegionBytes \div SectorBytes

LEMMA Division ==
    ASSUME NEW g \in Nat \ {0}, NEW a \in Nat
    PROVE  a \div g \in Nat /\ a % g \in 0 .. g - 1 /\ a = (a \div g) * g + (a % g)
  <1>1. a % g = a - g * (a \div g)
    BY SMTT(30)
  <1>2. a \div g \in Nat /\ a % g \in 0 .. g - 1
    OBVIOUS
  <1>3. g * (a \div g) = (a \div g) * g /\ g * (a \div g) \in Nat
    BY <1>2
  <1>4. QED
    BY <1>1, <1>2, <1>3

LEMMA OneDivision ==
    ASSUME NEW g \in Nat \ {0}, NEW d \in Nat, NEW e \in Nat, NEW r \in 0 .. g - 1, NEW s \in 0 .. g - 1,
           d * g + r = e * g + s
    PROVE  d = e /\ r = s
  OBVIOUS

LEMMA Product ==
    ASSUME NEW g \in Nat \ {0}, NEW d \in Nat, NEW e \in Nat
    PROVE  /\ d * g \in Nat /\ (d <= e => d * g <= e * g) /\ (d < e => d * g + g <= e * g)
           /\ (d + 1) * g = d * g + g
  OBVIOUS

LEMMA RegionEnds ==
    /\ SectorBytes \in Nat \ {0} /\ RegionBytes \in Nat /\ PastRegion \in Nat
    /\ RegionBytes = PastRegion * SectorBytes /\ PastRegion \in Sectors /\ Sectors = 0 .. PastRegion
    /\ DeviceBytes \in Nat /\ DeviceBytes = RegionBytes + SectorBytes
  <1>1. SectorBytes \in Nat \ {0} /\ RegionBytes \in Nat /\ RegionBytes % SectorBytes = 0
    BY ContentIdAssumption
  <1>2. PastRegion \in Nat /\ RegionBytes = PastRegion * SectorBytes + (RegionBytes % SectorBytes)
    BY <1>1, Division DEF PastRegion
  <1>3. PastRegion * SectorBytes \in Nat
    BY <1>1, <1>2, Product
  <1>4. RegionBytes = PastRegion * SectorBytes
    BY <1>1, <1>2, <1>3
  <1>5. Sectors = 0 .. PastRegion /\ PastRegion \in Sectors
    BY <1>2 DEF Sectors, PastRegion
  <1>6. DeviceBytes \in Nat /\ DeviceBytes = RegionBytes + SectorBytes
    BY <1>1 DEF DeviceBytes
  <1>7. QED
    BY <1>1, <1>2, <1>4, <1>5, <1>6

LEMMA Places ==
    ASSUME NEW k \in 1 .. DeviceBytes
    PROVE  /\ SectorOf(k) \in Sectors /\ OffsetOf(k) \in 1 .. SectorBytes
           /\ k = SectorOf(k) * SectorBytes + OffsetOf(k)
           /\ (SectorOf(k) = PastRegion <=> RegionBytes < k)
  <1> DEFINE s == (k - 1) \div SectorBytes
             o == (k - 1) % SectorBytes
  <1>1. k \in Nat /\ k - 1 \in Nat /\ k <= RegionBytes + SectorBytes
    BY RegionEnds
  <1>2. s \in Nat /\ o \in 0 .. SectorBytes - 1 /\ k - 1 = s * SectorBytes + o
    BY <1>1, RegionEnds, Division
  <1> HIDE DEF s, o
  <1>3. /\ s * SectorBytes \in Nat /\ PastRegion * SectorBytes \in Nat
        /\ (s < PastRegion => s * SectorBytes + SectorBytes <= PastRegion * SectorBytes)
        /\ (PastRegion <= s => PastRegion * SectorBytes <= s * SectorBytes)
        /\ (PastRegion < s => PastRegion * SectorBytes + SectorBytes <= s * SectorBytes)
    BY <1>2, RegionEnds, Product
  <1>4. s <= PastRegion
    BY <1>1, <1>2, <1>3, RegionEnds
  <1>5. s \in Sectors /\ (s = PastRegion <=> RegionBytes < k)
    BY <1>1, <1>2, <1>3, <1>4, RegionEnds
  <1>6. k = s * SectorBytes + (o + 1) /\ o + 1 \in 1 .. SectorBytes
    BY <1>1, <1>2, <1>3, RegionEnds
  <1>7. SectorOf(k) = s /\ OffsetOf(k) = o + 1
    BY DEF SectorOf, OffsetOf, s, o
  <1>8. QED
    BY <1>5, <1>6, <1>7

LEMMA PlaceOf ==
    ASSUME NEW s \in Sectors, NEW o \in 1 .. SectorBytes
    PROVE  /\ s * SectorBytes + o \in 1 .. DeviceBytes
           /\ SectorOf(s * SectorBytes + o) = s /\ OffsetOf(s * SectorBytes + o) = o
  <1> DEFINE k == s * SectorBytes + o
  <1>1. s \in Nat /\ s <= PastRegion /\ o \in Nat /\ o >= 1 /\ o <= SectorBytes
    BY RegionEnds
  <1>2. s * SectorBytes \in Nat /\ s * SectorBytes <= PastRegion * SectorBytes
    BY <1>1, RegionEnds, Product
  <1>3. k \in 1 .. DeviceBytes
    BY <1>1, <1>2, RegionEnds
  <1> HIDE DEF k
  <1>4. /\ SectorOf(k) \in Sectors /\ OffsetOf(k) \in 1 .. SectorBytes
        /\ k = SectorOf(k) * SectorBytes + OffsetOf(k)
    BY <1>3, Places
  <1>5. PICK d, p : d = SectorOf(k) /\ p = OffsetOf(k)
    OBVIOUS
  <1>6. d \in Nat /\ p - 1 \in 0 .. SectorBytes - 1 /\ o - 1 \in 0 .. SectorBytes - 1 /\ d * SectorBytes \in Nat
    BY <1>1, <1>4, <1>5, RegionEnds, Product
  <1>7. d * SectorBytes + (p - 1) = s * SectorBytes + (o - 1)
    BY <1>1, <1>2, <1>4, <1>5, <1>6 DEF k
  <1>8. d = s /\ p - 1 = o - 1
    BY <1>1, <1>6, <1>7, RegionEnds, OneDivision
  <1>9. p = o
    BY <1>1, <1>4, <1>5, <1>8
  <1>10. QED
    BY <1>3, <1>5, <1>8, <1>9 DEF k

-----------------------------------------------------------------------------
(* Texts, regions and sectors *)

\* A byte of the device, the text of n bytes, and a sector.
Byte == Symbols \cup {"directory"}
Texts(n) == [1 .. n -> Byte]
Blocks == [1 .. SectorBytes -> Byte]
Devices == [Sectors -> Blocks]

LEMMA SameFunction ==
    ASSUME NEW D, NEW S, NEW f \in [D -> S], NEW g \in [D -> S], \A x \in D : f[x] = g[x]
    PROVE  f = g
  OBVIOUS

LEMMA PartIs ==
    ASSUME NEW S, NEW N \in Nat, NEW t \in [1 .. N -> S], NEW m \in Nat, NEW n \in Nat,
           1 <= m, m <= n + 1, n <= N
    PROVE  SubSeq(t, m, n) = [i \in 1 .. n - m + 1 |-> t[m + i - 1]]
  <1>1. PICK u : u = [i \in 1 .. n - m + 1 |-> t[m + i - 1]]
    OBVIOUS
  <1>2. \A i \in m .. n : t[i] \in S
    OBVIOUS
  <1>3. PICK p : p = SubSeq(t, m, n)
    OBVIOUS
  <1>4. /\ p \in Seq(S)
        /\ Len(p) = IF m <= n THEN n - m + 1 ELSE 0
        /\ \A i \in 1 .. n - m + 1 : p[i] = t[m + i - 1]
    BY <1>2, <1>3, SubSeqProperties
  <1>5. Len(p) = n - m + 1
    BY <1>4
  <1>6. p \in [1 .. n - m + 1 -> S]
    BY <1>4, <1>5, LenProperties
  <1>7. p = u
    BY <1>1, <1>4, <1>6
  <1>8. QED
    BY <1>1, <1>3, <1>7

LEMMA SameText ==
    ASSUME NEW N, NEW t \in Texts(N), NEW u \in Texts(N), \A k \in 1 .. N : t[k] = u[k]
    PROVE  t = u
  <1>1. PICK D : D = 1 .. N
    OBVIOUS
  <1>2. t \in [D -> Byte] /\ u \in [D -> Byte] /\ \A k \in D : t[k] = u[k]
    BY ONLY <1>1, t \in Texts(N), u \in Texts(N), \A k \in 1 .. N : t[k] = u[k] DEF Texts
  <1>3. QED
    BY <1>2, SameFunction

LEMMA TextIs ==
    ASSUME NEW d \in Devices
    PROVE  /\ Text(d) \in Texts(DeviceBytes)
           /\ \A k \in 1 .. DeviceBytes : Text(d)[k] = d[SectorOf(k)][OffsetOf(k)]
  <1>1. \A k \in 1 .. DeviceBytes : Text(d)[k] = d[SectorOf(k)][OffsetOf(k)]
    BY DEF Text, SectorOf, OffsetOf
  <1>2. \A k \in 1 .. DeviceBytes : d[SectorOf(k)][OffsetOf(k)] \in Byte
    BY Places DEF Devices, Blocks
  <1>3. Text(d) = [k \in 1 .. DeviceBytes |-> Text(d)[k]]
    BY DEF Text
  <1>4. QED
    BY <1>1, <1>2, <1>3 DEF Texts

LEMMA SectorIs ==
    ASSUME NEW t \in Texts(DeviceBytes), NEW s \in Sectors
    PROVE  /\ Sector(t, s) \in Blocks
           /\ \A o \in 1 .. SectorBytes : Sector(t, s)[o] = t[s * SectorBytes + o]
  <1>1. s \in Nat /\ s <= PastRegion
    BY RegionEnds
  <1>2. PICK b : b = s * SectorBytes
    OBVIOUS
  <1>3. b \in Nat /\ b <= PastRegion * SectorBytes /\ (s + 1) * SectorBytes = b + SectorBytes
    BY <1>1, <1>2, RegionEnds, Product
  <1>4. b + SectorBytes <= DeviceBytes /\ b + SectorBytes \in Nat /\ b + 1 \in Nat
    BY <1>3, RegionEnds
  <1>5. SubSeq(t, b + 1, b + SectorBytes)
            = [i \in 1 .. (b + SectorBytes) - (b + 1) + 1 |-> t[(b + 1) + i - 1]]
    BY <1>3, <1>4, RegionEnds, PartIs DEF Texts
  <1>6. (b + SectorBytes) - (b + 1) + 1 = SectorBytes /\ \A i \in Nat : (b + 1) + i - 1 = b + i
    BY <1>3, RegionEnds
  <1>7. Sector(t, s) = SubSeq(t, b + 1, b + SectorBytes)
    BY <1>2, <1>3 DEF Sector
  <1>8. Sector(t, s) = [i \in 1 .. SectorBytes |-> t[b + i]]
    BY <1>5, <1>6, <1>7
  <1>9. \A i \in 1 .. SectorBytes : t[b + i] \in Byte
    <2>1. \A i \in 1 .. SectorBytes : b + i \in 1 .. DeviceBytes
      BY <1>3, <1>4, RegionEnds
    <2>2. QED
      BY <2>1 DEF Texts
  <1>10. QED
    BY <1>2, <1>8, <1>9 DEF Blocks

\* The sectors of a device's text are its sectors.
LEMMA SectorOfText ==
    ASSUME NEW d \in Devices, NEW s \in Sectors
    PROVE  Sector(Text(d), s) = d[s]
  <1>1. PICK t : t = Text(d)
    OBVIOUS
  <1>2. /\ t \in Texts(DeviceBytes)
        /\ \A k \in 1 .. DeviceBytes : t[k] = d[SectorOf(k)][OffsetOf(k)]
    BY <1>1, TextIs
  <1>3. PICK b : b = Sector(t, s)
    OBVIOUS
  <1>4. b \in Blocks /\ \A o \in 1 .. SectorBytes : b[o] = t[s * SectorBytes + o]
    BY <1>2, <1>3, SectorIs
  <1>5. \A o \in 1 .. SectorBytes : b[o] = d[s][o]
    BY <1>2, <1>4, PlaceOf
  <1>6. PICK e : e = d[s]
    OBVIOUS
  <1>7. b \in Blocks /\ e \in Blocks /\ \A o \in 1 .. SectorBytes : b[o] = e[o]
    BY <1>4, <1>5, <1>6 DEF Devices
  <1>8. b = e
    <2>1. b \in Texts(SectorBytes) /\ e \in Texts(SectorBytes)
      BY <1>7 DEF Blocks, Texts
    <2>2. QED
      BY <1>7, <2>1, SameText
  <1>9. QED
    BY <1>1, <1>3, <1>6, <1>8

\* The region of a device is its text up to RegionBytes.
LEMMA RegionIs ==
    ASSUME NEW d \in Devices
    PROVE  /\ Region(d) \in Texts(RegionBytes)
           /\ \A k \in 1 .. RegionBytes : Region(d)[k] = Text(d)[k]
  <1>1. PICK t : t = Text(d)
    OBVIOUS
  <1>2. t \in [1 .. DeviceBytes -> Byte] /\ RegionBytes \in Nat /\ RegionBytes <= DeviceBytes /\ DeviceBytes \in Nat
    BY <1>1, TextIs, RegionEnds DEF Texts
  <1>3. SubSeq(t, 1, RegionBytes) = [i \in 1 .. RegionBytes - 1 + 1 |-> t[1 + i - 1]]
    BY <1>2, PartIs
  <1>4. RegionBytes - 1 + 1 = RegionBytes /\ \A i \in Nat : 1 + i - 1 = i
    BY <1>2
  <1>5. SubSeq(t, 1, RegionBytes) = [i \in 1 .. RegionBytes |-> t[i]]
    BY <1>3, <1>4
  <1>6. \A i \in 1 .. RegionBytes : t[i] \in Byte
    BY <1>2
  <1>7. QED
    BY <1>1, <1>5, <1>6 DEF Region, Texts

-----------------------------------------------------------------------------
(* The field *)

\* In region r the first CID= line has its value at a, of n digits, with room to
\* be widened, and the last byte that is not NUL is at e.
IsField(r, a, n, e) ==
    /\ a \in 2 .. RegionBytes
    /\ a - 1 \in CidLines(r) /\ \A i \in CidLines(r) : a - 1 <= i
    /\ n \in 1 .. CidDigits /\ a + n - 1 <= RegionBytes
    /\ \A j \in a .. a + n - 1 : r[j] \in Hex
    /\ a + n <= RegionBytes => r[a + n] \in {LF, CR, NUL}
    /\ e \in 1 .. RegionBytes /\ r[e] # NUL /\ \A i \in e + 1 .. RegionBytes : r[i] = NUL
    /\ a + n - 1 <= e /\ e + (CidDigits - n) <= RegionBytes

LEMMA HexIs ==
    /\ LF \notin Hex /\ CR \notin Hex /\ NUL \notin Hex /\ "CID=" \notin Hex
    /\ CidDigits \in Nat \ {0} /\ Hex \subseteq Byte /\ NUL # "CID="
  BY ContentIdAssumption DEF Byte, NUL

LEMMA DigitsIs ==
    ASSUME NEW r \in Texts(RegionBytes), NEW a \in 1 .. RegionBytes + 1, NEW n \in Nat,
           a + n - 1 <= RegionBytes, \A j \in a .. a + n - 1 : r[j] \in Hex,
           a + n <= RegionBytes => r[a + n] \notin Hex
    PROVE  DigitsAt(r, a) = n
  <1>1. RegionBytes \in Nat /\ a \in Nat
    BY RegionEnds
  <1>2. Len(r) = RegionBytes
    BY <1>1 DEF Texts
  <1>3. PICK K : K = {k \in 0 .. RegionBytes - a + 1 : \A j \in a .. a + k - 1 : r[j] \in Hex}
    OBVIOUS
  <1>4. n \in K /\ K \subseteq Nat
    BY <1>1, <1>3
  <1>5. ASSUME NEW k \in K, n < k PROVE FALSE
    <2>1. k \in Nat /\ k <= RegionBytes - a + 1 /\ \A j \in a .. a + k - 1 : r[j] \in Hex
      BY <1>1, <1>3, <1>5
    <2>2. a + n \in a .. a + k - 1 /\ a + n <= RegionBytes
      BY <1>1, <1>5, <2>1
    <2>3. QED
      BY <2>1, <2>2
  <1>6. \A k \in K : k <= n
    BY <1>4, <1>5
  <1>7. Max(K) = n
    BY <1>4, <1>6, MaxIs
  <1>8. QED
    BY <1>2, <1>3, <1>7 DEF DigitsAt

LEMMA DigitsAre ==
    ASSUME NEW r \in Texts(RegionBytes), NEW a \in 1 .. RegionBytes + 1
    PROVE  /\ DigitsAt(r, a) \in 0 .. RegionBytes - a + 1
           /\ \A j \in a .. a + DigitsAt(r, a) - 1 : r[j] \in Hex
  <1>1. RegionBytes \in Nat /\ a \in Nat
    BY RegionEnds
  <1>2. Len(r) = RegionBytes
    BY <1>1 DEF Texts
  <1>3. PICK K : K = {k \in 0 .. RegionBytes - a + 1 : \A j \in a .. a + k - 1 : r[j] \in Hex}
    OBVIOUS
  <1>4. 0 \in K /\ K \subseteq Nat /\ \A k \in K : k <= RegionBytes - a + 1
    BY <1>1, <1>3
  <1>5. PICK n \in K : \A m \in K : m <= n
    <2>1. RegionBytes - a + 1 \in Nat
      BY <1>1
    <2>2. QED
      BY <1>4, <2>1, Largest
  <1>6. Max(K) = n
    BY <1>4, <1>5, MaxIs
  <1>7. DigitsAt(r, a) = n
    BY <1>2, <1>3, <1>6 DEF DigitsAt
  <1>8. QED
    BY <1>3, <1>5, <1>7

\* What locate_content_id finds where there is a field.
LEMMA FieldIs ==
    ASSUME NEW r \in Texts(RegionBytes), NEW a, NEW n, NEW e, IsField(r, a, n, e)
    PROVE  /\ LocateContentId(r) = [start |-> a, len |-> n, contentEnd |-> e]
           /\ LocateContentId(r) \notin {NoField, Unwritable}
  <1>1. RegionBytes \in Nat /\ a \in Nat /\ n \in Nat /\ e \in Nat /\ n >= 1 /\ CidDigits \in Nat
    BY RegionEnds, HexIs DEF IsField
  <1>2. Len(r) = RegionBytes /\ DOMAIN r = 1 .. RegionBytes
    BY <1>1 DEF Texts
  <1>3. a - 1 \in CidLines(r) /\ CidLines(r) \subseteq Nat /\ \A i \in CidLines(r) : a - 1 <= i
    BY <1>2 DEF IsField, CidLines
  <1>4. Min(CidLines(r)) + 1 = a
    <2>1. Min(CidLines(r)) = a - 1
      BY <1>3, MinIs
    <2>2. QED
      BY <1>1, <2>1
  <1>5. DigitsAt(r, a) = n
    <2>1. a + n <= RegionBytes => r[a + n] \notin Hex
      BY HexIs DEF IsField
    <2>2. a \in 1 .. RegionBytes + 1
      BY <1>1 DEF IsField
    <2>3. QED
      BY <1>1, <2>1, <2>2, DigitsIs DEF IsField
  <1>6. Max({i \in DOMAIN r : r[i] # NUL}) = e
    <2>1. PICK E : E = {i \in DOMAIN r : r[i] # NUL}
      OBVIOUS
    <2>2. e \in E /\ E \subseteq Nat
      BY <1>2, <2>1 DEF IsField
    <2>3. \A i \in E : i <= e
      BY <1>1, <1>2, <2>1 DEF IsField
    <2>4. QED
      BY <2>1, <2>2, <2>3, MaxIs
  <1>7. Terminated(r, a + n) /\ HasRoom(r, n, e) /\ n \in 1 .. CidDigits
    BY <1>1, <1>2 DEF IsField, Terminated, HasRoom
  <1>8. LocateContentId(r) = [start |-> a, len |-> n, contentEnd |-> e]
    BY <1>3, <1>4, <1>5, <1>6, <1>7 DEF LocateContentId
  <1>9. LocateContentId(r).len = n /\ NoField.len = -1 /\ Unwritable.len = -2
    BY <1>8 DEF NoField, Unwritable
  <1>10. LocateContentId(r) # NoField /\ LocateContentId(r) # Unwritable
    BY <1>1, <1>9
  <1>11. QED
    BY <1>8, <1>10

\* There is a field where locate_content_id finds one.
LEMMA FieldFound ==
    ASSUME NEW r \in Texts(RegionBytes), LocateContentId(r) # NoField, LocateContentId(r) # Unwritable
    PROVE  LET f == LocateContentId(r) IN
           /\ IsField(r, f.start, f.len, f.contentEnd)
           /\ f = [start |-> f.start, len |-> f.len, contentEnd |-> f.contentEnd]
  <1>1. RegionBytes \in Nat /\ CidDigits \in Nat
    BY RegionEnds, HexIs
  <1>2. Len(r) = RegionBytes /\ DOMAIN r = 1 .. RegionBytes
    BY <1>1 DEF Texts
  <1>3. PICK a, n, e : /\ a = Min(CidLines(r)) + 1 /\ n = DigitsAt(r, a)
                       /\ e = Max({i \in DOMAIN r : r[i] # NUL})
    OBVIOUS
  <1>4. CidLines(r) # {} /\ n \in 1 .. CidDigits /\ Terminated(r, a + n) /\ HasRoom(r, n, e)
    BY <1>3 DEF LocateContentId
  <1>5. LocateContentId(r) = [start |-> a, len |-> n, contentEnd |-> e]
    BY <1>3, <1>4 DEF LocateContentId
  <1>6. PICK i \in CidLines(r) : \A j \in CidLines(r) : i <= j
    <2>1. CidLines(r) \subseteq Nat
      BY <1>2 DEF CidLines
    <2>2. QED
      BY <1>4, <2>1, Smallest
  <1>7. Min(CidLines(r)) = i /\ i \in 1 .. RegionBytes /\ r[i] = "CID="
    <2>1. CidLines(r) \subseteq Nat
      BY <1>2 DEF CidLines
    <2>2. Min(CidLines(r)) = i
      BY <1>6, <2>1, MinIs
    <2>3. QED
      BY <1>2, <1>6, <2>2 DEF CidLines
  <1>8. a = i + 1 /\ a - 1 = i /\ a \in 2 .. RegionBytes + 1
    BY <1>1, <1>3, <1>7
  <1>9. n <= RegionBytes - a + 1 /\ \A j \in a .. a + n - 1 : r[j] \in Hex
    <2>1. a \in 1 .. RegionBytes + 1
      BY <1>1, <1>8
    <2>2. QED
      BY <1>3, <2>1, DigitsAre
  <1>10. n \in Nat /\ n >= 1 /\ a \in Nat /\ a + n - 1 <= RegionBytes /\ a \in 2 .. RegionBytes
    BY <1>1, <1>4, <1>8, <1>9
  <1>11. e \in 1 .. RegionBytes /\ r[e] # NUL /\ \A j \in 1 .. RegionBytes : r[j] # NUL => j <= e
    <2>1. PICK E : E = {j \in 1 .. RegionBytes : r[j] # NUL}
      OBVIOUS
    <2>2. E \subseteq Nat /\ (\A j \in E : j <= RegionBytes) /\ i \in E
      BY <1>1, <1>7, <2>1, HexIs
    <2>3. PICK x \in E : \A j \in E : j <= x
      BY <1>1, <2>2, Largest
    <2>4. Max(E) = x
      BY <2>2, <2>3, MaxIs
    <2>5. QED
      BY <1>2, <1>3, <2>1, <2>3, <2>4
  <1>12. \A j \in e + 1 .. RegionBytes : r[j] = NUL
    BY <1>1, <1>11
  <1>13. a + n - 1 <= e
    <2>1. a + n - 1 \in 1 .. RegionBytes /\ a + n - 1 \in a .. a + n - 1
      BY <1>1, <1>10
    <2>2. r[a + n - 1] # NUL
      BY <1>9, <2>1, HexIs
    <2>3. QED
      BY <1>11, <2>1, <2>2
  <1>14. a + n <= RegionBytes => r[a + n] \in {LF, CR, NUL}
    BY <1>1, <1>2, <1>4, <1>10 DEF Terminated
  <1>15. e + (CidDigits - n) <= RegionBytes
    BY <1>2, <1>4 DEF HasRoom
  <1>16. IsField(r, a, n, e)
    BY <1>4, <1>6, <1>8, <1>9, <1>10, <1>11, <1>12, <1>13, <1>14, <1>15 DEF IsField
  <1>17. QED
    BY <1>5, <1>16

-----------------------------------------------------------------------------
(* The rewrite *)

\* The values a bump may write.
Values == [1 .. CidDigits -> Hex]

\* Text t with value w for the n digits at a, what follows them up to e moved after it.
PutAt(t, a, n, e, w) ==
    [k \in DOMAIN t |->
        IF k < a THEN t[k]
        ELSE IF k < a + CidDigits THEN w[k - a + 1]
        ELSE IF k <= e + (CidDigits - n) THEN t[k - (CidDigits - n)]
        ELSE t[k]]

\* Byte k of that text, in each of its four parts.
LEMMA PutIs ==
    ASSUME NEW N \in Nat, NEW t \in Texts(N), RegionBytes <= N,
           NEW r, NEW a, NEW n, NEW e, IsField(r, a, n, e), NEW w \in Values
    PROVE  LET u == PutAt(t, a, n, e, w)
               d == CidDigits - n
           IN /\ u \in Texts(N)
              /\ a \in Nat /\ n \in Nat /\ e \in Nat /\ d \in Nat /\ a >= 2 /\ n >= 1 /\ a + n <= e + 1
              /\ e + d <= RegionBytes
              /\ \A k \in 1 .. N : k < a => u[k] = t[k]
              /\ \A i \in 1 .. CidDigits : u[a + i - 1] = w[i] /\ w[i] \in Hex
              /\ \A k \in a + n .. e : u[k + d] = t[k]
              /\ \A k \in 1 .. N : e + d < k => u[k] = t[k]
  <1> DEFINE d == CidDigits - n
  <1>1. PICK u : u = PutAt(t, a, n, e, w)
    OBVIOUS
  <1>2. /\ RegionBytes \in Nat /\ CidDigits \in Nat \ {0}
        /\ a \in Nat /\ n \in Nat /\ e \in Nat /\ d \in Nat /\ a >= 2 /\ n >= 1 /\ a + n <= e + 1
        /\ e + d <= RegionBytes
    <2>1. RegionBytes \in Nat /\ CidDigits \in Nat \ {0}
      BY RegionEnds, HexIs
    <2>2. a \in 2 .. RegionBytes /\ n \in 1 .. CidDigits /\ e \in 1 .. RegionBytes
          /\ a + n - 1 <= e /\ e + d <= RegionBytes
      BY DEF IsField
    <2>3. QED
      BY <2>1, <2>2
  <1>3. DOMAIN t = 1 .. N /\ (\A k \in 1 .. N : t[k] \in Byte)
    BY DEF Texts
  <1>4. \A i \in 1 .. CidDigits : w[i] \in Hex /\ w[i] \in Byte
    BY HexIs DEF Values
  <1> HIDE DEF d
  <1>5. \A k \in 1 .. N : u[k] = IF k < a THEN t[k]
                                 ELSE IF k < a + CidDigits THEN w[k - a + 1]
                                 ELSE IF k <= e + d THEN t[k - d] ELSE t[k]
    BY <1>1, <1>3 DEF PutAt, d
  <1>6. a + CidDigits = a + n + d
    BY <1>2 DEF d
  <1>7. \A k \in 1 .. N : k < a => u[k] = t[k]
    BY <1>5
  <1>8. ASSUME NEW i \in 1 .. CidDigits PROVE u[a + i - 1] = w[i]
    <2>1. a + i - 1 \in 1 .. N /\ ~(a + i - 1 < a) /\ a + i - 1 < a + CidDigits /\ (a + i - 1) - a + 1 = i
      BY <1>2, <1>6
    <2>2. QED
      BY <1>5, <2>1
  <1>9. ASSUME NEW k \in a + n .. e PROVE u[k + d] = t[k]
    <2>1. k + d \in 1 .. N /\ ~(k + d < a) /\ ~(k + d < a + CidDigits) /\ k + d <= e + d /\ (k + d) - d = k
      BY <1>2, <1>6
    <2>2. QED
      BY <1>5, <2>1
  <1>10. ASSUME NEW k \in 1 .. N, e + d < k PROVE u[k] = t[k]
    <2>1. ~(k < a) /\ ~(k < a + CidDigits) /\ ~(k <= e + d)
      BY <1>2, <1>6, <1>10
    <2>2. QED
      BY <1>5, <2>1
  <1>11. u \in Texts(N)
    <2>1. ASSUME NEW k \in 1 .. N PROVE u[k] \in Byte
      <3>1. CASE k < a
        BY <1>3, <1>7, <3>1
      <3>2. CASE ~(k < a) /\ k < a + CidDigits
        <4>1. k - a + 1 \in 1 .. CidDigits
          BY <1>2, <3>2
        <4>2. QED
          BY <1>4, <1>5, <3>2, <4>1
      <3>3. CASE ~(k < a) /\ ~(k < a + CidDigits) /\ k <= e + d
        <4>1. k - d \in 1 .. N
          BY <1>2, <1>6, <3>3
        <4>2. QED
          BY <1>3, <1>5, <3>3, <4>1
      <3>4. CASE ~(k < a) /\ ~(k < a + CidDigits) /\ ~(k <= e + d)
        BY <1>3, <1>5, <3>4
      <3>5. QED
        BY <3>1, <3>2, <3>3, <3>4
    <2>2. u = [k \in 1 .. N |-> u[k]]
      BY <1>1, <1>3 DEF PutAt
    <2>3. QED
      BY <2>1, <2>2 DEF Texts
  <1>12. QED
    BY <1>1, <1>2, <1>4, <1>7, <1>8, <1>9, <1>10, <1>11 DEF d

\* The new value and what follows it, over the text, is that text.
LEMMA PutIsRewrite ==
    ASSUME NEW N \in Nat, NEW t \in Texts(N), NEW r \in Texts(RegionBytes), RegionBytes <= N,
           \A k \in 1 .. RegionBytes : r[k] = t[k],
           NEW a, NEW n, NEW e, IsField(r, a, n, e), NEW w \in Values
    PROVE  Overwritten(t, a, Rewritten(r, [start |-> a, len |-> n, contentEnd |-> e], w)) = PutAt(t, a, n, e, w)
  <1> DEFINE d == CidDigits - n
             m == e - a - n + 1
             f == [start |-> a, len |-> n, contentEnd |-> e]
  <1>1. PICK u : u = PutAt(t, a, n, e, w)
    OBVIOUS
  <1>2. /\ u \in Texts(N)
        /\ a \in Nat /\ n \in Nat /\ e \in Nat /\ d \in Nat /\ a >= 2 /\ n >= 1 /\ a + n <= e + 1
        /\ e + d <= RegionBytes
        /\ \A k \in 1 .. N : k < a => u[k] = t[k]
        /\ \A i \in 1 .. CidDigits : u[a + i - 1] = w[i]
        /\ \A k \in a + n .. e : u[k + d] = t[k]
        /\ \A k \in 1 .. N : e + d < k => u[k] = t[k]
    BY <1>1, PutIs
  <1>3. RegionBytes \in Nat /\ CidDigits \in Nat \ {0}
    BY RegionEnds, HexIs
  <1>4. m \in Nat /\ a + CidDigits = a + n + d /\ e <= RegionBytes /\ a + n + m = e + 1
    BY <1>2, <1>3
  <1>5. PICK p : p = SubSeq(r, a + n, e)
    OBVIOUS
  <1>6. p \in Seq(Byte) /\ Len(p) = m /\ \A i \in 1 .. m : p[i] = r[a + n + i - 1]
    <2>1. a + n \in Int /\ e \in Int /\ \A i \in a + n .. e : r[i] \in Byte
      BY <1>2, <1>3, <1>4 DEF Texts
    <2>2. PICK b : b = a + n
      OBVIOUS
    <2>3. /\ p \in Seq(Byte) /\ Len(p) = IF b <= e THEN e - b + 1 ELSE 0
          /\ \A i \in 1 .. e - b + 1 : p[i] = r[b + i - 1]
      BY <1>5, <2>1, <2>2, SubSeqProperties
    <2>4. e - b + 1 = m /\ (b <= e \/ m = 0)
      BY <1>2, <1>4, <2>2
    <2>5. QED
      BY <1>4, <2>2, <2>3, <2>4
  <1>7. w \in Seq(Byte) /\ Len(w) = CidDigits
    <2>1. w \in [1 .. CidDigits -> Byte]
      BY HexIs DEF Values
    <2>2. Len(w) = CidDigits
      BY <1>3, <2>1
    <2>3. QED
      BY <1>3, <2>1, <2>2, SeqDef
  <1>8. PICK q : q = w \o p
    OBVIOUS
  <1> HIDE DEF m, d
  <1>9. /\ Len(q) = CidDigits + m
        /\ \A i \in 1 .. CidDigits + m : q[i] = IF i <= CidDigits THEN w[i] ELSE p[i - CidDigits]
    BY <1>6, <1>7, <1>8, ConcatProperties
  <1>10. Rewritten(r, f, w) = q
    BY <1>5, <1>8 DEF Rewritten
  <1>11. DOMAIN t = 1 .. N /\ u = [k \in 1 .. N |-> u[k]]
    BY <1>2 DEF Texts
  <1>12. PICK v : v = Overwritten(t, a, q)
    OBVIOUS
  <1>13. v = [k \in 1 .. N |-> IF k \in a .. a + Len(q) - 1 THEN q[k - a + 1] ELSE t[k]]
    BY <1>11, <1>12 DEF Overwritten
  <1>14. ASSUME NEW k \in 1 .. N PROVE v[k] = u[k]
    <2>1. k \in Nat /\ a + (CidDigits + m) - 1 = e + d
      BY <1>2, <1>3, <1>4
    <2>2. v[k] = IF k \in a .. e + d THEN q[k - a + 1] ELSE t[k]
      BY <1>9, <1>13, <2>1
    <2>3. CASE k < a
      BY <1>2, <2>1, <2>2, <2>3
    <2>4. CASE ~(k < a) /\ k < a + CidDigits
      <3>1. PICK i : i = k - a + 1
        OBVIOUS
      <3>2. i \in 1 .. CidDigits /\ i \in 1 .. CidDigits + m /\ i <= CidDigits /\ a + i - 1 = k /\ k <= e + d
        BY <1>2, <1>3, <1>4, <2>1, <2>4, <3>1
      <3>3. q[i] = w[i] /\ u[k] = w[i]
        BY <1>2, <1>9, <3>2
      <3>4. k \in a .. e + d
        BY <1>2, <2>1, <2>4, <3>2
      <3>5. QED
        BY <2>2, <3>1, <3>3, <3>4
    <2>5. CASE ~(k < a + CidDigits) /\ k <= e + d
      <3>1. PICK i, j : i = k - a + 1 /\ j = k - d
        OBVIOUS
      <3>2. /\ i \in 1 .. CidDigits + m /\ ~(i <= CidDigits) /\ i - CidDigits \in 1 .. m
            /\ a + n + (i - CidDigits) - 1 = j /\ j \in a + n .. e /\ j + d = k /\ j \in 1 .. RegionBytes
        BY <1>2, <1>3, <1>4, <2>1, <2>5, <3>1
      <3>3. q[i] = p[i - CidDigits] /\ p[i - CidDigits] = r[j]
        BY <1>6, <1>9, <3>2
      <3>4. u[k] = t[j] /\ r[j] = t[j]
        BY <1>2, <3>2
      <3>5. k \in a .. e + d
        BY <1>2, <1>3, <2>1, <2>5
      <3>6. QED
        BY <2>2, <3>1, <3>3, <3>4, <3>5
    <2>6. CASE e + d < k
      <3>1. k \notin a .. e + d /\ u[k] = t[k]
        BY <1>2, <2>1, <2>6
      <3>2. QED
        BY <2>2, <3>1
    <2>7. QED
      BY <1>2, <1>3, <2>1, <2>3, <2>4, <2>5, <2>6
  <1>15. v = u
    BY <1>11, <1>13, <1>14
  <1>16. QED
    BY <1>1, <1>10, <1>12, <1>15

\* A reader and locate_content_id find the same lines.
LEMMA FieldLinesAre ==
    ASSUME NEW r \in Texts(RegionBytes)
    PROVE  FieldLines(r) = CidLines(r) /\ FieldLines(r) \subseteq 1 .. RegionBytes /\ FieldLines(r) \subseteq Nat
  <1>1. DOMAIN r = 1 .. RegionBytes
    BY DEF Texts
  <1>2. ASSUME NEW i \in 1 .. RegionBytes
        PROVE  i \in CidLines(r) <=> i \in FieldLines(r)
    <2>1. i \in Nat /\ (i = 1 <=> ~(i > 1))
      BY RegionEnds
    <2>2. QED
      BY <1>1, <2>1 DEF CidLines, FieldLines
  <1>3. CidLines(r) \subseteq 1 .. RegionBytes /\ FieldLines(r) \subseteq 1 .. RegionBytes
    BY <1>1 DEF CidLines, FieldLines
  <1>4. QED
    BY <1>2, <1>3

\* What a region tells but for its value is what stands before and after it.
LEMMA ToldIs ==
    ASSUME NEW r \in Texts(RegionBytes), NEW a, NEW n, NEW e, IsField(r, a, n, e)
    PROVE  Told(r) = << SubSeq(r, 1, a - 1), SubSeq(r, a + n, e) >>
  <1>1. /\ RegionBytes \in Nat /\ a \in Nat /\ n \in Nat /\ e \in Nat /\ n >= 1 /\ a >= 2
        /\ e <= RegionBytes /\ e >= 1 /\ a + n <= e + 1 /\ r[e] # NUL
        /\ \A i \in e + 1 .. RegionBytes : r[i] = NUL
    <2>1. RegionBytes \in Nat /\ CidDigits \in Nat
      BY RegionEnds, HexIs
    <2>2. a \in 2 .. RegionBytes /\ n \in 1 .. CidDigits /\ e \in 1 .. RegionBytes /\ a + n - 1 <= e
      BY DEF IsField
    <2>3. QED
      BY <2>1, <2>2 DEF IsField
  <1>2. DOMAIN r = 1 .. RegionBytes
    BY DEF Texts
  <1>3. PICK F : F = FieldLines(r)
    OBVIOUS
  <1>4. a - 1 \in F /\ F \subseteq Nat /\ \A i \in F : a - 1 <= i
    BY <1>3, FieldLinesAre DEF IsField
  <1>5. F # {} /\ Min(F) + 1 = a
    <2>1. Min(F) = a - 1
      BY <1>4, MinIs
    <2>2. QED
      BY <1>1, <1>4, <2>1
  <1>6. Max({0} \cup {i \in DOMAIN r : r[i] # NUL}) = e
    <2>1. PICK E : E = {0} \cup {i \in DOMAIN r : r[i] # NUL}
      OBVIOUS
    <2>2. e \in E /\ E \subseteq Nat
      BY <1>1, <1>2, <2>1
    <2>3. \A i \in E : i <= e
      BY <1>1, <1>2, <2>1
    <2>4. QED
      BY <2>1, <2>2, <2>3, MaxIs
  <1>7. Min({k \in a .. e + 1 : k = e + 1 \/ r[k] \notin Hex}) = a + n
    <2>1. PICK K : K = {k \in a .. e + 1 : k = e + 1 \/ r[k] \notin Hex}
      OBVIOUS
    <2>2. a + n \in K /\ K \subseteq Nat
      <3>1. a + n \in a .. e + 1
        BY <1>1
      <3>2. CASE a + n <= e
        <4>1. r[a + n] \in {LF, CR, NUL}
          BY <1>1, <3>2 DEF IsField
        <4>2. QED
          BY <2>1, <3>1, <4>1, <1>1, HexIs
      <3>3. CASE ~(a + n <= e)
        <4>1. a + n = e + 1
          BY <1>1, <3>3
        <4>2. QED
          BY <2>1, <3>1, <4>1, <1>1
      <3>4. QED
        BY <3>2, <3>3
    <2>3. ASSUME NEW k \in K, k < a + n PROVE FALSE
      <3>1. k \in a .. a + n - 1 /\ k # e + 1 /\ r[k] \notin Hex
        BY <1>1, <2>1, <2>3
      <3>2. QED
        BY <3>1 DEF IsField
    <2>4. \A k \in K : a + n <= k
      BY <1>1, <2>2, <2>3
    <2>5. QED
      BY <2>1, <2>2, <2>4, MinIs
  <1>8. PICK R : R = a + n
    OBVIOUS
  <1>9. Told(r) = << SubSeq(r, 1, a - 1), SubSeq(r, R, e) >>
    <2>1. (IF F = {} THEN e + 1 ELSE Min(F) + 1) = a
      BY <1>5
    <2>2. QED
      BY <1>3, <1>6, <1>7, <1>8, <2>1 DEF Told
  <1>10. QED
    BY <1>8, <1>9

LEMMA SamePart ==
    ASSUME NEW r \in Texts(RegionBytes), NEW t \in Texts(RegionBytes), NEW m \in Nat, NEW n \in Nat, NEW d \in Nat,
           1 <= m, m <= n + 1, n + d <= RegionBytes, \A k \in m .. n : t[k + d] = r[k]
    PROVE  SubSeq(t, m + d, n + d) = SubSeq(r, m, n)
  <1>1. RegionBytes \in Nat
    BY RegionEnds
  <1>2. SubSeq(r, m, n) = [i \in 1 .. n - m + 1 |-> r[m + i - 1]]
    <2>1. n <= RegionBytes
      BY <1>1
    <2>2. QED
      BY <1>1, <2>1, PartIs DEF Texts
  <1>3. PICK b, c : b = m + d /\ c = n + d
    OBVIOUS
  <1>4. SubSeq(t, b, c) = [i \in 1 .. c - b + 1 |-> t[b + i - 1]]
    <2>1. b \in Nat /\ c \in Nat /\ 1 <= b /\ b <= c + 1 /\ c <= RegionBytes
      BY <1>1, <1>3
    <2>2. QED
      BY <1>1, <2>1, PartIs DEF Texts
  <1>5. c - b + 1 = n - m + 1
    BY <1>3
  <1>6. ASSUME NEW i \in 1 .. n - m + 1 PROVE t[b + i - 1] = r[m + i - 1]
    <2>1. PICK k : k = m + i - 1
      OBVIOUS
    <2>2. k \in m .. n /\ b + i - 1 = k + d
      BY <1>3, <2>1
    <2>3. QED
      BY <2>1, <2>2
  <1>7. SubSeq(t, b, c) = SubSeq(r, m, n)
    BY <1>2, <1>4, <1>5, <1>6
  <1>8. QED
    BY <1>3, <1>7

\* A rewrite keeps the field where it is, makes it whole and leaves the rest as told.
LEMMA RewriteKeeps ==
    ASSUME NEW r \in Texts(RegionBytes), NEW a, NEW n, NEW e, IsField(r, a, n, e), NEW w \in Values
    PROVE  /\ PutAt(r, a, n, e, w) \in Texts(RegionBytes)
           /\ IsField(PutAt(r, a, n, e, w), a, CidDigits, e + (CidDigits - n))
           /\ Told(PutAt(r, a, n, e, w)) = Told(r)
  <1>1. PICK u, d : u = PutAt(r, a, n, e, w) /\ d = CidDigits - n
    OBVIOUS
  <1>2. RegionBytes \in Nat /\ CidDigits \in Nat /\ CidDigits >= 1
    BY RegionEnds, HexIs
  <1>3. /\ u \in Texts(RegionBytes)
        /\ a \in Nat /\ n \in Nat /\ e \in Nat /\ d \in Nat /\ a >= 2 /\ n >= 1 /\ a + n <= e + 1
        /\ e + d <= RegionBytes
        /\ \A k \in 1 .. RegionBytes : k < a => u[k] = r[k]
        /\ \A i \in 1 .. CidDigits : u[a + i - 1] = w[i] /\ w[i] \in Hex
        /\ \A k \in a + n .. e : u[k + d] = r[k]
        /\ \A k \in 1 .. RegionBytes : e + d < k => u[k] = r[k]
    BY <1>1, <1>2, PutIs
  <1>4. DOMAIN r = 1 .. RegionBytes /\ DOMAIN u = 1 .. RegionBytes
    BY <1>3 DEF Texts
  <1>5. PICK x : x = e + d
    OBVIOUS
  <1>6. x \in Nat /\ x <= RegionBytes /\ a + CidDigits - 1 <= x /\ a + CidDigits = a + n + d /\ e <= x
    BY <1>1, <1>2, <1>3, <1>5
  <1>7. IsField(u, a, CidDigits, x)
    <2>1. a - 1 \in CidLines(u)
      <3>1. a - 1 \in CidLines(r)
        BY DEF IsField
      <3>2. a - 1 \in 1 .. RegionBytes /\ r[a - 1] = "CID=" /\ (a - 1 > 1 => r[a - 1 - 1] \in {LF, CR})
        BY <1>4, <3>1 DEF CidLines
      <3>3. u[a - 1] = "CID="
        BY <1>2, <1>3, <3>2
      <3>4. a - 1 > 1 => u[a - 1 - 1] \in {LF, CR}
        <4>1. a - 1 > 1 => a - 1 - 1 \in 1 .. RegionBytes /\ a - 1 - 1 < a
          BY <1>2, <1>3, <3>2
        <4>2. QED
          BY <1>3, <3>2, <4>1
      <3>5. QED
        BY <1>4, <3>2, <3>3, <3>4 DEF CidLines
    <2>2. ASSUME NEW i \in CidLines(u), ~(a - 1 <= i) PROVE FALSE
      <3>1. i \in 1 .. RegionBytes /\ u[i] = "CID=" /\ (i > 1 => u[i - 1] \in {LF, CR})
        BY <1>4 DEF CidLines
      <3>2. i < a /\ (i > 1 => i - 1 \in 1 .. RegionBytes /\ i - 1 < a)
        BY <1>2, <1>3, <2>2, <3>1
      <3>3. r[i] = "CID=" /\ (i > 1 => r[i - 1] \in {LF, CR})
        BY <1>3, <3>1, <3>2
      <3>4. i \in CidLines(r)
        BY <1>4, <3>1, <3>3 DEF CidLines
      <3>5. QED
        BY <2>2, <3>4 DEF IsField
    <2>3. ASSUME NEW j \in a .. a + CidDigits - 1 PROVE u[j] \in Hex
      <3>1. PICK i : i = j - a + 1
        OBVIOUS
      <3>2. i \in 1 .. CidDigits /\ a + i - 1 = j
        BY <1>2, <1>3, <3>1
      <3>3. u[a + i - 1] = w[i] /\ w[i] \in Hex
        BY <1>3, <3>2
      <3>4. QED
        BY <3>2, <3>3
    <2>4. ASSUME a + CidDigits <= RegionBytes PROVE u[a + CidDigits] \in {LF, CR, NUL}
      <3>1. CASE a + n <= e
        <4>1. r[a + n] \in {LF, CR, NUL} /\ a + n \in a + n .. e
          <5>1. a + n <= RegionBytes
            BY <1>2, <1>3, <3>1
          <5>2. QED
            BY <1>3, <3>1, <5>1 DEF IsField
        <4>2. PICK k : k = a + n
          OBVIOUS
        <4>3. u[k + d] = r[k]
          BY <1>3, <4>1, <4>2
        <4>4. k + d = a + CidDigits
          BY <1>6, <4>2
        <4>5. QED
          BY <4>1, <4>2, <4>3, <4>4
      <3>2. CASE ~(a + n <= e)
        <4>1. a + CidDigits \in e + 1 .. RegionBytes /\ a + CidDigits \in 1 .. RegionBytes /\ e + d < a + CidDigits
          BY <1>2, <1>3, <1>6, <2>4, <3>2
        <4>2. r[a + CidDigits] = NUL
          BY <4>1 DEF IsField
        <4>3. QED
          BY <1>3, <4>1, <4>2
      <3>3. QED
        BY <3>1, <3>2
    <2>5. u[x] # NUL
      <3>1. CASE a + n <= e
        <4>1. e \in a + n .. e
          BY <1>3, <3>1
        <4>2. u[e + d] = r[e] /\ r[e] # NUL
          BY <1>3, <4>1 DEF IsField
        <4>3. QED
          BY <1>5, <4>2
      <3>2. CASE ~(a + n <= e)
        <4>1. x \in a .. a + CidDigits - 1
          BY <1>2, <1>3, <1>5, <1>6, <3>2
        <4>2. QED
          BY <2>3, <4>1, HexIs
      <3>3. QED
        BY <3>1, <3>2
    <2>6. \A i \in x + 1 .. RegionBytes : u[i] = NUL
      <3>1. ASSUME NEW i \in x + 1 .. RegionBytes PROVE u[i] = NUL
        <4>1. i \in 1 .. RegionBytes /\ e + d < i /\ i \in e + 1 .. RegionBytes
          BY <1>2, <1>3, <1>5, <1>6
        <4>2. QED
          BY <1>3, <4>1 DEF IsField
      <3>2. QED
        BY <3>1
    <2>7. /\ a \in 2 .. RegionBytes /\ CidDigits \in 1 .. CidDigits /\ a + CidDigits - 1 <= RegionBytes
          /\ x \in 1 .. RegionBytes /\ x + (CidDigits - CidDigits) <= RegionBytes
      BY <1>2, <1>3, <1>6
    <2>8. QED
      BY <1>6, <2>1, <2>2, <2>3, <2>4, <2>5, <2>6, <2>7 DEF IsField
  <1>8. Told(u) = Told(r)
    <2>1. Told(u) = << SubSeq(u, 1, a - 1), SubSeq(u, a + CidDigits, x) >>
      BY <1>3, <1>7, ToldIs
    <2>2. Told(r) = << SubSeq(r, 1, a - 1), SubSeq(r, a + n, e) >>
      BY ToldIs
    <2>3. SubSeq(u, 1, a - 1) = SubSeq(r, 1, a - 1)
      <3>1. PICK c : c = a - 1
        OBVIOUS
      <3>2. c \in Nat /\ 1 <= c + 1 /\ c + 0 <= RegionBytes /\ c + 0 = c
        BY <1>2, <1>3, <1>6, <3>1
      <3>3. \A k \in 1 .. c : u[k + 0] = r[k]
        BY <1>2, <1>3, <3>1, <3>2
      <3>4. SubSeq(u, 1 + 0, c + 0) = SubSeq(r, 1, c)
        BY <1>3, <3>2, <3>3, SamePart
      <3>5. QED
        BY <3>1, <3>2, <3>4
    <2>4. SubSeq(u, a + CidDigits, x) = SubSeq(r, a + n, e)
      <3>1. PICK b : b = a + n
        OBVIOUS
      <3>2. b \in Nat /\ 1 <= b /\ b <= e + 1 /\ b + d = a + CidDigits
        BY <1>3, <1>6, <3>1
      <3>3. \A k \in b .. e : u[k + d] = r[k]
        BY <1>3, <3>1
      <3>4. e \in Nat /\ d \in Nat /\ e + d <= RegionBytes /\ u \in Texts(RegionBytes)
        BY <1>3
      <3>5. SubSeq(u, b + d, e + d) = SubSeq(r, b, e)
        BY <3>2, <3>3, <3>4, SamePart
      <3>6. QED
        BY <1>5, <3>1, <3>2, <3>5
    <2>5. QED
      BY <2>1, <2>2, <2>3, <2>4
  <1>9. QED
    BY <1>1, <1>3, <1>5, <1>7, <1>8

-----------------------------------------------------------------------------
(* What a region may become *)

\* Region o with value w.
WithValue(o, w) ==
    LET f == LocateContentId(o) IN PutAt(o, f.start, f.len, f.contentEnd, w)

\* Region r is o, or o with another value.
Image(o, r) == r = o \/ (LocateContentId(o) # NoField /\ \E w \in Values : r = WithValue(o, w))

LEMMA ImageIs ==
    ASSUME NEW o \in Texts(RegionBytes), LocateContentId(o) # Unwritable, NEW r, Image(o, r), r # o
    PROVE  \E a, n, e : /\ IsField(o, a, n, e)
                        /\ LocateContentId(o) = [start |-> a, len |-> n, contentEnd |-> e]
                        /\ \E w \in Values : r = PutAt(o, a, n, e, w)
  <1>1. PICK w \in Values : LocateContentId(o) # NoField /\ r = WithValue(o, w)
    BY DEF Image
  <1>2. PICK f : f = LocateContentId(o)
    OBVIOUS
  <1>3. IsField(o, f.start, f.len, f.contentEnd) /\ f = [start |-> f.start, len |-> f.len, contentEnd |-> f.contentEnd]
    BY <1>1, <1>2, FieldFound
  <1>4. r = PutAt(o, f.start, f.len, f.contentEnd, w)
    BY <1>1, <1>2 DEF WithValue
  <1>5. QED
    BY <1>2, <1>3, <1>4

LEMMA ValueIsImage ==
    ASSUME NEW o \in Texts(RegionBytes), NEW a, NEW n, NEW e, IsField(o, a, n, e), NEW w \in Values
    PROVE  Image(o, PutAt(o, a, n, e, w))
  <1>1. LocateContentId(o) = [start |-> a, len |-> n, contentEnd |-> e] /\ LocateContentId(o) # NoField
    BY FieldIs
  <1>2. WithValue(o, w) = PutAt(o, a, n, e, w)
    BY <1>1 DEF WithValue
  <1>3. QED
    BY <1>1, <1>2 DEF Image

\* A field is where it is found, and nowhere else.
LEMMA OneField ==
    ASSUME NEW r \in Texts(RegionBytes), NEW a, NEW n, NEW e, IsField(r, a, n, e),
           NEW b, NEW m, NEW x, IsField(r, b, m, x)
    PROVE  a = b /\ n = m /\ e = x
  <1>1. [start |-> a, len |-> n, contentEnd |-> e] = [start |-> b, len |-> m, contentEnd |-> x]
    BY FieldIs
  <1>2. PICK f, g : f = [start |-> a, len |-> n, contentEnd |-> e] /\ g = [start |-> b, len |-> m, contentEnd |-> x]
    OBVIOUS
  <1>3. f.start = a /\ f.len = n /\ f.contentEnd = e /\ g.start = b /\ g.len = m /\ g.contentEnd = x
    BY <1>2
  <1>4. QED
    BY <1>1, <1>2, <1>3

\* An image says what the original says, and can be rewritten where that one can.
LEMMA ImageKeeps ==
    ASSUME NEW o \in Texts(RegionBytes), LocateContentId(o) # Unwritable, NEW r, Image(o, r)
    PROVE  r \in Texts(RegionBytes) /\ Told(r) = Told(o) /\ LocateContentId(r) # Unwritable
  <1>1. CASE r = o
    BY <1>1
  <1>2. CASE r # o
    <2>1. PICK a, n, e : /\ IsField(o, a, n, e)
                         /\ \E w \in Values : r = PutAt(o, a, n, e, w)
      BY <1>2, ImageIs
    <2>2. PICK w \in Values : r = PutAt(o, a, n, e, w)
      BY <2>1
    <2>3. r \in Texts(RegionBytes) /\ IsField(r, a, CidDigits, e + (CidDigits - n)) /\ Told(r) = Told(o)
      BY <2>1, <2>2, RewriteKeeps
    <2>4. LocateContentId(r) # Unwritable
      BY <2>3, FieldIs
    <2>5. QED
      BY <2>3, <2>4
  <1>3. QED
    BY <1>1, <1>2

\* An image rewritten is an image: only the last value shows.
LEMMA ImageRewritten ==
    ASSUME NEW o \in Texts(RegionBytes), LocateContentId(o) # Unwritable, NEW r, Image(o, r),
           NEW b, NEW m, NEW x, IsField(r, b, m, x), NEW v \in Values
    PROVE  Image(o, PutAt(r, b, m, x, v))
  <1>1. CASE r = o
    BY <1>1, ValueIsImage
  <1>2. CASE r # o
    <2>1. PICK a, n, e : /\ IsField(o, a, n, e)
                         /\ \E w \in Values : r = PutAt(o, a, n, e, w)
      BY <1>2, ImageIs
    <2>2. PICK w \in Values : r = PutAt(o, a, n, e, w)
      BY <2>1
    <2>3. PICK d : d = CidDigits - n
      OBVIOUS
    <2>4. r \in Texts(RegionBytes) /\ IsField(r, a, CidDigits, e + d)
      BY <2>1, <2>2, <2>3, RewriteKeeps
    <2>5. b = a /\ m = CidDigits /\ x = e + d
      BY <2>4, OneField
    <2>6. PICK p, q : p = PutAt(r, b, m, x, v) /\ q = PutAt(o, a, n, e, v)
      OBVIOUS
    <2>7. RegionBytes \in Nat /\ CidDigits \in Nat /\ RegionBytes <= RegionBytes
      BY RegionEnds, HexIs
    <2>8. /\ a \in Nat /\ n \in Nat /\ e \in Nat /\ d \in Nat /\ a >= 2 /\ a + n <= e + 1
          /\ \A k \in 1 .. RegionBytes : k < a => r[k] = o[k]
          /\ \A k \in 1 .. RegionBytes : e + d < k => r[k] = o[k]
      BY <2>1, <2>2, <2>3, <2>7, PutIs
    <2>9. /\ q \in Texts(RegionBytes)
          /\ \A k \in 1 .. RegionBytes : k < a => q[k] = o[k]
          /\ \A i \in 1 .. CidDigits : q[a + i - 1] = v[i]
          /\ \A k \in a + n .. e : q[k + d] = o[k]
          /\ \A k \in 1 .. RegionBytes : e + d < k => q[k] = o[k]
      BY <2>1, <2>3, <2>6, <2>7, PutIs
    <2>10. \A k \in a + n .. e : r[k + d] = o[k]
      BY <2>1, <2>2, <2>3, <2>7, PutIs
    <2>11. CidDigits - CidDigits = 0 /\ \A k \in Nat : k + 0 = k
      BY <2>7
    <2>12. /\ p \in Texts(RegionBytes)
           /\ \A k \in 1 .. RegionBytes : k < a => p[k] = r[k]
           /\ \A i \in 1 .. CidDigits : p[a + i - 1] = v[i]
           /\ \A k \in a + CidDigits .. e + d : p[k + 0] = r[k]
           /\ \A k \in 1 .. RegionBytes : e + d + 0 < k => p[k] = r[k]
      BY <2>4, <2>5, <2>6, <2>7, <2>11, PutIs
    <2>13. ASSUME NEW k \in 1 .. RegionBytes PROVE p[k] = q[k]
      <3>1. a + CidDigits = a + n + d /\ k \in Nat
        BY <2>3, <2>7, <2>8
      <3>2. CASE k < a
        BY <2>8, <2>9, <2>12, <3>2
      <3>3. CASE ~(k < a) /\ k < a + CidDigits
        <4>1. PICK i : i = k - a + 1
          OBVIOUS
        <4>2. i \in 1 .. CidDigits /\ a + i - 1 = k
          BY <2>7, <2>8, <3>1, <3>3, <4>1
        <4>3. p[a + i - 1] = v[i] /\ q[a + i - 1] = v[i]
          BY <2>9, <2>12, <4>2
        <4>4. QED
          BY <4>2, <4>3
      <3>4. CASE ~(k < a + CidDigits) /\ k <= e + d
        <4>1. PICK j : j = k - d
          OBVIOUS
        <4>2. j \in a + n .. e /\ j + d = k /\ k \in a + CidDigits .. e + d /\ k + 0 = k
          BY <2>7, <2>8, <3>1, <3>4, <4>1
        <4>3. r[j + d] = o[j] /\ q[j + d] = o[j] /\ p[k + 0] = r[k]
          BY <2>9, <2>10, <2>12, <4>2
        <4>4. QED
          BY <4>2, <4>3
      <3>5. CASE e + d < k
        <4>1. e + d + 0 < k
          BY <2>8, <3>5
        <4>2. QED
          BY <2>8, <2>9, <2>12, <3>5, <4>1
      <3>6. QED
        BY <2>7, <2>8, <3>1, <3>2, <3>3, <3>4, <3>5
    <2>14. p = q
      <3>1. p \in Texts(RegionBytes) /\ q \in Texts(RegionBytes)
        BY <2>9, <2>12
      <3>2. QED
        BY <2>13, <3>1, SameText
    <2>15. Image(o, q)
      BY <2>1, <2>6, ValueIsImage
    <2>16. QED
      BY <2>6, <2>14, <2>15
  <1>3. QED
    BY <1>1, <1>2

LEMMA SectorsGrow ==
    ASSUME NEW j \in 1 .. RegionBytes, NEW k \in 1 .. RegionBytes, j <= k
    PROVE  SectorOf(j) <= SectorOf(k) /\ SectorOf(j) \in Nat /\ SectorOf(k) \in Nat
  <1>1. j - 1 \in Nat /\ k - 1 \in Nat /\ j - 1 <= k - 1
    BY RegionEnds
  <1>2. PICK g, x, y : g = SectorBytes /\ x = j - 1 /\ y = k - 1
    OBVIOUS
  <1>3. g \in Nat \ {0} /\ x \in Nat /\ y \in Nat /\ x <= y
    BY <1>1, <1>2, RegionEnds
  <1>4. x \div g <= y \div g /\ x \div g \in Nat /\ y \div g \in Nat
    BY ONLY <1>3
  <1>5. QED
    BY <1>2, <1>4 DEF SectorOf

\* Region u is t in the sectors of T, and r in the others.
IsMix(u, r, t, T) == \A k \in 1 .. RegionBytes : u[k] = IF SectorOf(k) \in T THEN t[k] ELSE r[k]

\* Nothing moves across a sector: some sectors of one image, the others of another,
\* make a third.
LEMMA ImagesMix ==
    ASSUME NEW o \in Texts(RegionBytes), LocateContentId(o) # Unwritable, ~Moves(o),
           NEW r, Image(o, r), NEW t, Image(o, t), NEW T,
           NEW u \in Texts(RegionBytes), IsMix(u, r, t, T)
    PROVE  Image(o, u)
  <1>0. \A k \in 1 .. RegionBytes : u[k] = IF SectorOf(k) \in T THEN t[k] ELSE r[k]
    BY DEF IsMix
  <1>1. r \in Texts(RegionBytes) /\ t \in Texts(RegionBytes)
    BY ImageKeeps
  <1>2. CASE LocateContentId(o) = NoField
    <2>1. r = o /\ t = o
      BY <1>2 DEF Image
    <2>2. \A k \in 1 .. RegionBytes : u[k] = o[k]
      BY <1>0, <2>1
    <2>3. u = o
      BY <2>2, SameText
    <2>4. QED
      BY <2>3 DEF Image
  <1>3. CASE LocateContentId(o) # NoField
    <2>1. PICK f : f = LocateContentId(o)
      OBVIOUS
    <2>2. PICK a, n, e : a = f.start /\ n = f.len /\ e = f.contentEnd
      OBVIOUS
    <2>3. IsField(o, a, n, e) /\ f = [start |-> a, len |-> n, contentEnd |-> e]
      BY <1>3, <2>1, <2>2, FieldFound
    <2>4. PICK d : d = CidDigits - n
      OBVIOUS
    <2>5. RegionBytes \in Nat /\ CidDigits \in Nat /\ RegionBytes <= RegionBytes
      BY RegionEnds, HexIs
    <2>6. /\ a \in Nat /\ n \in Nat /\ e \in Nat /\ d \in Nat /\ a >= 2 /\ n >= 1 /\ a + n <= e + 1
          /\ e + d <= RegionBytes /\ n <= CidDigits
      <3>1. a \in 2 .. RegionBytes /\ n \in 1 .. CidDigits /\ e \in 1 .. RegionBytes
            /\ a + n - 1 <= e /\ e + (CidDigits - n) <= RegionBytes
        BY <2>3 DEF IsField
      <3>2. QED
        BY <2>4, <2>5, <3>1
    \* An image is as the original before the value and after what moves.
    <2>7. ASSUME NEW x, Image(o, x)
          PROVE  \A k \in 1 .. RegionBytes : (k < a \/ e + d < k) => x[k] = o[k]
      <3>1. CASE x = o
        BY <3>1
      <3>2. CASE x # o
        <4>1. PICK w \in Values : x = PutAt(o, a, n, e, w)
          BY <2>1, <2>2, <2>7, <3>2 DEF Image, WithValue
        <4>2. QED
          BY <2>3, <2>4, <2>5, <4>1, PutIs
      <3>3. QED
        BY <3>1, <3>2
    <2>8. CASE n = CidDigits
      \* Only digits differ, so that any mixture is a value.
      <3>1. d = 0 /\ a + CidDigits <= e + 1
        BY <2>4, <2>5, <2>6, <2>8
      <3>2. ASSUME NEW x, Image(o, x)
            PROVE  /\ \A i \in 1 .. CidDigits : x[a + i - 1] \in Hex
                   /\ \A k \in 1 .. RegionBytes : ~(k < a) /\ ~(k < a + CidDigits) => x[k] = o[k]
        <4>1. CASE x = o
          <5>1. ASSUME NEW i \in 1 .. CidDigits PROVE x[a + i - 1] \in Hex
            <6>1. a + i - 1 \in a .. a + n - 1
              BY <2>5, <2>6, <2>8
            <6>2. QED
              BY <2>3, <4>1, <6>1 DEF IsField
          <5>2. QED
            BY <4>1, <5>1
        <4>2. CASE x # o
          <5>1. PICK w \in Values : x = PutAt(o, a, n, e, w)
            BY <2>1, <2>2, <3>2, <4>2 DEF Image, WithValue
          <5>2. /\ \A i \in 1 .. CidDigits : x[a + i - 1] = w[i] /\ w[i] \in Hex
                /\ \A k \in a + n .. e : x[k + d] = o[k]
                /\ \A k \in 1 .. RegionBytes : e + d < k => x[k] = o[k]
            BY <2>3, <2>4, <2>5, <5>1, PutIs
          <5>3. ASSUME NEW k \in 1 .. RegionBytes, ~(k < a), ~(k < a + CidDigits) PROVE x[k] = o[k]
            <6>1. CASE k <= e
              <7>1. k \in a + n .. e /\ k + d = k
                BY <2>5, <2>6, <2>8, <3>1, <5>3, <6>1
              <7>2. QED
                BY <5>2, <7>1
            <6>2. CASE ~(k <= e)
              <7>1. e + d < k
                BY <2>6, <3>1, <6>2
              <7>2. QED
                BY <5>2, <7>1
            <6>3. QED
              BY <6>1, <6>2
          <5>4. QED
            BY <5>2, <5>3
        <4>3. QED
          BY <4>1, <4>2
      <3>3. PICK w : w = [i \in 1 .. CidDigits |-> u[a + i - 1]]
        OBVIOUS
      <3>4. w \in Values
        <4>1. ASSUME NEW i \in 1 .. CidDigits PROVE u[a + i - 1] \in Hex
          <5>1. a + i - 1 \in 1 .. RegionBytes
            BY <2>5, <2>6, <3>1
          <5>2. r[a + i - 1] \in Hex /\ t[a + i - 1] \in Hex
            BY <3>2
          <5>3. QED
            BY <1>0, <5>1, <5>2
        <4>2. QED
          BY <3>3, <4>1 DEF Values
      <3>5. PICK v : v = PutAt(o, a, n, e, w)
        OBVIOUS
      <3>6. Image(o, v) /\ \A i \in 1 .. CidDigits : v[a + i - 1] = w[i]
        <4>1. Image(o, v)
          BY <2>3, <3>4, <3>5, ValueIsImage
        <4>2. QED
          BY <2>3, <2>5, <3>4, <3>5, <4>1, PutIs
      <3>7. ASSUME NEW k \in 1 .. RegionBytes PROVE u[k] = v[k]
        <4>1. CASE k < a
          <5>1. r[k] = o[k] /\ t[k] = o[k] /\ v[k] = o[k]
            BY <2>7, <3>6, <4>1
          <5>2. QED
            BY <1>0, <5>1
        <4>2. CASE ~(k < a) /\ k < a + CidDigits
          <5>1. PICK i : i = k - a + 1
            OBVIOUS
          <5>2. i \in 1 .. CidDigits /\ a + i - 1 = k
            BY <2>5, <2>6, <4>2, <5>1
          <5>3. w[i] = u[k] /\ v[k] = w[i]
            BY <3>3, <3>6, <5>2
          <5>4. QED
            BY <5>3
        <4>3. CASE ~(k < a) /\ ~(k < a + CidDigits)
          <5>1. r[k] = o[k] /\ t[k] = o[k] /\ v[k] = o[k]
            BY <3>2, <3>6, <4>3
          <5>2. QED
            BY <1>0, <5>1
        <4>4. QED
          BY <4>1, <4>2, <4>3
      <3>8. v \in Texts(RegionBytes)
        BY <3>6, ImageKeeps
      <3>9. u = v
        BY <3>7, <3>8, SameText
      <3>10. QED
        BY <3>6, <3>9
    <2>9. CASE n # CidDigits
      \* All that moves lies in one sector: a mixture is one of the two.
      <3>1. n < CidDigits
        BY <2>5, <2>6, <2>9
      <3>2. SectorOf(a) = SectorOf(e + d)
        <4>1. f # NoField /\ f # Unwritable /\ f.len < CidDigits
          BY <1>3, <2>1, <2>2, <3>1
        <4>2. (f.start - 1) \div SectorBytes = (f.contentEnd + CidDigits - f.len - 1) \div SectorBytes
          BY <2>1, <4>1 DEF Moves
        <4>3. e + CidDigits - n - 1 = (e + d) - 1
          BY <2>4, <2>5, <2>6
        <4>4. QED
          BY <2>2, <4>2, <4>3 DEF SectorOf
      <3>3. ASSUME NEW k \in 1 .. RegionBytes, ~(k < a), ~(e + d < k) PROVE SectorOf(k) = SectorOf(a)
        <4>1. PICK x : x = e + d
          OBVIOUS
        <4>2. a \in 1 .. RegionBytes /\ x \in 1 .. RegionBytes /\ a <= k /\ k <= x
          BY <2>5, <2>6, <3>3, <4>1
        <4>3. /\ SectorOf(a) <= SectorOf(k) /\ SectorOf(k) <= SectorOf(x)
              /\ SectorOf(a) \in Nat /\ SectorOf(k) \in Nat
          BY <4>2, SectorsGrow
        <4>4. QED
          BY <3>2, <4>1, <4>3
      <3>4. ASSUME NEW k \in 1 .. RegionBytes, k < a \/ e + d < k PROVE u[k] = o[k] /\ r[k] = o[k] /\ t[k] = o[k]
        <4>1. r[k] = o[k] /\ t[k] = o[k]
          BY <2>7, <3>4
        <4>2. QED
          BY <1>0, <4>1
      <3>5. CASE SectorOf(a) \in T
        <4>1. ASSUME NEW k \in 1 .. RegionBytes PROVE u[k] = t[k]
          BY <1>0, <3>3, <3>4, <3>5
        <4>2. u = t
          BY <1>1, <4>1, SameText
        <4>3. QED
          BY <4>2
      <3>6. CASE SectorOf(a) \notin T
        <4>1. ASSUME NEW k \in 1 .. RegionBytes PROVE u[k] = r[k]
          BY <1>0, <3>3, <3>4, <3>6
        <4>2. u = r
          BY <1>1, <4>1, SameText
        <4>3. QED
          BY <4>2
      <3>7. QED
        BY <3>5, <3>6
    <2>10. QED
      BY <2>8, <2>9
  <1>4. QED
    BY <1>2, <1>3

-----------------------------------------------------------------------------
(* The device under a rewrite *)

LEMMA DeviceOfText ==
    ASSUME NEW t \in Texts(DeviceBytes), NEW d, d = [s \in Sectors |-> Sector(t, s)]
    PROVE  d \in Devices /\ Text(d) = t
  <1>1. d \in Devices
    BY SectorIs DEF Devices
  <1>2. PICK u : u = Text(d)
    OBVIOUS
  <1>3. u \in Texts(DeviceBytes) /\ \A k \in 1 .. DeviceBytes : u[k] = d[SectorOf(k)][OffsetOf(k)]
    BY <1>1, <1>2, TextIs
  <1>4. ASSUME NEW k \in 1 .. DeviceBytes PROVE u[k] = t[k]
    <2>1. PICK s, o : s = SectorOf(k) /\ o = OffsetOf(k)
      OBVIOUS
    <2>2. s \in Sectors /\ o \in 1 .. SectorBytes /\ k = s * SectorBytes + o
      BY <2>1, Places
    <2>3. d[s][o] = t[s * SectorBytes + o]
      BY <2>2, SectorIs
    <2>4. QED
      BY <1>3, <2>1, <2>2, <2>3
  <1>5. u = t
    BY <1>3, <1>4, SameText
  <1>6. QED
    BY <1>1, <1>2, <1>5

\* The first bytes of a text, those of the region.
InRegion(t) == [k \in 1 .. RegionBytes |-> t[k]]

LEMMA RegionOfText ==
    ASSUME NEW d \in Devices
    PROVE  InRegion(Text(d)) = Region(d)
  <1>1. PICK r : r = Region(d)
    OBVIOUS
  <1>2. r \in Texts(RegionBytes) /\ \A k \in 1 .. RegionBytes : r[k] = Text(d)[k]
    BY <1>1, RegionIs
  <1>3. r = [k \in 1 .. RegionBytes |-> r[k]]
    BY <1>2 DEF Texts
  <1>4. QED
    BY <1>1, <1>2, <1>3 DEF InRegion

\* What a bump is about to write over device d.
IsRewrite(d, t) ==
    \E f \in {LocateContentId(Region(d))} :
        /\ f # NoField /\ f # Unwritable
        /\ \E w \in NextContentId(SubSeq(Region(d), f.start, f.start + f.len - 1)) :
              t = PutAt(Text(d), f.start, f.len, f.contentEnd, w)

LEMMA NextIsValue == \A v : NextContentId(v) \subseteq Values
  BY DEF NextContentId, Values

LEMMA RewriteIs ==
    ASSUME NEW d \in Devices, NEW t, IsRewrite(d, t)
    PROVE  /\ t \in Texts(DeviceBytes)
           /\ \A k \in 1 .. DeviceBytes : RegionBytes < k => t[k] = Text(d)[k]
           /\ \E a, n, e : /\ IsField(Region(d), a, n, e)
                           /\ \A k \in 1 .. DeviceBytes : k < a => t[k] = Text(d)[k]
                           /\ \E w \in NextContentId(SubSeq(Region(d), a, a + n - 1)) :
                                 w \in Values /\ InRegion(t) = PutAt(Region(d), a, n, e, w)
  <1>1. PICK r, x : r = Region(d) /\ x = Text(d)
    OBVIOUS
  <1>2. PICK f : f = LocateContentId(r)
    OBVIOUS
  <1>3. PICK w \in NextContentId(SubSeq(r, f.start, f.start + f.len - 1)) :
            f # NoField /\ f # Unwritable /\ t = PutAt(x, f.start, f.len, f.contentEnd, w)
    BY <1>1, <1>2 DEF IsRewrite
  <1>4. PICK a, n, e : a = f.start /\ n = f.len /\ e = f.contentEnd
    OBVIOUS
  <1>5. r \in Texts(RegionBytes) /\ x \in Texts(DeviceBytes) /\ \A k \in 1 .. RegionBytes : r[k] = x[k]
    BY <1>1, RegionIs, TextIs
  <1>6. /\ IsField(r, a, n, e) /\ t = PutAt(x, a, n, e, w)
        /\ w \in NextContentId(SubSeq(r, a, a + n - 1)) /\ w \in Values
    BY <1>2, <1>3, <1>4, <1>5, FieldFound, NextIsValue
  <1>7. PICK N : N = DeviceBytes
    OBVIOUS
  <1>8. N \in Nat /\ RegionBytes \in Nat /\ RegionBytes <= N /\ CidDigits \in Nat
    BY <1>7, RegionEnds, HexIs
  <1>9. PICK d1 : d1 = CidDigits - n
    OBVIOUS
  <1>10. /\ t \in Texts(N)
         /\ a \in Nat /\ n \in Nat /\ e \in Nat /\ d1 \in Nat /\ a >= 2 /\ e + d1 <= RegionBytes
         /\ \A k \in 1 .. N : k < a => t[k] = x[k]
         /\ \A k \in 1 .. N : e + d1 < k => t[k] = x[k]
    BY <1>5, <1>6, <1>7, <1>8, <1>9, PutIs
  <1>11. \A k \in 1 .. N : RegionBytes < k => t[k] = x[k]
    BY <1>8, <1>10
  <1>12. PICK u : u = PutAt(r, a, n, e, w)
    OBVIOUS
  <1>13. DOMAIN x = 1 .. N /\ DOMAIN r = 1 .. RegionBytes
    BY <1>5, <1>7 DEF Texts
  <1>14. ASSUME NEW k \in 1 .. RegionBytes PROVE t[k] = u[k]
    <2>1. k \in 1 .. N /\ x[k] = r[k]
      BY <1>5, <1>8
    <2>2. t[k] = IF k < a THEN x[k] ELSE IF k < a + CidDigits THEN w[k - a + 1]
                 ELSE IF k <= e + d1 THEN x[k - d1] ELSE x[k]
      BY <1>6, <1>9, <1>13, <2>1 DEF PutAt
    <2>3. u[k] = IF k < a THEN r[k] ELSE IF k < a + CidDigits THEN w[k - a + 1]
                 ELSE IF k <= e + d1 THEN r[k - d1] ELSE r[k]
      BY <1>9, <1>12, <1>13 DEF PutAt
    <2>4. ASSUME ~(k < a), ~(k < a + CidDigits), k <= e + d1 PROVE x[k - d1] = r[k - d1]
      <3>1. k - d1 \in 1 .. RegionBytes
        BY <1>8, <1>9, <1>10, <2>4
      <3>2. QED
        BY <1>5, <3>1
    <2>5. QED
      BY <2>1, <2>2, <2>3, <2>4
  <1>15. u = [k \in 1 .. RegionBytes |-> u[k]]
    BY <1>12, <1>13 DEF PutAt
  <1>16. InRegion(t) = u
    BY <1>14, <1>15 DEF InRegion
  <1>17. QED
    BY <1>1, <1>6, <1>7, <1>10, <1>11, <1>12, <1>16

\* A bump prepares a rewrite.
LEMMA BumpPrepares ==
    ASSUME NEW d \in Devices, NEW f, f = LocateContentId(Region(d)), f # NoField, f # Unwritable,
           NEW w \in NextContentId(SubSeq(Region(d), f.start, f.start + f.len - 1))
    PROVE  IsRewrite(d, Overwritten(Text(d), f.start, Rewritten(Region(d), f, w)))
  <1>1. PICK r, x, N : r = Region(d) /\ x = Text(d) /\ N = DeviceBytes
    OBVIOUS
  <1>2. r \in Texts(RegionBytes) /\ x \in Texts(N) /\ \A k \in 1 .. RegionBytes : r[k] = x[k]
    BY <1>1, RegionIs, TextIs
  <1>3. N \in Nat /\ RegionBytes <= N
    BY <1>1, RegionEnds
  <1>4. IsField(r, f.start, f.len, f.contentEnd) /\ f = [start |-> f.start, len |-> f.len, contentEnd |-> f.contentEnd]
    BY <1>1, <1>2, FieldFound
  <1>5. PICK a, n, e : a = f.start /\ n = f.len /\ e = f.contentEnd
    OBVIOUS
  <1>6. IsField(r, a, n, e) /\ f = [start |-> a, len |-> n, contentEnd |-> e]
    BY <1>4, <1>5
  <1>7. Overwritten(x, a, Rewritten(r, f, w)) = PutAt(x, a, n, e, w)
    <2>1. w \in Values
      BY NextIsValue
    <2>2. QED
      BY <1>2, <1>3, <1>6, <2>1, PutIsRewrite
  <1>8. QED
    BY <1>1, <1>5, <1>7 DEF IsRewrite

-----------------------------------------------------------------------------
(* The device calls *)

\* A device d over media m, intact past the region.
DeviceOK(d, m) ==
    /\ d \in Devices /\ m \in [Sectors -> SUBSET Blocks]
    /\ \A s \in Sectors : d[s] \in m[s]
    /\ m[PastRegion] = {Beyond}

\* Where the original can be rewritten and nothing moves across a sector, all that
\* can survive on media m is an image of it.
OnlyImages(o, m) ==
    LocateContentId(o) # Unwritable /\ ~Moves(o) =>
        \A c \in Devices : (\A s \in Sectors : c[s] \in m[s]) => Image(o, Region(c))

\* Text t on the sectors in D of device d.
Mixed(d, t, D) == [s \in Sectors |-> IF s \in D THEN Sector(t, s) ELSE d[s]]
MixedMedia(m, t, D) == [s \in Sectors |-> IF s \in D THEN m[s] \cup {Sector(t, s)} ELSE m[s]]

\* A rewrite leaves the sector past the region as it is.
LEMMA RewriteStaysInside ==
    ASSUME NEW d, NEW m, DeviceOK(d, m), NEW t, IsRewrite(d, t)
    PROVE  Sector(t, PastRegion) = d[PastRegion]
  <1>1. d \in Devices /\ PastRegion \in Sectors
    BY RegionEnds DEF DeviceOK
  <1>2. PICK x : x = Text(d)
    OBVIOUS
  <1>3. /\ t \in Texts(DeviceBytes) /\ x \in Texts(DeviceBytes)
        /\ \A k \in 1 .. DeviceBytes : RegionBytes < k => t[k] = x[k]
    BY <1>1, <1>2, RewriteIs, TextIs
  <1>4. PICK b, c : b = Sector(t, PastRegion) /\ c = Sector(x, PastRegion)
    OBVIOUS
  <1>5. /\ b \in Blocks /\ c \in Blocks
        /\ \A o \in 1 .. SectorBytes : b[o] = t[PastRegion * SectorBytes + o] /\ c[o] = x[PastRegion * SectorBytes + o]
    BY <1>1, <1>3, <1>4, SectorIs
  <1>6. ASSUME NEW o \in 1 .. SectorBytes PROVE b[o] = c[o]
    <2>1. PICK k : k = PastRegion * SectorBytes + o
      OBVIOUS
    <2>2. k = RegionBytes + o /\ k \in 1 .. DeviceBytes /\ RegionBytes < k
      BY <2>1, RegionEnds
    <2>3. QED
      BY <1>3, <1>5, <2>1, <2>2
  <1>7. b \in Texts(SectorBytes) /\ c \in Texts(SectorBytes)
    BY <1>5 DEF Blocks, Texts
  <1>8. b = c
    BY <1>6, <1>7, SameText
  <1>9. c = d[PastRegion]
    BY <1>1, <1>2, <1>4, SectorOfText
  <1>10. QED
    BY <1>4, <1>8, <1>9

\* Writing any of a rewrite's sectors keeps the device sound.
LEMMA WriteKeepsDevice ==
    ASSUME NEW d, NEW m, DeviceOK(d, m), NEW t, IsRewrite(d, t), NEW D, D \subseteq Sectors
    PROVE  DeviceOK(Mixed(d, t, D), MixedMedia(m, t, D))
  <1>1. PICK d1, m1 : d1 = Mixed(d, t, D) /\ m1 = MixedMedia(m, t, D)
    OBVIOUS
  <1>2. d \in Devices /\ t \in Texts(DeviceBytes)
    BY RewriteIs DEF DeviceOK
  <1>3. \A s \in Sectors : Sector(t, s) \in Blocks /\ d[s] \in Blocks /\ m[s] \subseteq Blocks /\ d[s] \in m[s]
    BY <1>2, SectorIs DEF DeviceOK, Devices
  <1>4. d1 \in Devices
    BY <1>1, <1>3 DEF Mixed, Devices
  <1>5. m1 \in [Sectors -> SUBSET Blocks] /\ \A s \in Sectors : d1[s] \in m1[s]
    BY <1>1, <1>3 DEF Mixed, MixedMedia
  <1>6. m1[PastRegion] = {Beyond}
    <2>1. PastRegion \in Sectors /\ m[PastRegion] = {Beyond} /\ d[PastRegion] \in m[PastRegion]
      BY RegionEnds DEF DeviceOK
    <2>2. Sector(t, PastRegion) = d[PastRegion]
      BY RewriteStaysInside
    <2>3. QED
      BY <1>1, <2>1, <2>2 DEF MixedMedia
  <1>7. QED
    BY <1>1, <1>4, <1>5, <1>6 DEF DeviceOK

\* Whatever of a rewrite survives among older sectors is an image.
LEMMA WriteKeepsImages ==
    ASSUME NEW o \in Texts(RegionBytes), NEW d, NEW m, DeviceOK(d, m), OnlyImages(o, m),
           NEW t, IsRewrite(d, t), NEW D, D \subseteq Sectors
    PROVE  OnlyImages(o, MixedMedia(m, t, D))
  <1> SUFFICES ASSUME LocateContentId(o) # Unwritable, ~Moves(o), NEW c \in Devices,
                      \A s \in Sectors : c[s] \in MixedMedia(m, t, D)[s]
               PROVE  Image(o, Region(c))
    BY DEF OnlyImages
  <1>1. d \in Devices /\ (\A s \in Sectors : d[s] \in m[s])
    BY DEF DeviceOK
  <1>2. PICK r, u : r = Region(d) /\ u = InRegion(t)
    OBVIOUS
  <1>3. Image(o, r)
    BY <1>1, <1>2 DEF OnlyImages
  <1>4. /\ t \in Texts(DeviceBytes)
        /\ \E a, n, e : IsField(r, a, n, e) /\ \E w \in Values : u = PutAt(r, a, n, e, w)
    BY <1>1, <1>2, RewriteIs
  <1>5. Image(o, u)
    <2>1. PICK a, n, e : IsField(r, a, n, e) /\ \E w \in Values : u = PutAt(r, a, n, e, w)
      BY <1>4
    <2>2. PICK w \in Values : u = PutAt(r, a, n, e, w)
      BY <2>1
    <2>3. QED
      BY <1>3, <2>1, <2>2, ImageRewritten
  \* What c takes from this write, and what it takes from before it.
  <1>6. PICK T : T = {s \in Sectors : c[s] \notin m[s]}
    OBVIOUS
  <1>7. \A s \in Sectors : s \in T => c[s] = Sector(t, s)
    BY <1>6 DEF MixedMedia
  <1>8. PICK b : b = [s \in Sectors |-> IF s \in T THEN d[s] ELSE c[s]]
    OBVIOUS
  <1>9. b \in Devices /\ \A s \in Sectors : b[s] \in m[s]
    BY <1>1, <1>6, <1>8 DEF Devices
  <1>10. PICK q, v : q = Region(b) /\ v = Region(c)
    OBVIOUS
  <1>11. Image(o, q)
    BY <1>9, <1>10 DEF OnlyImages
  <1>12. v \in Texts(RegionBytes) /\ q \in Texts(RegionBytes)
    BY <1>9, <1>10, RegionIs
  <1>13. ASSUME NEW k \in 1 .. RegionBytes
         PROVE  v[k] = IF SectorOf(k) \in T THEN u[k] ELSE q[k]
    <2>1. PICK s, i : s = SectorOf(k) /\ i = OffsetOf(k)
      OBVIOUS
    <2>2. k \in 1 .. DeviceBytes
      BY RegionEnds
    <2>3. s \in Sectors /\ i \in 1 .. SectorBytes /\ k = s * SectorBytes + i
      BY <2>1, <2>2, Places
    <2>4. v[k] = c[s][i] /\ q[k] = b[s][i]
      BY <1>9, <1>10, <2>1, <2>2, RegionIs, TextIs
    <2>5. CASE s \in T
      <3>1. c[s] = Sector(t, s)
        BY <1>7, <2>3, <2>5
      <3>2. Sector(t, s)[i] = t[k]
        BY <1>4, <2>3, SectorIs
      <3>3. u[k] = t[k]
        BY <1>2 DEF InRegion
      <3>4. QED
        BY <2>1, <2>4, <2>5, <3>1, <3>2, <3>3
    <2>6. CASE s \notin T
      <3>1. b[s] = c[s]
        BY <1>8, <2>3, <2>6
      <3>2. QED
        BY <2>1, <2>4, <2>6, <3>1
    <2>7. QED
      BY <2>5, <2>6
  <1>14. Image(o, v)
    <2>1. IsMix(v, q, u, T)
      BY <1>13 DEF IsMix
    <2>2. QED
      BY <1>5, <1>11, <1>12, <2>1, ImagesMix
  <1>15. QED
    BY <1>10, <1>14

\* A flush and a crash leave one of what might survive, and that alone.
LEMMA SettleKeeps ==
    ASSUME NEW o \in Texts(RegionBytes), NEW d, NEW m, DeviceOK(d, m), OnlyImages(o, m),
           NEW c, c = [s \in Sectors |-> c[s]], \A s \in Sectors : c[s] \in m[s],
           NEW m1, m1 = [s \in Sectors |-> {c[s]}]
    PROVE  DeviceOK(c, m1) /\ OnlyImages(o, m1)
  <1>1. c \in Devices
    BY DEF DeviceOK, Devices
  <1>2. m1[PastRegion] = {Beyond}
    BY RegionEnds DEF DeviceOK
  <1>3. DeviceOK(c, m1)
    BY <1>1, <1>2 DEF DeviceOK, Devices
  <1>4. OnlyImages(o, m1)
    <2> SUFFICES ASSUME LocateContentId(o) # Unwritable, ~Moves(o), NEW x \in Devices,
                        \A s \in Sectors : x[s] \in m1[s]
                 PROVE  Image(o, Region(x))
      BY DEF OnlyImages
    <2>1. \A s \in Sectors : x[s] \in m[s]
      OBVIOUS
    <2>2. QED
      BY <2>1 DEF OnlyImages
  <1>5. QED
    BY <1>3, <1>4

\* A write that completes writes the text.
LEMMA WholeWrite ==
    ASSUME NEW d, NEW m, DeviceOK(d, m), NEW t, IsRewrite(d, t),
           NEW D, D = {s \in Sectors : d[s] # Sector(t, s)}
    PROVE  Text(Mixed(d, t, D)) = t
  <1>1. t \in Texts(DeviceBytes)
    BY RewriteIs DEF DeviceOK
  <1>2. PICK d1 : d1 = [s \in Sectors |-> Sector(t, s)]
    OBVIOUS
  <1>3. Mixed(d, t, D) = d1
    BY <1>2 DEF Mixed
  <1>4. QED
    BY <1>1, <1>2, <1>3, DeviceOfText

\* It changes the value and nothing else a reader sees, and the value is whole.
LEMMA WholeWriteKeeps ==
    ASSUME NEW d, NEW m, DeviceOK(d, m), NEW t, IsRewrite(d, t),
           NEW D, D = {s \in Sectors : d[s] # Sector(t, s)}
    PROVE  /\ SameButCid(Region(d), Region(Mixed(d, t, D)))
           /\ LocateContentId(Region(Mixed(d, t, D))).len = CidDigits
  <1>1. PICK x : x = Mixed(d, t, D)
    OBVIOUS
  <1>2. d \in Devices /\ x \in Devices
    <2>1. D \subseteq Sectors
      OBVIOUS
    <2>2. DeviceOK(x, MixedMedia(m, t, D))
      BY <1>1, <2>1, WriteKeepsDevice
    <2>3. QED
      BY <2>2 DEF DeviceOK
  <1>3. Region(x) = InRegion(t)
    <2>1. Text(x) = t
      BY <1>1, WholeWrite
    <2>2. QED
      BY <1>2, <2>1, RegionOfText
  <1>4. PICK r, u : r = Region(d) /\ u = InRegion(t)
    OBVIOUS
  <1>5. PICK a, n, e : IsField(r, a, n, e) /\ \E w \in Values : u = PutAt(r, a, n, e, w)
    BY <1>2, <1>4, RewriteIs
  <1>6. PICK w \in Values : u = PutAt(r, a, n, e, w)
    BY <1>5
  <1>7. r \in Texts(RegionBytes)
    BY <1>2, <1>4, RegionIs
  <1>8. PICK y : y = e + (CidDigits - n)
    OBVIOUS
  <1>9. u \in Texts(RegionBytes) /\ IsField(u, a, CidDigits, y) /\ Told(u) = Told(r)
    BY <1>5, <1>6, <1>7, <1>8, RewriteKeeps
  <1>10. LocateContentId(u) = [start |-> a, len |-> CidDigits, contentEnd |-> y]
    BY <1>9, FieldIs
  <1>11. LocateContentId(u).len = CidDigits
    BY <1>10
  <1>12. QED
    BY <1>1, <1>3, <1>4, <1>9, <1>11 DEF SameButCid

-----------------------------------------------------------------------------
(* The line *)

\* Where the value begins in a region, or the byte past it where there is none.
ValueAt(o) == IF FieldLines(o) = {} THEN RegionBytes + 1 ELSE Min(FieldLines(o)) + 1

\* All that may survive on media m is the original o up to the value.
LineKept(o, m) ==
    \A s \in Sectors, p \in 1 .. SectorBytes :
        s * SectorBytes + p < ValueAt(o) => \A v \in m[s] : v[p] = o[s * SectorBytes + p]

\* So is a region r.
SameHead(o, r) == \A k \in 1 .. RegionBytes : k < ValueAt(o) => r[k] = o[k]

LEMMA ValueAtIs ==
    ASSUME NEW o \in Texts(RegionBytes)
    PROVE  /\ ValueAt(o) \in 1 .. RegionBytes + 1
           /\ \A i \in CidLines(o) : ValueAt(o) <= i + 1
           /\ IF CidLines(o) = {} THEN ValueAt(o) = RegionBytes + 1 ELSE ValueAt(o) - 1 \in CidLines(o)
  <1>1. PICK F : F = CidLines(o)
    OBVIOUS
  <1>2. F = FieldLines(o) /\ F \subseteq 1 .. RegionBytes /\ F \subseteq Nat
    BY <1>1, FieldLinesAre
  <1>3. RegionBytes \in Nat
    BY RegionEnds
  <1>4. CASE F = {}
    BY <1>1, <1>2, <1>3, <1>4 DEF ValueAt
  <1>5. CASE F # {}
    <2>1. PICK i \in F : \A j \in F : i <= j
      BY <1>2, <1>5, Smallest
    <2>2. Min(F) = i
      BY <1>2, <2>1, MinIs
    <2>3. ValueAt(o) = i + 1
      BY <1>2, <1>5, <2>2 DEF ValueAt
    <2>4. i \in Nat /\ i >= 1 /\ i <= RegionBytes /\ (i + 1) - 1 = i /\ \A j \in F : i + 1 <= j + 1
      BY <1>2, <1>3, <2>1
    <2>5. QED
      BY <1>1, <1>3, <1>5, <2>1, <2>3, <2>4
  <1>6. QED
    BY <1>4, <1>5

\* A region that is the original up to its value has its first CID= line there too.
LEMMA SameLine ==
    ASSUME NEW o \in Texts(RegionBytes), NEW r \in Texts(RegionBytes), SameHead(o, r)
    PROVE  /\ CidLines(r) = {} <=> CidLines(o) = {}
           /\ \A a, n, e : IsField(r, a, n, e) => a = ValueAt(o)
  <1>1. PICK v : v = ValueAt(o)
    OBVIOUS
  <1>2. /\ RegionBytes \in Nat /\ v \in 1 .. RegionBytes + 1 /\ v \in Nat
        /\ \A i \in CidLines(o) : v <= i + 1
        /\ IF CidLines(o) = {} THEN v = RegionBytes + 1 ELSE v - 1 \in CidLines(o)
    BY <1>1, ValueAtIs, RegionEnds
  <1>3. DOMAIN o = 1 .. RegionBytes /\ DOMAIN r = 1 .. RegionBytes
    BY DEF Texts
  <1>4. ASSUME NEW i \in 1 .. RegionBytes, i < v
        PROVE  i \in CidLines(r) <=> i \in CidLines(o)
    <2>1. r[i] = o[i] /\ (i > 1 => r[i - 1] = o[i - 1])
      <3>1. r[i] = o[i]
        BY <1>1, <1>4 DEF SameHead
      <3>2. ASSUME i > 1 PROVE r[i - 1] = o[i - 1]
        <4>1. i - 1 \in 1 .. RegionBytes /\ i - 1 < v
          BY <1>2, <1>4, <3>2
        <4>2. QED
          BY <1>1, <4>1 DEF SameHead
      <3>3. QED
        BY <3>1, <3>2
    <2>2. QED
      BY <1>3, <2>1 DEF CidLines
  <1>5. CidLines(o) \subseteq 1 .. RegionBytes /\ CidLines(r) \subseteq 1 .. RegionBytes
    BY <1>3 DEF CidLines
  <1>6. \A i \in CidLines(r) : v <= i + 1
    <2>1. ASSUME NEW i \in CidLines(r), ~(v <= i + 1) PROVE FALSE
      <3>1. i \in 1 .. RegionBytes /\ i < v
        BY <1>2, <1>5, <2>1
      <3>2. QED
        BY <1>2, <1>4, <2>1, <3>1
    <2>2. QED
      BY <2>1
  <1>7. CASE CidLines(o) = {}
    <2>1. CidLines(r) = {}
      <3>1. ASSUME NEW i \in CidLines(r) PROVE FALSE
        <4>1. i \in 1 .. RegionBytes /\ i < v
          BY <1>2, <1>5, <1>7
        <4>2. QED
          BY <1>4, <1>7, <4>1
      <3>2. QED
        BY <3>1
    <2>2. QED
      BY <1>7, <2>1 DEF IsField
  <1>8. CASE CidLines(o) # {}
    <2>1. v - 1 \in CidLines(r)
      <3>1. v - 1 \in CidLines(o) /\ v - 1 \in 1 .. RegionBytes /\ v - 1 < v
        BY <1>2, <1>5, <1>8
      <3>2. QED
        BY <1>4, <3>1
    <2>2. ASSUME NEW a, NEW n, NEW e, IsField(r, a, n, e) PROVE a = v
      <3>1. a \in Nat /\ a - 1 \in CidLines(r) /\ a - 1 <= v - 1
        BY <1>2, <2>1, <2>2 DEF IsField
      <3>2. v <= (a - 1) + 1
        BY <1>6, <3>1
      <3>3. QED
        BY <1>2, <3>1, <3>2
    <2>3. QED
      BY <1>1, <1>8, <2>1, <2>2
  <1>9. QED
    BY <1>7, <1>8

\* The region a device holds is the original up to the value.
LEMMA HeadKept ==
    ASSUME NEW o \in Texts(RegionBytes), NEW d, NEW m, DeviceOK(d, m), LineKept(o, m)
    PROVE  SameHead(o, Region(d))
  <1>1. PICK r : r = Region(d)
    OBVIOUS
  <1>2. d \in Devices /\ \A s \in Sectors : d[s] \in m[s]
    BY DEF DeviceOK
  <1>3. ASSUME NEW k \in 1 .. RegionBytes, k < ValueAt(o) PROVE r[k] = o[k]
    <2>1. PICK s, p : s = SectorOf(k) /\ p = OffsetOf(k)
      OBVIOUS
    <2>2. k \in 1 .. DeviceBytes
      BY RegionEnds
    <2>3. s \in Sectors /\ p \in 1 .. SectorBytes /\ k = s * SectorBytes + p
      BY <2>1, <2>2, Places
    <2>4. r[k] = d[s][p]
      BY <1>1, <1>2, <2>1, <2>2, RegionIs, TextIs
    <2>5. \A v \in m[s] : v[p] = o[k]
      BY <1>3, <2>3 DEF LineKept
    <2>6. QED
      BY <1>2, <2>3, <2>4, <2>5
  <1>4. QED
    BY <1>1, <1>3 DEF SameHead

\* A rewrite writes the value and what follows it, never the line up to it.
LEMMA WriteKeepsLine ==
    ASSUME NEW o \in Texts(RegionBytes), NEW d, NEW m, DeviceOK(d, m), LineKept(o, m),
           NEW t, IsRewrite(d, t), NEW D, D \subseteq Sectors
    PROVE  LineKept(o, MixedMedia(m, t, D))
  <1> SUFFICES ASSUME NEW s \in Sectors, NEW p \in 1 .. SectorBytes, s * SectorBytes + p < ValueAt(o),
                      NEW v \in MixedMedia(m, t, D)[s]
               PROVE  v[p] = o[s * SectorBytes + p]
    BY DEF LineKept
  <1>1. PICK k, r : k = s * SectorBytes + p /\ r = Region(d)
    OBVIOUS
  <1>2. d \in Devices
    BY DEF DeviceOK
  <1>3. /\ t \in Texts(DeviceBytes)
        /\ \E a, n, e : IsField(r, a, n, e) /\ \A j \in 1 .. DeviceBytes : j < a => t[j] = Text(d)[j]
    BY <1>1, <1>2, RewriteIs
  <1>4. PICK a, n, e : IsField(r, a, n, e) /\ \A j \in 1 .. DeviceBytes : j < a => t[j] = Text(d)[j]
    BY <1>3
  <1>5. r \in Texts(RegionBytes) /\ \A j \in 1 .. RegionBytes : r[j] = Text(d)[j]
    BY <1>1, <1>2, RegionIs
  <1>6. SameHead(o, r)
    BY <1>1, HeadKept
  <1>7. a = ValueAt(o) /\ a \in 2 .. RegionBytes
    BY <1>4, <1>5, <1>6, SameLine DEF IsField
  <1>8. k \in 1 .. DeviceBytes /\ k < a /\ k \in 1 .. RegionBytes
    <2>1. k \in 1 .. DeviceBytes
      BY <1>1, PlaceOf
    <2>2. QED
      BY <1>1, <1>7, <2>1, RegionEnds
  <1>9. CASE v \in m[s]
    BY <1>9 DEF LineKept
  <1>10. CASE v = Sector(t, s)
    <2>1. v[p] = t[k]
      BY <1>1, <1>3, <1>10, SectorIs
    <2>2. t[k] = r[k]
      BY <1>4, <1>5, <1>8
    <2>3. r[k] = o[k]
      BY <1>6, <1>7, <1>8 DEF SameHead
    <2>4. QED
      BY <1>1, <2>1, <2>2, <2>3
  <1>11. QED
    BY <1>9, <1>10 DEF MixedMedia

LEMMA SettleKeepsLine ==
    ASSUME NEW o, NEW m, LineKept(o, m), NEW c, \A s \in Sectors : c[s] \in m[s],
           NEW m1, m1 = [s \in Sectors |-> {c[s]}]
    PROVE  LineKept(o, m1)
  BY DEF LineKept

\* Device d is all on the medium.
Settled(d, m) == \A s \in Sectors : m[s] = {d[s]}

\* Where there is no field nothing was ever written, and nothing is pending.
LEMMA NoFieldSettled ==
    ASSUME NEW o \in Texts(RegionBytes), NEW d, NEW m, DeviceOK(d, m), LineKept(o, m),
           LocateContentId(Region(d)) = NoField
    PROVE  Settled(d, m)
  <1>1. PICK r : r = Region(d)
    OBVIOUS
  <1>2. d \in Devices /\ (\A s \in Sectors : d[s] \in m[s] /\ m[s] \subseteq Blocks) /\ m[PastRegion] = {Beyond}
    BY DEF DeviceOK
  <1>3. r \in Texts(RegionBytes) /\ SameHead(o, r)
    BY <1>1, <1>2, RegionIs, HeadKept
  <1>4. CidLines(r) = {}
    <2>1. ASSUME CidLines(r) # {} PROVE FALSE
      <3>1. PICK a, n, e : /\ a = Min(CidLines(r)) + 1 /\ n = DigitsAt(r, a)
                           /\ e = Max({i \in DOMAIN r : r[i] # NUL})
        OBVIOUS
      <3>2. \/ LocateContentId(r) = Unwritable
            \/ n \in 1 .. CidDigits /\ LocateContentId(r) = [start |-> a, len |-> n, contentEnd |-> e]
        BY <2>1, <3>1 DEF LocateContentId
      <3>3. LocateContentId(r).len # -1
        <4>1. CASE LocateContentId(r) = Unwritable
          BY <4>1 DEF Unwritable
        <4>2. CASE n \in 1 .. CidDigits /\ LocateContentId(r) = [start |-> a, len |-> n, contentEnd |-> e]
          <5>1. LocateContentId(r).len = n
            BY <4>2
          <5>2. n \in Nat
            BY <4>2, HexIs
          <5>3. QED
            BY <5>1, <5>2
        <4>3. QED
          BY <3>2, <4>1, <4>2
      <3>4. QED
        BY <1>1, <3>3 DEF NoField
    <2>2. QED
      BY <2>1
  <1>5. ValueAt(o) = RegionBytes + 1
    BY <1>3, <1>4, SameLine, ValueAtIs
  <1>6. ASSUME NEW s \in Sectors, NEW v \in m[s] PROVE v = d[s]
    <2>1. CASE s = PastRegion
      BY <1>2, <1>6, <2>1
    <2>2. CASE s # PastRegion
      <3>1. v \in Texts(SectorBytes) /\ d[s] \in Texts(SectorBytes)
        BY <1>2, <1>6 DEF Devices, Blocks, Texts
      <3>2. ASSUME NEW p \in 1 .. SectorBytes PROVE v[p] = d[s][p]
        <4>1. s * SectorBytes + p \in 1 .. DeviceBytes /\ SectorOf(s * SectorBytes + p) = s
          BY PlaceOf
        <4>2. s * SectorBytes + p < RegionBytes + 1
          BY <2>2, <4>1, Places, RegionEnds
        <4>3. QED
          BY <1>2, <1>5, <1>6, <4>2 DEF LineKept
      <3>3. QED
        BY <3>1, <3>2, SameText
    <2>3. QED
      BY <2>1, <2>2
  <1>7. QED
    BY <1>2, <1>6 DEF Settled

-----------------------------------------------------------------------------
(* The identifier *)

\* A value of all its digits is padded by nothing.
LEMMA PaddedWhole ==
    ASSUME NEW w \in Values
    PROVE  Padded(w) = w
  <1>1. CidDigits \in Nat /\ w \in [1 .. CidDigits -> Hex]
    BY HexIs DEF Values
  <1>2. Len(w) = CidDigits /\ w \in Seq(Hex)
    <2>1. Len(w) = CidDigits
      BY <1>1
    <2>2. QED
      BY <1>1, <2>1, SeqDef
  <1>3. PICK z : z = [k \in 1 .. CidDigits - Len(w) |-> Lowest]
    OBVIOUS
  <1>4. z = <<>>
    <2>1. 1 .. CidDigits - Len(w) = {}
      BY <1>1, <1>2
    <2>2. QED
      BY <1>3, <2>1
  <1>5. <<>> \o w = w
    BY <1>2, ConcatEmptySeq
  <1>6. QED
    BY <1>3, <1>4, <1>5 DEF Padded

\* A rewritten field holds the value written.
LEMMA CidRewritten ==
    ASSUME NEW r \in Texts(RegionBytes), NEW a, NEW n, NEW e, IsField(r, a, n, e), NEW w \in Values
    PROVE  /\ CidOf(r) = Padded(SubSeq(r, a, a + n - 1))
           /\ CidOf(PutAt(r, a, n, e, w)) = w
  <1>1. PICK u, y : u = PutAt(r, a, n, e, w) /\ y = e + (CidDigits - n)
    OBVIOUS
  <1>2. u \in Texts(RegionBytes) /\ IsField(u, a, CidDigits, y)
    BY <1>1, RewriteKeeps
  <1>3. /\ LocateContentId(r) = [start |-> a, len |-> n, contentEnd |-> e]
        /\ LocateContentId(u) = [start |-> a, len |-> CidDigits, contentEnd |-> y]
    BY <1>2, FieldIs
  <1>4. CidOf(r) = Padded(SubSeq(r, a, a + n - 1)) /\ CidOf(u) = Padded(SubSeq(u, a, a + CidDigits - 1))
    BY <1>3 DEF CidOf
  <1>5. RegionBytes \in Nat /\ CidDigits \in Nat \ {0} /\ a \in Nat /\ a >= 2 /\ a + CidDigits - 1 <= RegionBytes
    BY <1>2, RegionEnds, HexIs DEF IsField
  <1>6. \A i \in 1 .. CidDigits : u[a + i - 1] = w[i]
    BY <1>1, <1>5, PutIs
  <1>7. SubSeq(u, a, a + CidDigits - 1) = w
    <2>1. PICK b : b = a + CidDigits - 1
      OBVIOUS
    <2>2. b \in Nat /\ a <= b + 1 /\ b <= RegionBytes /\ b - a + 1 = CidDigits
      BY <1>5, <2>1
    <2>3. SubSeq(u, a, b) = [i \in 1 .. b - a + 1 |-> u[a + i - 1]]
      BY <1>2, <1>5, <2>2, PartIs DEF Texts
    <2>4. SubSeq(u, a, b) = [i \in 1 .. CidDigits |-> w[i]]
      BY <1>6, <2>2, <2>3
    <2>5. w = [i \in 1 .. CidDigits |-> w[i]]
      BY DEF Values
    <2>6. QED
      BY <2>1, <2>4, <2>5
  <1>8. QED
    BY <1>1, <1>4, <1>7, PaddedWhole

\* A write that completes moves the identifier, to one that is no sentinel.
LEMMA WholeWriteMoves ==
    ASSUME NEW d, NEW m, DeviceOK(d, m), NEW t, IsRewrite(d, t),
           NEW D, D = {s \in Sectors : d[s] # Sector(t, s)}
    PROVE  CidOf(Region(Mixed(d, t, D))) \notin {CidOf(Region(d))} \cup Sentinels
  <1>1. PICK x : x = Mixed(d, t, D)
    OBVIOUS
  <1>2. d \in Devices /\ x \in Devices
    <2>1. D \subseteq Sectors
      OBVIOUS
    <2>2. DeviceOK(x, MixedMedia(m, t, D))
      BY <1>1, <2>1, WriteKeepsDevice
    <2>3. QED
      BY <2>2 DEF DeviceOK
  <1>3. Region(x) = InRegion(t)
    <2>1. Text(x) = t
      BY <1>1, WholeWrite
    <2>2. QED
      BY <1>2, <2>1, RegionOfText
  <1>4. PICK r, u : r = Region(d) /\ u = InRegion(t)
    OBVIOUS
  <1>5. PICK a, n, e : /\ IsField(r, a, n, e)
                       /\ \E w \in NextContentId(SubSeq(r, a, a + n - 1)) :
                             w \in Values /\ u = PutAt(r, a, n, e, w)
    BY <1>2, <1>4, RewriteIs
  <1>6. PICK w \in NextContentId(SubSeq(r, a, a + n - 1)) : w \in Values /\ u = PutAt(r, a, n, e, w)
    BY <1>5
  <1>7. r \in Texts(RegionBytes)
    BY <1>2, <1>4, RegionIs
  <1>8. CidOf(r) = Padded(SubSeq(r, a, a + n - 1)) /\ CidOf(u) = w
    BY <1>5, <1>6, <1>7, CidRewritten
  <1>9. w \notin {Padded(SubSeq(r, a, a + n - 1))} \cup Sentinels
    BY <1>6 DEF NextContentId
  <1>10. QED
    BY <1>1, <1>3, <1>4, <1>8, <1>9

-----------------------------------------------------------------------------
(* The invariant *)

\* The device is sound, a bump's text is a rewrite of what it holds, what may survive
\* is the region as it was at first up to the value and, where nothing moves across a
\* sector, an image of it, and nothing is pending once the value is bumped.
IInv ==
    /\ pc \in {"closed", "open", "write", "flush"} /\ bumped \in BOOLEAN
    /\ first \in Texts(RegionBytes)
    /\ DeviceOK(disk, media)
    /\ pc \in {"write", "flush"} => text \in Texts(DeviceBytes)
    /\ pc = "write" => IsRewrite(disk, text)
    /\ OnlyImages(first, media) /\ LineKept(first, media)
    /\ pc \in {"write", "flush"} => ~bumped
    /\ bumped => Settled(disk, media)

LEMMA InitDevice ==
    ASSUME NEW o \in Regions, NEW d, d = [s \in Sectors |-> Sector(o \o Beyond, s)],
           NEW m, m = [s \in Sectors |-> {d[s]}]
    PROVE  o \in Texts(RegionBytes) /\ DeviceOK(d, m) /\ OnlyImages(o, m) /\ LineKept(o, m)
  <1>1. o \in [1 .. RegionBytes -> Byte] /\ Beyond \in [1 .. SectorBytes -> Byte]
    BY ContentIdAssumption DEF Byte, Beyond
  <1>2. /\ o \in Seq(Byte) /\ Len(o) = RegionBytes
        /\ Beyond \in Seq(Byte) /\ Len(Beyond) = SectorBytes
    <2>1. RegionBytes \in Nat /\ SectorBytes \in Nat
      BY RegionEnds
    <2>2. Len(o) = RegionBytes /\ Len(Beyond) = SectorBytes
      BY <1>1, <2>1
    <2>3. QED
      BY <1>1, <2>1, <2>2, SeqDef
  <1>3. PICK t : t = o \o Beyond
    OBVIOUS
  <1>4. /\ t \in Seq(Byte) /\ Len(t) = RegionBytes + SectorBytes
        /\ \A i \in 1 .. RegionBytes + SectorBytes : t[i] = IF i <= RegionBytes THEN o[i] ELSE Beyond[i - RegionBytes]
    BY <1>2, <1>3, ConcatProperties
  <1>5. t \in Texts(DeviceBytes)
    <2>1. t \in [1 .. Len(t) -> Byte]
      BY <1>4, LenProperties
    <2>2. QED
      BY <1>4, <2>1 DEF Texts, DeviceBytes
  <1>6. d = [s \in Sectors |-> Sector(t, s)]
    BY <1>3
  <1>7. d \in Devices /\ Text(d) = t
    BY <1>5, <1>6, DeviceOfText
  <1>8. o \in Texts(RegionBytes)
    BY <1>1 DEF Texts
  <1>9. Region(d) = o
    <2>1. PICK r : r = Region(d)
      OBVIOUS
    <2>2. r \in Texts(RegionBytes) /\ \A k \in 1 .. RegionBytes : r[k] = t[k]
      BY <1>7, <2>1, RegionIs
    <2>3. ASSUME NEW k \in 1 .. RegionBytes PROVE r[k] = o[k]
      <3>1. k \in 1 .. RegionBytes + SectorBytes /\ k <= RegionBytes
        BY RegionEnds
      <3>2. QED
        BY <1>4, <2>2, <3>1
    <2>4. r = o
      BY <1>8, <2>2, <2>3, SameText
    <2>5. QED
      BY <2>1, <2>4
  <1>10. d[PastRegion] = Beyond
    <2>1. PICK b : b = Sector(t, PastRegion)
      OBVIOUS
    <2>2. b \in Blocks /\ \A i \in 1 .. SectorBytes : b[i] = t[PastRegion * SectorBytes + i]
      BY <1>5, <2>1, SectorIs, RegionEnds
    <2>3. ASSUME NEW i \in 1 .. SectorBytes PROVE b[i] = Beyond[i]
      <3>1. PICK k : k = PastRegion * SectorBytes + i
        OBVIOUS
      <3>2. k = RegionBytes + i /\ k \in 1 .. RegionBytes + SectorBytes /\ ~(k <= RegionBytes) /\ k - RegionBytes = i
        BY <3>1, RegionEnds
      <3>3. QED
        BY <1>4, <2>2, <3>1, <3>2
    <2>4. b \in Texts(SectorBytes) /\ Beyond \in Texts(SectorBytes)
      BY <1>1, <2>2 DEF Blocks, Texts
    <2>5. b = Beyond
      BY <2>3, <2>4, SameText
    <2>6. QED
      BY <1>6, <2>1, <2>5, RegionEnds
  <1>11. DeviceOK(d, m)
    BY <1>7, <1>10, RegionEnds DEF DeviceOK, Devices
  <1>12. OnlyImages(o, m)
    <2> SUFFICES ASSUME NEW c \in Devices, \A s \in Sectors : c[s] \in m[s]
                 PROVE  Image(o, Region(c))
      BY DEF OnlyImages
    <2>1. \A s \in Sectors : c[s] = d[s]
      OBVIOUS
    <2>2. c = d
      BY <1>7, <2>1 DEF Devices
    <2>3. QED
      BY <1>9, <2>2 DEF Image
  <1>13. LineKept(o, m)
    <2> SUFFICES ASSUME NEW s \in Sectors, NEW p \in 1 .. SectorBytes, s * SectorBytes + p < ValueAt(o)
                 PROVE  d[s][p] = o[s * SectorBytes + p]
      BY DEF LineKept
    <2>1. PICK k, b : k = s * SectorBytes + p /\ b = Sector(t, s)
      OBVIOUS
    <2>2. d[s] = b /\ b[p] = t[k]
      BY <1>5, <1>6, <2>1, SectorIs
    <2>3. k \in 1 .. DeviceBytes /\ k < ValueAt(o)
      BY <2>1, PlaceOf
    <2>4. ValueAt(o) \in 1 .. RegionBytes + 1
      BY <1>8, ValueAtIs
    <2>5. k \in 1 .. RegionBytes + SectorBytes /\ k <= RegionBytes
      BY <2>3, <2>4, RegionEnds
    <2>6. t[k] = o[k]
      BY <1>4, <2>5
    <2>7. QED
      BY <2>1, <2>2, <2>6
  <1>14. QED
    BY <1>8, <1>11, <1>12, <1>13

LEMMA InitIInv == Init => IInv
  <1> SUFFICES ASSUME Init PROVE IInv
    OBVIOUS
  <1>1. /\ first \in Regions /\ disk = [s \in Sectors |-> Sector(first \o Beyond, s)]
        /\ media = [s \in Sectors |-> {disk[s]}] /\ pc = "closed" /\ bumped = FALSE
    BY DEF Init
  <1>2. PICK o, d, m : o = first /\ d = disk /\ m = media
    OBVIOUS
  <1>3. o \in Regions /\ d = [s \in Sectors |-> Sector(o \o Beyond, s)] /\ m = [s \in Sectors |-> {d[s]}]
    BY <1>1, <1>2
  <1>4. o \in Texts(RegionBytes) /\ DeviceOK(d, m) /\ OnlyImages(o, m) /\ LineKept(o, m)
    BY <1>3, InitDevice
  <1>5. QED
    BY <1>1, <1>2, <1>4 DEF IInv

\* A device call in the model's words and in those of the lemmas above.
LEMMA WriteAllIs ==
    ASSUME NEW D, D \subseteq Sectors, DeviceOK(disk, media),
           DevWriteAll([s \in D |-> Sector(text, s)])
    PROVE  disk' = Mixed(disk, text, D) /\ media' = MixedMedia(media, text, D)
  <1>1. PICK f : f = [s \in D |-> Sector(text, s)]
    OBVIOUS
  <1>2. DOMAIN disk = Sectors /\ DOMAIN f = D /\ \A s \in D : f[s] = Sector(text, s)
    BY <1>1 DEF DeviceOK, Devices
  <1>3. /\ disk' = [l \in DOMAIN disk |-> IF l \in DOMAIN f THEN f[l] ELSE disk[l]]
        /\ media' = [l \in DOMAIN disk |-> IF l \in DOMAIN f THEN media[l] \cup {f[l]} ELSE media[l]]
    BY <1>1 DEF DevWriteAll, Locations
  <1>4. disk' = [l \in Sectors |-> IF l \in D THEN Sector(text, l) ELSE disk[l]]
    BY <1>2, <1>3
  <1>5. media' = [l \in Sectors |-> IF l \in D THEN media[l] \cup {Sector(text, l)} ELSE media[l]]
    BY <1>2, <1>3
  <1>6. QED
    BY <1>4, <1>5 DEF Mixed, MixedMedia

\* What a step of each action leaves of the invariant.
LEMMA OpenKeeps ==
    ASSUME IInv, Open \/ Close PROVE IInv'
  <1>1. UNCHANGED <<disk, media, text, first>> /\ pc' \in {"open", "closed"} /\ (bumped' = FALSE \/ UNCHANGED bumped)
    BY DEF Open, Close, devVars
  <1>2. DeviceOK(disk, media)' /\ OnlyImages(first, media)' /\ LineKept(first, media)'
    BY <1>1 DEF IInv
  <1>3. bumped' \in BOOLEAN /\ (bumped' => Settled(disk, media)')
    <2>1. CASE bumped' = FALSE
      BY <2>1
    <2>2. CASE UNCHANGED bumped
      BY <1>1, <2>2 DEF IInv
    <2>3. QED
      BY <1>1, <2>1, <2>2
  <1>4. QED
    BY <1>1, <1>2, <1>3 DEF IInv

LEMMA BumpKeeps ==
    ASSUME IInv, Bump PROVE IInv'
  <1>1. UNCHANGED <<disk, media, first>> /\ pc = "open" /\ ~bumped
    BY DEF Bump, devVars
  <1>2. PICK r, f : r = Region(disk) /\ f = LocateContentId(r)
    OBVIOUS
  <1>3. CASE f = NoField /\ bumped' = TRUE /\ UNCHANGED <<pc, text>>
    <2>1. PICK o, d, m : o = first /\ d = disk /\ m = media
      OBVIOUS
    <2>2. o \in Texts(RegionBytes) /\ DeviceOK(d, m) /\ LineKept(o, m) /\ LocateContentId(Region(d)) = NoField
      BY <1>2, <1>3, <2>1 DEF IInv
    <2>3. Settled(d, m)
      BY <2>2, NoFieldSettled
    <2>4. Settled(disk, media)'
      BY <1>1, <2>1, <2>3
    <2>5. QED
      BY <1>1, <1>3, <2>4 DEF IInv
  <1>4. CASE /\ f \notin {NoField, Unwritable}
             /\ \E next \in NextContentId(SubSeq(r, f.start, f.start + f.len - 1)) :
                   text' = Overwritten(Text(disk), f.start, Rewritten(r, f, next))
             /\ pc' = "write" /\ UNCHANGED bumped
    <2>1. PICK next \in NextContentId(SubSeq(r, f.start, f.start + f.len - 1)) :
              text' = Overwritten(Text(disk), f.start, Rewritten(r, f, next))
      BY <1>4
    <2>2. PICK d, t : d = disk /\ t = text'
      OBVIOUS
    <2>3. d \in Devices
      BY <2>2 DEF IInv, DeviceOK
    <2>4. IsRewrite(d, t)
      BY <1>2, <1>4, <2>1, <2>2, <2>3, BumpPrepares
    <2>5. t \in Texts(DeviceBytes)
      BY <2>3, <2>4, RewriteIs
    <2>6. IsRewrite(disk, text)' /\ text' \in Texts(DeviceBytes)
      BY <1>1, <2>2, <2>4, <2>5
    <2>7. QED
      BY <1>1, <1>4, <2>6 DEF IInv
  <1>5. QED
    BY <1>2, <1>3, <1>4 DEF Bump

\* Any of the sectors of a rewrite, written.
LEMMA PartKeeps ==
    ASSUME IInv, pc = "write", NEW D, D \subseteq Sectors, DevWriteAll([s \in D |-> Sector(text, s)]),
           UNCHANGED <<text, bumped, first>>, pc' \in {"flush", "open"}
    PROVE  IInv'
  <1>1. PICK d, m, t, o : d = disk /\ m = media /\ t = text /\ o = first
    OBVIOUS
  <1>2. /\ DeviceOK(d, m) /\ IsRewrite(d, t) /\ o \in Texts(RegionBytes)
        /\ OnlyImages(o, m) /\ LineKept(o, m)
    BY <1>1 DEF IInv
  <1>3. disk' = Mixed(d, t, D) /\ media' = MixedMedia(m, t, D)
    BY <1>1, WriteAllIs DEF IInv
  <1>4. /\ DeviceOK(Mixed(d, t, D), MixedMedia(m, t, D))
        /\ OnlyImages(o, MixedMedia(m, t, D)) /\ LineKept(o, MixedMedia(m, t, D))
    BY <1>2, WriteKeepsDevice, WriteKeepsImages, WriteKeepsLine
  <1>5. DeviceOK(disk, media)' /\ OnlyImages(first, media)' /\ LineKept(first, media)'
    BY <1>1, <1>3, <1>4
  <1>6. QED
    BY <1>5 DEF IInv

\* What is on the medium alone, and the device holding that.
LEMMA SettledKeeps ==
    ASSUME IInv, NEW c, \A s \in Sectors : c[s] \in media[s],
           disk' = [s \in Sectors |-> c[s]], media' = [s \in Sectors |-> {c[s]}],
           UNCHANGED first, pc' \in {"open", "closed"}, bumped' \in BOOLEAN
    PROVE  IInv'
  <1>1. PICK d, m, o, x, y : d = disk /\ m = media /\ o = first /\ x = disk' /\ y = media'
    OBVIOUS
  <1>2. DeviceOK(d, m) /\ o \in Texts(RegionBytes) /\ OnlyImages(o, m) /\ LineKept(o, m)
    BY <1>1 DEF IInv
  <1>3. \A s \in Sectors : x[s] = c[s]
    BY <1>1
  <1>4. /\ x = [s \in Sectors |-> x[s]] /\ y = [s \in Sectors |-> {x[s]}]
        /\ \A s \in Sectors : x[s] \in m[s]
    BY <1>1, <1>3
  <1>5. DeviceOK(x, y) /\ OnlyImages(o, y) /\ LineKept(o, y) /\ Settled(x, y)
    <2>1. DeviceOK(x, y) /\ OnlyImages(o, y)
      BY <1>2, <1>4, SettleKeeps
    <2>2. LineKept(o, y)
      BY <1>2, <1>4, SettleKeepsLine
    <2>3. QED
      BY <1>4, <2>1, <2>2 DEF Settled
  <1>6. DeviceOK(disk, media)' /\ OnlyImages(first, media)' /\ LineKept(first, media)' /\ Settled(disk, media)'
    BY <1>1, <1>5
  <1>7. QED
    BY <1>6 DEF IInv

LEMMA StepIInv == IInv /\ [Next]_vars => IInv'
  <1> SUFFICES ASSUME IInv, [Next]_vars PROVE IInv'
    OBVIOUS
  <1>1. DOMAIN disk = Sectors /\ \A s \in Sectors : disk[s] \in media[s]
    BY DEF IInv, DeviceOK, Devices
  <1>2. CASE Open
    BY <1>2, OpenKeeps
  <1>3. CASE Close
    BY <1>3, OpenKeeps
  <1>4. CASE Bump
    BY <1>4, BumpKeeps
  <1>5. CASE Write
    <2>1. Changed \subseteq Sectors
      BY DEF Changed
    <2>2. DevWriteAll([s \in Changed |-> Sector(text, s)])
          /\ pc = "write" /\ pc' = "flush" /\ UNCHANGED <<text, bumped, first>>
      BY <1>5 DEF Write
    <2>3. QED
      BY <2>1, <2>2, PartKeeps
  <1>6. CASE Flush
    <2>1. /\ disk' = disk /\ media' = [l \in Sectors |-> {disk[l]}]
          /\ UNCHANGED first /\ pc' = "open" /\ bumped' = TRUE
      BY <1>1, <1>6 DEF Flush, DevFlush, Locations
    <2>2. disk' = [s \in Sectors |-> disk[s]]
      BY <2>1 DEF IInv, DeviceOK, Devices
    <2>3. QED
      BY <1>1, <2>1, <2>2, SettledKeeps
  <1>7. CASE Fails
    <2>1. UNCHANGED <<text, bumped, first>> /\ pc' = "open"
      BY <1>7 DEF Fails
    <2>2. CASE pc = "write" /\ \E n \in Sectors \cup {Cardinality(Sectors)} :
                   DevWriteAll([s \in {c \in Changed : c < n} |-> Sector(text, s)])
      <3>1. PICK n : DevWriteAll([s \in {c \in Changed : c < n} |-> Sector(text, s)])
        BY <2>2
      <3>2. PICK D : D = {c \in Changed : c < n}
        OBVIOUS
      <3>3. D \subseteq Sectors /\ DevWriteAll([s \in D |-> Sector(text, s)])
        BY <3>1, <3>2 DEF Changed
      <3>4. QED
        BY <2>1, <2>2, <3>3, PartKeeps
    <2>3. CASE pc = "flush" /\ DevFlushFails
      BY <2>1, <2>3 DEF IInv, DevFlushFails, devVars
    <2>4. QED
      BY <1>7, <2>2, <2>3 DEF Fails
  <1>8. CASE Crash
    <2>1. PICK c : DevCrash(c)
      BY <1>8 DEF Crash
    <2>2. /\ \A s \in Sectors : c[s] \in media[s]
          /\ disk' = [s \in Sectors |-> c[s]] /\ media' = [s \in Sectors |-> {c[s]}]
      BY <1>1, <2>1 DEF DevCrash, Locations
    <2>3. UNCHANGED first /\ pc' = "closed" /\ bumped' = FALSE
      BY <1>8 DEF Crash
    <2>4. QED
      BY <2>2, <2>3, SettledKeeps
  <1>9. CASE UNCHANGED vars
    BY <1>9 DEF vars, IInv
  <1>10. QED
    BY <1>2, <1>3, <1>4, <1>5, <1>6, <1>7, <1>8, <1>9 DEF Next

LEMMA AlwaysIInv == Spec => []IInv
  <1>1. Init => IInv
    BY InitIInv
  <1>2. IInv /\ [Next]_vars => IInv'
    BY StepIInv
  <1>3. QED
    BY <1>1, <1>2, PTL DEF Spec

-----------------------------------------------------------------------------
(* Theorems *)

\* Whatever the descriptors, faults and crashes, the device keeps its sectors whole
\* and a bump writes a text of the device's length (bump_content_id's one write).
THEOREM TypeCorrect == Spec => []TypeOK
  <1>1. IInv => TypeOK
    <2> SUFFICES ASSUME IInv PROVE TypeOK
      OBVIOUS
    <2>1. ASSUME NEW s \in Sectors PROVE disk[s] \in media[s] /\ Len(disk[s]) = SectorBytes
      <3>1. disk[s] \in media[s] /\ disk[s] \in [1 .. SectorBytes -> Byte]
        BY DEF IInv, DeviceOK, Devices, Blocks
      <3>2. SectorBytes \in Nat
        BY RegionEnds
      <3>3. QED
        BY <3>1, <3>2
    <2>2. ASSUME pc \in {"write", "flush"} PROVE Len(text) = DeviceBytes
      <3>1. text \in [1 .. DeviceBytes -> Byte] /\ DeviceBytes \in Nat
        BY <2>2, RegionEnds DEF IInv, Texts
      <3>2. QED
        BY <3>1
    <2>3. QED
      BY <2>1, <2>2 DEF IInv, TypeOK
  <1>2. QED
    BY <1>1, AlwaysIInv, PTL

\* A bump's write that completes, from any text an earlier failure or crash may have
\* left, changes the value of the first CID= line and nothing else a reader sees,
\* and leaves it all its digits.
THEOREM BumpIsExact == Spec => BumpKeepsTheRest
  <1>1. ASSUME IInv, [Next]_vars, pc = "write", pc' = "flush"
        PROVE  /\ SameButCid(Region(disk), Region(disk'))
               /\ LocateContentId(Region(disk')).len = CidDigits
    <2>1. Write
      BY <1>1 DEF Next, Open, Close, Bump, Write, Flush, Fails, Crash, vars
    <2>2. PICK D : D = {s \in Sectors : disk[s] # Sector(text, s)}
      OBVIOUS
    <2>3. disk' = Mixed(disk, text, D)
      <3>1. D \subseteq Sectors /\ DevWriteAll([s \in D |-> Sector(text, s)])
        BY <2>1, <2>2 DEF Write, Changed
      <3>2. QED
        BY <1>1, <3>1, WriteAllIs DEF IInv
    <2>4. PICK d, m, t, x : d = disk /\ m = media /\ t = text /\ x = disk'
      OBVIOUS
    <2>5. DeviceOK(d, m) /\ IsRewrite(d, t) /\ D = {s \in Sectors : d[s] # Sector(t, s)} /\ x = Mixed(d, t, D)
      BY <1>1, <2>2, <2>3, <2>4 DEF IInv
    <2>6. SameButCid(Region(d), Region(x)) /\ LocateContentId(Region(x)).len = CidDigits
      BY <2>5, WholeWriteKeeps
    <2>7. QED
      BY <2>4, <2>6
  <1>2. IInv /\ [Next]_vars =>
            [pc = "write" /\ pc' = "flush" =>
                /\ SameButCid(Region(disk), Region(disk'))
                /\ LocateContentId(Region(disk')).len = CidDigits]_vars
    BY <1>1
  <1>3. QED
    BY <1>2, AlwaysIInv, PTL DEF Spec, BumpKeepsTheRest

\* Whatever locate_content_id accepts, however many values are widened, torn by a
\* crash or left half written, and then rewritten from what was left, every byte up to
\* the value of the first CID= line is the one the descriptor began with, and the
\* sector past the region is intact, on the device and in all that may survive.
THEOREM RewritesAreConfined == Spec => []RewriteIsConfined
  <1>1. IInv => LineIsKept
    BY DEF IInv, LineKept, ValueAt, LineIsKept
  <1>2. IInv => RegionIsTheLimit
    BY DEF IInv, DeviceOK, RegionIsTheLimit, PastRegion
  <1>3. IInv => RewriteIsConfined
    BY <1>1, <1>2 DEF RewriteIsConfined
  <1>4. QED
    BY <1>3, AlwaysIInv, PTL

\* content_id_bumped says the new value is durable: nothing the bump wrote, nor any
\* attempt that failed before it, is still to reach the medium.
THEOREM BumpedIsSafe == Spec => []BumpedIsDurable
  <1>1. IInv => BumpedIsDurable
    BY DEF IInv, Settled, BumpedIsDurable
  <1>2. QED
    BY <1>1, AlwaysIInv, PTL

\* A bump's write that completes, from any text an earlier failure or crash may have
\* left, moves the identifier, to one of all its digits and no sentinel.
THEOREM BumpMovesIdentifier == Spec => BumpMovesTheCid
  <1>1. ASSUME IInv, [Next]_vars, pc = "write", pc' = "flush"
        PROVE  CidOf(Region(disk')) \notin {CidOf(Region(disk))} \cup Sentinels
    <2>1. Write
      BY <1>1 DEF Next, Open, Close, Bump, Write, Flush, Fails, Crash, vars
    <2>2. PICK D : D = {s \in Sectors : disk[s] # Sector(text, s)}
      OBVIOUS
    <2>3. disk' = Mixed(disk, text, D)
      <3>1. D \subseteq Sectors /\ DevWriteAll([s \in D |-> Sector(text, s)])
        BY <2>1, <2>2 DEF Write, Changed
      <3>2. QED
        BY <1>1, <3>1, WriteAllIs DEF IInv
    <2>4. PICK d, m, t, x : d = disk /\ m = media /\ t = text /\ x = disk'
      OBVIOUS
    <2>5. DeviceOK(d, m) /\ IsRewrite(d, t) /\ D = {s \in Sectors : d[s] # Sector(t, s)} /\ x = Mixed(d, t, D)
      BY <1>1, <2>2, <2>3, <2>4 DEF IInv
    <2>6. CidOf(Region(x)) \notin {CidOf(Region(d))} \cup Sentinels
      BY <2>5, WholeWriteMoves
    <2>7. QED
      BY <2>4, <2>6
  <1>2. IInv /\ [Next]_vars =>
            [pc = "write" /\ pc' = "flush" =>
                CidOf(Region(disk')) \notin {CidOf(Region(disk))} \cup Sentinels]_vars
    BY <1>1
  <1>3. QED
    BY <1>2, AlwaysIInv, PTL DEF Spec, BumpMovesTheCid

\* Where the value has all its digits, or all that widening it moves lies in one
\* sector, whatever a crash or a failed write leaves, at any point of any number of
\* sessions, says what the descriptor said and opens for writing again.
THEOREM DescriptorIsSafe == Spec => []DescriptorSurvives
  <1>1. IInv => DescriptorSurvives
    <2> SUFFICES ASSUME IInv, LocateContentId(first) # Unwritable, ~Moves(first),
                        NEW c \in [Sectors -> UNION {media[s] : s \in Sectors}],
                        \A s \in Sectors : c[s] \in media[s]
                 PROVE  Keeps(Region(c))
      BY DEF DescriptorSurvives
    <2>1. PICK o, m : o = first /\ m = media
      OBVIOUS
    <2>2. o \in Texts(RegionBytes) /\ OnlyImages(o, m) /\ DeviceOK(disk, m)
      BY <2>1 DEF IInv
    <2>3. c \in Devices
      BY <2>1, <2>2 DEF DeviceOK, Devices
    <2>4. Image(o, Region(c))
      BY <2>1, <2>2, <2>3 DEF OnlyImages
    <2>5. Told(Region(c)) = Told(o) /\ LocateContentId(Region(c)) # Unwritable
      BY <2>1, <2>2, <2>4, ImageKeeps
    <2>6. QED
      BY <2>1, <2>5 DEF Keeps, SameButCid
  <1>2. QED
    BY <1>1, AlwaysIInv, PTL
=============================================================================
