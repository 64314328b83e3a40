---------------------------- MODULE ReadPath_proof ----------------------------
(***************************************************************************)
(* ReadPath is correct for any image, any size of grain and any number of  *)
(* readers that share the one slot of inflated data.                       *)
(***************************************************************************)
EXTENDS ReadPath, SequenceTheorems, TLAPS

-----------------------------------------------------------------------------
(* Arithmetic of grains *)

LEMMA Division ==
    ASSUME NEW g \in Nat \ {0}, NEW a \in Nat
    PROVE  a \div g \in Nat /\ a % g \in 0 .. g - 1 /\ a % g = a - g * (a \div g)
  <1>1. a % g = a - g * (a \div g)
    BY SMTT(30)
  <1>2. a \div g \in Nat /\ a % g \in 0 .. g - 1
    OBVIOUS
  <1>3. QED
    BY <1>1, <1>2

LEMMA OneDivision ==
    ASSUME NEW g \in Nat \ {0}, NEW d \in Nat, NEW e \in Nat, NEW r \in 0 .. g - 1, NEW s \in 0 .. g - 1,
           g * d + r = g * e + s
    PROVE  d = e /\ r = s
  OBVIOUS

\* Positions of one grain.
LEMMA SameGrain ==
    ASSUME NEW g \in Nat \ {0}, NEW a \in Nat, NEW k \in Nat, (a % g) + k < g
    PROVE  (a + k) \div g = a \div g /\ (a + k) % g = (a % g) + k
  <1> DEFINE d == a \div g
             e == (a + k) \div g
             r == a % g
             s == (a + k) % g
  <1>1. d \in Nat /\ e \in Nat /\ r \in 0 .. g - 1 /\ s \in 0 .. g - 1 /\ a + k \in Nat
    OBVIOUS
  <1>2. r = a - g * d /\ s = (a + k) - g * e
    BY <1>1, Division
  <1>3. r + k \in 0 .. g - 1
    BY <1>1
  <1> HIDE DEF d, e, r, s
  <1>4. g * d \in Nat /\ g * e \in Nat
    BY <1>1
  <1>5. g * d + (r + k) = g * e + s
    BY <1>1, <1>2, <1>4
  <1>6. d = e /\ r + k = s
    BY <1>1, <1>3, <1>5, OneDivision
  <1>7. QED
    BY <1>6 DEF d, e, r, s

LEMMA DivisionGrows ==
    ASSUME NEW g \in Nat \ {0}, NEW a \in Nat, NEW b \in Nat, a <= b
    PROVE  a \div g <= b \div g
  OBVIOUS

\* What of a range lies in the grain at its cursor.
LEMMA GrainIs ==
    ASSUME NEW at \in Nat, NEW end \in Nat, at < end, end <= VirtualUnits, VirtualUnits \in Nat
    PROVE  LET h == Address(at, end)
               start == h.grain * GrainUnits
           IN
           /\ h.in \in 0 .. GrainUnits - 1 /\ h.len \in Nat \ {0}
           /\ h.in + h.len <= GrainUnits /\ at + h.len <= end
           /\ h.grain \in 0 .. (VirtualUnits - 1) \div GrainUnits
           /\ start \in Nat /\ start + h.in = at
           /\ \A k \in 0 .. h.len - 1 :
                 /\ (at + k) \div GrainUnits = h.grain /\ (at + k) % GrainUnits = h.in + k
                 /\ (at + k) - ((at + k) % GrainUnits) = start
                 /\ at + k \in Nat /\ at + k < VirtualUnits
  <1> DEFINE h == Address(at, end)
             g == GrainUnits
             in == at % g
             d == at \div g
             len == Lesser(g - in, end - at)
             v == VirtualUnits
  <1>1. g \in Nat \ {0}
    BY ReadAssumption
  <1>2. h.in = in /\ h.grain = d /\ h.len = len
    BY DEF Address
  <1>3. d \in Nat /\ in \in 0 .. g - 1 /\ in = at - g * d
    <2> HIDE DEF g
    <2>1. QED
      BY <1>1, Division
  <1>4. d <= (v - 1) \div g /\ (v - 1) \div g \in Nat
    <2>1. v - 1 \in Nat /\ at <= v - 1
      OBVIOUS
    <2> HIDE DEF g, v
    <2>2. QED
      BY <1>1, <2>1, DivisionGrows, Division
  <1> HIDE DEF h, g, in, v
  <1>5. len \in Nat \ {0} /\ in + len <= g /\ at + len <= end
    BY <1>1, <1>3 DEF Lesser
  <1> HIDE DEF d, len
  <1>6. d * g \in Nat /\ d * g + in = at /\ d * g = g * d
    <2>1. d * g \in Nat /\ g * d \in Nat /\ d * g = g * d
      BY <1>1, <1>3
    <2>2. QED
      BY <1>3, <2>1
  <1>7. ASSUME NEW k \in 0 .. len - 1
        PROVE  /\ (at + k) \div g = d /\ (at + k) % g = in + k /\ (at + k) - ((at + k) % g) = d * g
               /\ at + k \in Nat /\ at + k < v
    <2>1. k \in Nat /\ in + k < g /\ at + k < end
      BY <1>1, <1>3, <1>5
    <2>2. (at + k) \div g = d /\ (at + k) % g = in + k
      <3>1. (at % g) + k < g
        BY <2>1 DEF in
      <3>2. (at + k) \div g = at \div g /\ (at + k) % g = (at % g) + k
        BY <1>1, <2>1, <3>1, SameGrain
      <3>3. QED
        BY ONLY <3>2 DEF d, in
    <2>3. (at + k) - (in + k) = d * g
      BY <1>3, <1>6, <2>1
    <2>4. QED
      BY <2>1, <2>2, <2>3 DEF v
  <1>8. QED
    BY <1>2, <1>3, <1>4, <1>5, <1>6, <1>7 DEF g, v, h

-----------------------------------------------------------------------------
(* The invariant of a reader *)

Places == {"idle", "walk", "record", "keep"}
Results == {"none", "ok", "corrupt", "io"}

Cursor(m) ==
    /\ m = [offset |-> m.offset, at |-> m.at, end |-> m.end, run |-> m.run, buf |-> m.buf]
    /\ m.offset \in Nat /\ m.at \in Nat /\ m.end \in Nat
    /\ m.offset <= m.at /\ m.at <= m.end /\ m.end <= VirtualUnits
    /\ DOMAIN m.buf = m.offset .. m.end - 1

\* The pending run ends at the cursor, and each of its units is in its place.
Pending(m) ==
    m.run # None =>
        /\ ~Stream /\ m.run \in Nat \X Nat \X (Nat \ {0})
        /\ m.offset <= m.run[2] /\ m.run[2] + m.run[3] = m.at
        /\ \A k \in 0 .. m.run[3] - 1 : Truth(m.run[2] + k) = Host(m.run[1] + k)

\* How far the buffer is filled.
Filled(m) == IF m.run = None THEN m.at ELSE m.run[2]

\* Done so far: what is filled is true, what the cursor has passed is readable.
Sound(m) ==
    /\ \A u \in m.offset .. Filled(m) - 1 : m.buf[u] = Truth(u)
    /\ \A u \in m.offset .. m.at - 1 : ReadableAlone(u)

ReaderOK(r) ==
    LET m == my[r] IN
    /\ Cursor(m) /\ Pending(m)
    /\ pc[r] # "idle" => result[r] = "none" /\ Sound(m)
    /\ pc[r] \in {"record", "keep"} => Stream /\ m.at < m.end /\ Entry(r) # Hole
    /\ pc[r] = "keep" => RecordIsGood(Entry(r), Start(r))
    /\ result[r] = "ok" =>
          \A u \in m.offset .. m.end - 1 : m.buf[u] = Truth(u) /\ ReadableAlone(u)
    /\ result[r] = "corrupt" => \E u \in m.offset .. m.end - 1 : ~ReadableAlone(u)

\* The cached grain is the one its key names.
CacheOK ==
    inflated # None =>
        \E e, s : /\ inflated = <<<<e, s>>, Inflated(image.records[e])>>
                  /\ RecordIsGood(e, s)

Typed ==
    /\ image \in Images
    /\ pc \in [Readers -> Places] /\ result \in [Readers -> Results]
    /\ my = [r \in Readers |-> my[r]] /\ reads = [r \in Readers |-> reads[r]]
    /\ CacheOK
    /\ \A r \in Readers : ReaderOK(r)

LEMMA ImageIs ==
    ASSUME image \in Images
    PROVE  /\ VirtualUnits \in Nat \ {0} /\ Stream \in BOOLEAN /\ image.limit \in Nat
           /\ image.entry \in [0 .. (VirtualUnits - 1) \div GrainUnits -> Nat \cup {Hole, Bad}]
           /\ Stream => \A g \in DOMAIN image.entry :
                           image.entry[g] \in Nat => image.records[image.entry[g]].inflates \in Int
           /\ GrainUnits \in Nat \ {0}
  BY ReadAssumption DEF VirtualUnits, Stream

\* The grain at a reader's cursor, and what its units are.
LEMMA HereIs ==
    ASSUME image \in Images, NEW r \in Readers, Cursor(my[r]), my[r].at < my[r].end
    PROVE  LET at == my[r].at
               h == Here(r)
               e == Entry(r)
           IN
           /\ h.in \in 0 .. GrainUnits - 1 /\ h.len \in Nat \ {0}
           /\ h.in + h.len <= GrainUnits /\ at + h.len <= my[r].end
           /\ e \in Nat \cup {Hole, Bad}
           /\ Start(r) \in Nat /\ Start(r) + h.in = at
           /\ Stream /\ e \in Nat => image.records[e].inflates \in Int
           /\ \A k \in 0 .. h.len - 1 :
                 /\ Truth(at + k) = IF e = Hole THEN Blank
                                    ELSE IF Stream THEN Record(Start(r), h.in + k)
                                    ELSE Host(e + (h.in + k))
                 /\ ReadableAlone(at + k) <=>
                       (e = Hole \/ IF Stream THEN RecordIsGood(e, Start(r))
                                              ELSE HostOffset(e, h.in + k, 1) # Bad)
                 /\ at + k < VirtualUnits
  <1> DEFINE at == my[r].at
             end == my[r].end
             h == Here(r)
             e == Entry(r)
  <1>1. /\ at \in Nat /\ end \in Nat /\ at < end /\ end <= VirtualUnits /\ VirtualUnits \in Nat
    BY ImageIs DEF Cursor
  <1>2. h = Address(at, end) /\ e = image.entry[h.grain] /\ Start(r) = h.grain * GrainUnits
    BY DEF Here, Entry, Start
  <1> HIDE DEF at, end, h, e
  <1>3. /\ h.in \in 0 .. GrainUnits - 1 /\ h.len \in Nat \ {0}
        /\ h.in + h.len <= GrainUnits /\ at + h.len <= end
        /\ h.grain \in 0 .. (VirtualUnits - 1) \div GrainUnits
        /\ Start(r) \in Nat /\ Start(r) + h.in = at
        /\ \A k \in 0 .. h.len - 1 :
              /\ (at + k) \div GrainUnits = h.grain /\ (at + k) % GrainUnits = h.in + k
              /\ (at + k) - ((at + k) % GrainUnits) = Start(r)
              /\ at + k \in Nat /\ at + k < VirtualUnits
    BY <1>1, <1>2, GrainIs
  <1>4. /\ e \in Nat \cup {Hole, Bad}
        /\ Stream /\ e \in Nat => image.records[e].inflates \in Int
        /\ Stream \in BOOLEAN
    BY <1>2, <1>3, ImageIs
  <1>5. ASSUME NEW k \in 0 .. h.len - 1
        PROVE  /\ Truth(at + k) = IF e = Hole THEN Blank
                                  ELSE IF Stream THEN Record(Start(r), h.in + k)
                                  ELSE Host(e + (h.in + k))
               /\ ReadableAlone(at + k) <=>
                     (e = Hole \/ IF Stream THEN RecordIsGood(e, Start(r))
                                            ELSE HostOffset(e, h.in + k, 1) # Bad)
               /\ at + k < VirtualUnits
    <2> DEFINE u == at + k
    <2>1. /\ image.entry[u \div GrainUnits] = e /\ u % GrainUnits = h.in + k
          /\ u - (u % GrainUnits) = Start(r) /\ u < VirtualUnits
      BY <1>2, <1>3
    <2> HIDE DEF u
    <2>2. Truth(u) = IF e = Hole THEN Blank
                     ELSE IF Stream THEN Record(Start(r), h.in + k) ELSE Host(e + (h.in + k))
      BY <1>4, <2>1 DEF Truth
    <2>3. ReadableAlone(u) <=> (e = Hole \/ IF Stream THEN RecordIsGood(e, Start(r))
                                                    ELSE HostOffset(e, h.in + k, 1) # Bad)
      BY <2>1 DEF ReadableAlone
    <2>4. QED
      BY <2>1, <2>2, <2>3 DEF u
  <1>6. QED
    BY <1>3, <1>4, <1>5 DEF at, end, h, e

\* Units put into a buffer from one of its places on.
LEMMA FillIs ==
    ASSUME NEW old, NEW a \in Nat, NEW b \in Nat, DOMAIN old = a .. b - 1,
           NEW from \in Nat, NEW n \in Nat, NEW units, DOMAIN units = 0 .. n - 1,
           a <= from, from + n <= b,
           NEW new, new = Fill(old, from, units)
    PROVE  /\ DOMAIN new = a .. b - 1
           /\ \A u \in a .. from - 1 : new[u] = old[u]
           /\ \A u \in from .. from + n - 1 : new[u] = units[u - from] /\ u - from \in 0 .. n - 1
  <1>1. DOMAIN new = a .. b - 1
    BY DEF Fill
  <1>2. ASSUME NEW u \in a .. from - 1 PROVE new[u] = old[u]
    <2>1. u \in DOMAIN old /\ u - from \notin DOMAIN units
      OBVIOUS
    <2>2. QED
      BY <2>1 DEF Fill
  <1>3. ASSUME NEW u \in from .. from + n - 1
        PROVE  new[u] = units[u - from] /\ u - from \in 0 .. n - 1
    <2>1. u \in DOMAIN old /\ u - from \in DOMAIN units
      OBVIOUS
    <2>2. QED
      BY <2>1 DEF Fill
  <1>4. QED
    BY <1>1, <1>2, <1>3

LEMMA TypedInit == Init => Typed
  <1> SUFFICES ASSUME Init PROVE Typed
    OBVIOUS
  <1>1. image \in Images /\ inflated = None
    BY DEF Init
  <1>2. Cursor(Idle) /\ Idle.run = None
    <2>1. DOMAIN <<>> = 0 .. 0 - 1
      OBVIOUS
    <2>2. QED
      BY <1>1, <2>1, ImageIs DEF Cursor, Idle
  <1>3. \A r \in Readers : ReaderOK(r)
    BY <1>2 DEF Init, ReaderOK, Pending
  <1>4. QED
    BY <1>1, <1>3 DEF Init, Typed, CacheOK, Places, Results

\* What is said of a reader's cursor depends on the image and the cursor alone.
LEMMA SameCursor ==
    ASSUME image' = image, NEW q \in Readers, my'[q] = my[q]
    PROVE  /\ Cursor(my[q])' <=> Cursor(my[q])
           /\ Pending(my[q])' <=> Pending(my[q])
           /\ Sound(my[q])' <=> Sound(my[q])
           /\ Stream' <=> Stream
           /\ Entry(q)' = Entry(q) /\ Start(q)' = Start(q)
           /\ \A u : Truth(u)' = Truth(u) /\ (ReadableAlone(u)' <=> ReadableAlone(u))
           /\ \A e, s : RecordIsGood(e, s)' <=> RecordIsGood(e, s)
  <1>1. VirtualUnits' = VirtualUnits /\ (Stream' <=> Stream)
    BY DEF VirtualUnits, Stream
  <1>2. Entry(q)' = Entry(q) /\ Start(q)' = Start(q)
    BY DEF Entry, Start, Here
  <1>3. \A e, s : RecordIsGood(e, s)' <=> RecordIsGood(e, s)
    BY <1>1 DEF RecordIsGood
  <1>4. \A u : Truth(u)' = Truth(u)
    BY <1>1 DEF Truth
  <1>5. \A u : ReadableAlone(u)' <=> ReadableAlone(u)
    BY <1>1, <1>3 DEF ReadableAlone, HostOffset
  <1>6. Cursor(my[q])' <=> Cursor(my[q])
    BY <1>1 DEF Cursor
  <1>7. Pending(my[q])' <=> Pending(my[q])
    BY <1>1, <1>4 DEF Pending
  <1>8. Sound(my[q])' <=> Sound(my[q])
    BY <1>4, <1>5 DEF Sound, Filled
  <1>9. QED
    BY <1>1, <1>2, <1>3, <1>4, <1>5, <1>6, <1>7, <1>8

\* A reader whose state and image stay is as it was.
LEMMA SameReader ==
    ASSUME image' = image, NEW q \in Readers, my'[q] = my[q], pc'[q] = pc[q],
           result'[q] = result[q], ReaderOK(q)
    PROVE  ReaderOK(q)'
  BY SameCursor DEF ReaderOK

\* A step of one reader leaves the others as they are.
LEMMA Frame ==
    ASSUME Typed, NEW r \in Readers, image' = image, CacheOK',
           pc' \in [Readers -> Places], result' \in [Readers -> Results],
           my' = [q \in Readers |-> my'[q]], reads' = [q \in Readers |-> reads'[q]],
           \A q \in Readers \ {r} : pc'[q] = pc[q] /\ result'[q] = result[q] /\ my'[q] = my[q],
           ReaderOK(r)'
    PROVE  Typed'
  <1>1. ASSUME NEW q \in Readers \ {r} PROVE ReaderOK(q)'
    <2>1. /\ pc'[q] = pc[q] /\ result'[q] = result[q] /\ my'[q] = my[q] /\ q \in Readers
      OBVIOUS
    <2>2. ReaderOK(q)
      <3>1. \A s \in Readers : ReaderOK(s)
        BY ONLY Typed, ZenonT(60) DEF Typed
      <3>2. QED
        BY ONLY <2>1, <3>1
    <2>3. QED
      BY ONLY <2>1, <2>2, image' = image, SameReader
  <1>2. QED
    BY <1>1 DEF Typed

-----------------------------------------------------------------------------
(* The steps *)

\* A reader whose locals are sound goes on with the walk.
LEMMA Continues ==
    ASSUME NEW r \in Readers, image' = image, pc'[r] = "walk", result'[r] = "none",
           Cursor(my'[r]), Pending(my'[r]), Sound(my'[r])
    PROVE  ReaderOK(r)'
  BY DEF ReaderOK, Cursor, Pending, Sound, Filled, Truth, ReadableAlone, RecordIsGood,
         HostOffset, VirtualUnits, Stream

\* The units of one grain are filled in, and the cursor goes past it.
Passes(r, units) ==
    my' = [my EXCEPT ![r].at = @ + Here(r).len, ![r].buf = Fill(@, my[r].at, units)]

LEMMA Served ==
    ASSUME Typed, NEW r \in Readers, pc[r] # "idle", my[r].at < my[r].end, my[r].run = None,
           NEW units, DOMAIN units = 0 .. Here(r).len - 1,
           \A k \in 0 .. Here(r).len - 1 :
              units[k] = Truth(my[r].at + k) /\ ReadableAlone(my[r].at + k),
           Passes(r, units)
    PROVE  /\ Cursor(my'[r]) /\ Pending(my'[r]) /\ Sound(my'[r])
           /\ my'[r].run = None /\ my'[r].at > my[r].at
           /\ my' = [q \in Readers |-> my'[q]]
           /\ \A q \in Readers \ {r} : my'[q] = my[q]
  <1> DEFINE m == my[r]
             n == Here(r).len
             at == m.at
             buf == Fill(m.buf, at, units)
  <1>1. /\ Cursor(m) /\ Sound(m) /\ my = [q \in Readers |-> my[q]]
        /\ m = [offset |-> m.offset, at |-> m.at, end |-> m.end, run |-> m.run, buf |-> m.buf]
        /\ m.offset \in Nat /\ m.at \in Nat /\ m.end \in Nat /\ m.offset <= m.at
        /\ m.end <= VirtualUnits /\ DOMAIN m.buf = m.offset .. m.end - 1
    BY DEF Typed, ReaderOK, Cursor
  <1>2. n \in Nat \ {0} /\ at + n <= m.end
    BY <1>1, HereIs DEF Typed
  <1>3. /\ my'[r] = [offset |-> m.offset, at |-> at + n, end |-> m.end, run |-> m.run, buf |-> buf]
        /\ my' = [q \in Readers |-> my'[q]] /\ \A q \in Readers \ {r} : my'[q] = my[q]
    <2> HIDE DEF buf, n
    <2>1. my' = [my EXCEPT ![r].at = @ + n, ![r].buf = buf]
      BY DEF buf, n, Passes
    <2>2. QED
      BY <1>1, <2>1
  <1> HIDE DEF n
  <1>4. /\ DOMAIN buf = m.offset .. m.end - 1
        /\ \A u \in m.offset .. at - 1 : buf[u] = m.buf[u]
        /\ \A u \in at .. at + n - 1 : buf[u] = units[u - at] /\ u - at \in 0 .. n - 1
    <2>1. DOMAIN units = 0 .. n - 1
      BY DEF n
    <2> DEFINE a == m.offset
               b == m.end
               old == m.buf
    <2>2. /\ a \in Nat /\ b \in Nat /\ DOMAIN old = a .. b - 1 /\ at \in Nat /\ n \in Nat
          /\ a <= at /\ at + n <= b /\ buf = Fill(old, at, units)
      BY <1>1, <1>2
    <2> HIDE DEF m, a, b, old, at, buf
    <2>3. /\ DOMAIN buf = a .. b - 1
          /\ \A u \in a .. at - 1 : buf[u] = old[u]
          /\ \A u \in at .. at + n - 1 : buf[u] = units[u - at] /\ u - at \in 0 .. n - 1
      <3>1. DOMAIN buf = a .. b - 1
        BY ONLY <2>2 DEF Fill
      <3>2. ASSUME NEW u \in a .. at - 1 PROVE buf[u] = old[u]
        <4>1. u \in DOMAIN old /\ u - at \notin DOMAIN units
          BY ONLY <2>1, <2>2, u \in a .. at - 1
        <4>2. QED
          BY ONLY <4>1, <2>2 DEF Fill
      <3>3. ASSUME NEW u \in at .. at + n - 1
            PROVE  buf[u] = units[u - at] /\ u - at \in 0 .. n - 1
        <4>1. u \in DOMAIN old /\ u - at \in DOMAIN units /\ u - at \in 0 .. n - 1
          BY ONLY <2>1, <2>2, u \in at .. at + n - 1
        <4>2. QED
          BY ONLY <4>1, <2>2 DEF Fill
      <3>4. QED
        BY ONLY <3>1, <3>2, <3>3
    <2>4. QED
      BY ONLY <2>3 DEF a, b, old
  <1>5. /\ \A u \in m.offset .. at - 1 : m.buf[u] = Truth(u) /\ ReadableAlone(u)
        /\ m.run = None
    BY <1>1 DEF Sound, Filled
  <1>6. \A u \in at .. at + n - 1 : buf[u] = Truth(u) /\ ReadableAlone(u)
    <2> TAKE u \in at .. at + n - 1
    <2>1. u - at \in 0 .. n - 1 /\ buf[u] = units[u - at] /\ at + (u - at) = u
      BY <1>1, <1>2, <1>4
    <2>2. units[u - at] = Truth(at + (u - at)) /\ ReadableAlone(at + (u - at))
      BY <2>1 DEF n
    <2>3. QED
      BY <2>1, <2>2
  <1> HIDE DEF m, at, buf
  <1>p. PICK p : p = my'[r]
    OBVIOUS
  <1>7. /\ p.offset = m.offset /\ p.at = at + n /\ p.end = m.end /\ p.run = None /\ p.buf = buf
        /\ p = [offset |-> p.offset, at |-> p.at, end |-> p.end, run |-> p.run, buf |-> p.buf]
    <2>1. p = [offset |-> m.offset, at |-> at + n, end |-> m.end, run |-> m.run, buf |-> buf]
      BY ONLY <1>3, <1>p
    <2>2. QED
      BY ONLY <1>5, <2>1
  <1>8. Cursor(p)
    BY <1>1, <1>2, <1>4, <1>7 DEF Cursor, at
  <1>9. Pending(p)
    BY <1>7 DEF Pending
  <1>10. Sound(p)
    <2>1. Filled(p) = at + n
      BY <1>7 DEF Filled
    <2>2. ASSUME NEW u \in m.offset .. at + n - 1 PROVE buf[u] = Truth(u) /\ ReadableAlone(u)
      <3>1. u \in m.offset .. at - 1 \/ u \in at .. at + n - 1
        BY <1>1, <1>2 DEF at
      <3>2. QED
        BY <1>4, <1>5, <1>6, <3>1
    <2>3. /\ \A u \in m.offset .. at + n - 1 : buf[u] = Truth(u)
          /\ \A u \in m.offset .. at + n - 1 : ReadableAlone(u)
      BY <2>2
    <2>4. /\ p.offset = m.offset /\ p.at = at + n /\ p.buf = buf
          /\ m.offset \in Nat /\ at \in Nat /\ n \in Nat
      BY <1>1, <1>2, <1>7 DEF at
    <2>5. ASSUME NEW u \in p.offset .. Filled(p) - 1 PROVE p.buf[u] = Truth(u)
      BY ONLY <2>1, <2>3, <2>4
    <2>6. ASSUME NEW u \in p.offset .. p.at - 1 PROVE ReadableAlone(u)
      BY ONLY <2>3, <2>4
    <2>7. QED
      BY ONLY <2>5, <2>6 DEF Sound
  <1>11. QED
    BY <1>1, <1>2, <1>3, <1>p, <1>7, <1>8, <1>9, <1>10 DEF m, at

LEMMA TypedWalkHole ==
    ASSUME Typed, NEW r \in Readers, WalkHole(r)
    PROVE  Typed'
  <1> DEFINE units == [k \in 0 .. Here(r).len - 1 |-> Blank]
  <1>1. /\ pc[r] = "walk" /\ my[r].at < my[r].end /\ Entry(r) = Hole /\ my[r].run = None
        /\ Passes(r, units)
        /\ UNCHANGED <<image, pc, result, reads, inflated>>
    BY DEF WalkHole, Passes
  <1>2. Cursor(my[r]) /\ result[r] = "none" /\ pc[r] # "idle"
    BY <1>1 DEF Typed, ReaderOK
  <1>3. \A k \in 0 .. Here(r).len - 1 :
           units[k] = Truth(my[r].at + k) /\ ReadableAlone(my[r].at + k)
    BY <1>1, <1>2, HereIs DEF Typed
  <1>4. DOMAIN units = 0 .. Here(r).len - 1
    OBVIOUS
  <1> HIDE DEF units
  <1>5. /\ Cursor(my'[r]) /\ Pending(my'[r]) /\ Sound(my'[r])
        /\ my' = [q \in Readers |-> my'[q]] /\ \A q \in Readers \ {r} : my'[q] = my[q]
    <2>1. pc[r] # "idle" /\ my[r].at < my[r].end /\ my[r].run = None /\ Passes(r, units)
      BY <1>1, <1>2, <1>4
    <2>2. QED
      BY <2>1, <1>3, <1>4, Served
  <1>6. ReaderOK(r)'
    BY <1>1, <1>2, <1>5, Continues
  <1>7. QED
    BY <1>1, <1>5, <1>6, Frame DEF Typed, CacheOK, Inflated, RecordIsGood, VirtualUnits

\* Inflated data that passed the checks is what the grain at the cursor holds.
LEMMA InflatedIsTrue ==
    ASSUME Typed, NEW r \in Readers, pc[r] # "idle", my[r].at < my[r].end, Stream, Entry(r) # Hole,
           RecordIsGood(Entry(r), Start(r))
    PROVE  \A k \in 0 .. Here(r).len - 1 :
              /\ Inflated(image.records[Entry(r)])[Here(r).in + k] = Truth(my[r].at + k)
              /\ ReadableAlone(my[r].at + k)
  <1> TAKE k \in 0 .. Here(r).len - 1
  <1> DEFINE rec == image.records[Entry(r)]
             in == Here(r).in
             u == my[r].at + k
             start == Start(r)
  <1>1. Cursor(my[r]) /\ image \in Images /\ VirtualUnits \in Nat /\ GrainUnits \in Nat \ {0}
    BY ImageIs DEF Typed, ReaderOK
  <1>2. /\ in \in 0 .. GrainUnits - 1 /\ Here(r).len \in Nat \ {0} /\ in + Here(r).len <= GrainUnits
        /\ start \in Nat /\ start + in = my[r].at /\ u < VirtualUnits
        /\ Entry(r) \in Nat /\ rec.inflates \in Int
        /\ Truth(u) = Record(start, in + k) /\ ReadableAlone(u)
    BY <1>1, HereIs DEF RecordIsGood
  <1>3. rec.names = start /\ rec.inflates >= Lesser(GrainUnits, VirtualUnits - start)
    BY DEF RecordIsGood
  <1> HIDE DEF rec, in, start
  <1>4. my[r].at \in Nat /\ in + k \in 0 .. GrainUnits - 1 /\ in + k < VirtualUnits - start
    <2> DEFINE at == my[r].at
               len == Here(r).len
               v == VirtualUnits
    <2>1. /\ at \in Nat /\ len \in Nat \ {0} /\ v \in Nat /\ GrainUnits \in Nat /\ k \in 0 .. len - 1
          /\ in \in 0 .. GrainUnits - 1 /\ in + len <= GrainUnits
          /\ start \in Nat /\ start + in = at /\ at + k < v
      BY <1>1, <1>2 DEF Cursor
    <2> HIDE DEF at, len, v
    <2>2. in + k \in 0 .. GrainUnits - 1 /\ in + k < v - start
      BY ONLY <2>1
    <2>3. QED
      BY <2>1, <2>2 DEF at, v
  <1>5. in + k < rec.inflates
    BY <1>1, <1>2, <1>3, <1>4 DEF Lesser
  <1>6. Inflated(rec)[in + k] = Record(rec.names, in + k)
    BY <1>4, <1>5 DEF Inflated
  <1>7. QED
    BY <1>2, <1>3, <1>6 DEF rec, in

LEMMA ServeTyped ==
    ASSUME Typed, NEW r \in Readers, pc[r] \in {"walk", "keep"}, my[r].at < my[r].end,
           Stream, Entry(r) # Hole, RecordIsGood(Entry(r), Start(r)),
           Serve(r, Inflated(image.records[Entry(r)])), image' = image, result' = result,
           pc' = [pc EXCEPT ![r] = "walk"]
    PROVE  /\ ReaderOK(r)' /\ my' = [q \in Readers |-> my'[q]]
           /\ \A q \in Readers \ {r} : my'[q] = my[q] /\ pc'[q] = pc[q]
           /\ pc' \in [Readers -> Places]
  <1> DEFINE grain == Inflated(image.records[Entry(r)])
             units == [k \in 0 .. Here(r).len - 1 |-> grain[Here(r).in + k]]
  <1>1. /\ pc[r] # "idle" /\ result[r] = "none" /\ Pending(my[r]) /\ pc \in [Readers -> Places]
    BY DEF Typed, ReaderOK
  <1>2. my[r].run = None
    BY <1>1 DEF Pending
  <1>3. /\ DOMAIN units = 0 .. Here(r).len - 1
        /\ \A k \in 0 .. Here(r).len - 1 :
              units[k] = Truth(my[r].at + k) /\ ReadableAlone(my[r].at + k)
    <2> HIDE DEF grain
    <2>1. \A k \in 0 .. Here(r).len - 1 :
             grain[Here(r).in + k] = Truth(my[r].at + k) /\ ReadableAlone(my[r].at + k)
      BY <1>1, InflatedIsTrue DEF grain
    <2>2. DOMAIN units = 0 .. Here(r).len - 1
      OBVIOUS
    <2>3. \A k \in 0 .. Here(r).len - 1 : units[k] = grain[Here(r).in + k]
      OBVIOUS
    <2> HIDE DEF units
    <2>4. QED
      BY <2>1, <2>2, <2>3
  <1>4. Passes(r, units)
    BY DEF Serve, Passes
  <1> HIDE DEF units
  <1>5. /\ Cursor(my'[r]) /\ Pending(my'[r]) /\ Sound(my'[r])
        /\ my' = [q \in Readers |-> my'[q]] /\ \A q \in Readers \ {r} : my'[q] = my[q]
    <2>1. pc[r] # "idle" /\ my[r].at < my[r].end /\ my[r].run = None /\ Passes(r, units)
      BY <1>1, <1>2, <1>4
    <2>2. QED
      BY <2>1, <1>3, <1>4, Served
  <1>6. pc'[r] = "walk" /\ \A q \in Readers \ {r} : pc'[q] = pc[q]
    BY <1>1
  <1>7. ReaderOK(r)'
    BY <1>1, <1>5, <1>6, Continues
  <1>8. QED
    BY <1>1, <1>5, <1>6, <1>7 DEF Places

LEMMA TypedCallRead ==
    ASSUME Typed, NEW r \in Readers, CallRead(r)
    PROVE  Typed'
  <1>1. /\ pc[r] = "idle"
        /\ result' = [result EXCEPT ![r] = "none"] /\ reads' = [reads EXCEPT ![r] = <<>>]
        /\ pc' = [pc EXCEPT ![r] = "walk"] /\ UNCHANGED <<image, inflated>>
    BY DEF CallRead, Goto
  <1>f. PICK first \in Units : \E last \in first .. VirtualUnits - 1 :
           my' = [my EXCEPT ![r] = [offset |-> first, at |-> first, end |-> last + 1, run |-> None,
                                    buf |-> [u \in first .. last |-> Unfilled]]]
    BY DEF CallRead
  <1>2. PICK last \in first .. VirtualUnits - 1 :
           my' = [my EXCEPT ![r] = [offset |-> first, at |-> first, end |-> last + 1, run |-> None,
                                    buf |-> [u \in first .. last |-> Unfilled]]]
    BY <1>f
  <1> DEFINE p == [offset |-> first, at |-> first, end |-> last + 1, run |-> None,
                   buf |-> [u \in first .. last |-> Unfilled]]
  <1>3. VirtualUnits \in Nat /\ first \in Nat /\ last \in Nat /\ first <= last /\ last < VirtualUnits
    BY ImageIs DEF Typed, Units
  <1>4. my = [q \in Readers |-> my[q]] /\ reads = [q \in Readers |-> reads[q]]
    BY DEF Typed
  <1>5. /\ p.offset = first /\ p.at = first /\ p.end = last + 1 /\ p.run = None
        /\ p = [offset |-> p.offset, at |-> p.at, end |-> p.end, run |-> p.run, buf |-> p.buf]
        /\ DOMAIN p.buf = first .. (last + 1) - 1
    BY <1>3
  <1> HIDE DEF p
  <1>6. /\ my'[r] = p /\ my' = [q \in Readers |-> my'[q]]
        /\ \A q \in Readers \ {r} : my'[q] = my[q]
    BY <1>2, <1>4 DEF p
  <1>7. Cursor(p) /\ Pending(p) /\ Sound(p)
    BY <1>3, <1>5 DEF Cursor, Pending, Sound, Filled
  <1>8. ReaderOK(r)'
    <2>1. pc'[r] = "walk" /\ result'[r] = "none"
      BY <1>1 DEF Typed
    <2>2. QED
      BY <1>1, <1>6, <1>7, <2>1, Continues
  <1>9. /\ pc' \in [Readers -> Places] /\ result' \in [Readers -> Results]
        /\ reads' = [q \in Readers |-> reads'[q]]
        /\ \A q \in Readers \ {r} : pc'[q] = pc[q] /\ result'[q] = result[q]
    BY <1>1, <1>4 DEF Typed, Places, Results
  <1>10. CacheOK'
    BY <1>1 DEF Typed, CacheOK, Inflated, RecordIsGood, VirtualUnits
  <1>11. QED
    BY <1>1, <1>6, <1>8, <1>9, <1>10, Frame

\* A grain on the host is in the file where its units are.
LEMMA HostIs ==
    ASSUME NEW e \in Nat \cup {Bad}, NEW in \in Nat, NEW len \in Nat \ {0}, image.limit \in Nat
    PROVE  /\ HostOffset(e, in, len) # Bad =>
                  /\ HostOffset(e, in, len) = e + in /\ e \in Nat
                  /\ \A k \in 0 .. len - 1 : HostOffset(e, in + k, 1) # Bad
           /\ HostOffset(e, in, len) = Bad => HostOffset(e, in + (len - 1), 1) = Bad
  <1>1. CASE e = Bad
    BY <1>1 DEF HostOffset
  <1>2. CASE e \in Nat
    BY <1>2 DEF HostOffset, Bad
  <1>3. QED
    BY <1>1, <1>2

LEMMA TypedWalkRun ==
    ASSUME Typed, NEW r \in Readers, WalkRun(r)
    PROVE  Typed'
  <1> DEFINE m == my[r]
             e == Entry(r)
             in == Here(r).in
             n == Here(r).len
             host == HostOffset(e, in, n)
             at == m.at
             run == m.run
             new == IF run = None THEN <<host, at, n>> ELSE <<run[1], run[2], run[3] + n>>
  <1>1. /\ pc[r] = "walk" /\ at < m.end /\ ~Stream /\ e # Hole /\ host # Bad
        /\ run # None => run[1] + run[3] = host
        /\ UNCHANGED <<image, pc, result, reads, inflated>>
    BY DEF WalkRun
  <1>2. my' = [my EXCEPT ![r].at = @ + n, ![r].run = new]
    BY DEF WalkRun
  <1>3. /\ Cursor(m) /\ Pending(m) /\ Sound(m) /\ result[r] = "none"
        /\ m = [offset |-> m.offset, at |-> m.at, end |-> m.end, run |-> m.run, buf |-> m.buf]
        /\ image \in Images /\ my = [q \in Readers |-> my[q]] /\ image.limit \in Nat
    BY <1>1, ImageIs DEF Typed, ReaderOK, Cursor
  <1>4. /\ in \in Nat /\ n \in Nat \ {0} /\ at + n <= m.end /\ e \in Nat \cup {Bad}
        /\ \A k \in 0 .. n - 1 :
              /\ Truth(at + k) = Host(e + (in + k))
              /\ ReadableAlone(at + k) <=> HostOffset(e, in + k, 1) # Bad
    <2>1. /\ in \in 0 .. GrainUnits - 1 /\ n \in Nat \ {0} /\ at + n <= m.end
          /\ e \in Nat \cup {Hole, Bad}
          /\ \A k \in 0 .. n - 1 :
              /\ Truth(at + k) = IF e = Hole THEN Blank
                                 ELSE IF Stream THEN Record(Start(r), in + k) ELSE Host(e + (in + k))
              /\ ReadableAlone(at + k) <=>
                    (e = Hole \/ IF Stream THEN RecordIsGood(e, Start(r))
                                           ELSE HostOffset(e, in + k, 1) # Bad)
      BY <1>1, <1>3, HereIs
    <2>2. GrainUnits \in Nat
      BY ReadAssumption
    <2> HIDE DEF m, e, in, n, host, at
    <2>3. QED
      BY <1>1, <2>1, <2>2
  <1>5. /\ host = e + in /\ e \in Nat /\ \A k \in 0 .. n - 1 : ReadableAlone(at + k)
    <2> HIDE DEF m, e, in, n, at
    <2>1. QED
      BY <1>1, <1>3, <1>4, HostIs
  <1>6. /\ my'[r] = [offset |-> m.offset, at |-> at + n, end |-> m.end, run |-> new, buf |-> m.buf]
        /\ my' = [q \in Readers |-> my'[q]] /\ \A q \in Readers \ {r} : my'[q] = my[q]
    <2> HIDE DEF n, new
    <2>1. QED
      BY <1>2, <1>3
  <1> DEFINE offset == m.offset
             end == m.end
             buf == m.buf
  <1>7. /\ offset \in Nat /\ at \in Nat /\ end \in Nat /\ offset <= at
        /\ end <= VirtualUnits /\ VirtualUnits \in Nat /\ DOMAIN buf = offset .. end - 1
    BY <1>3, ImageIs DEF Cursor
  <1>8. /\ \A u \in offset .. Filled(m) - 1 : buf[u] = Truth(u)
        /\ \A u \in offset .. at - 1 : ReadableAlone(u)
    BY <1>3 DEF Sound
  <1>9. run # None =>
          /\ run \in Nat \X Nat \X (Nat \ {0})
          /\ offset <= run[2] /\ run[2] + run[3] = at
          /\ \A k \in 0 .. run[3] - 1 : Truth(run[2] + k) = Host(run[1] + k)
    BY <1>3 DEF Pending
  <1>10. Filled(m) = IF run = None THEN at ELSE run[2]
    BY DEF Filled
  <1> HIDE DEF m, e, in, n, host, at, run, offset, end, buf
  <1>11. /\ new # None /\ new \in Nat \X Nat \X (Nat \ {0})
         /\ offset <= new[2] /\ new[2] + new[3] = at + n /\ new[2] = Filled(m)
    <2>1. CASE run = None
      <3>1. new = <<host, at, n>> /\ Filled(m) = at
        BY <1>10, <2>1
      <3>2. host \in Nat
        BY <1>4, <1>5
      <3> HIDE DEF new
      <3>3. QED
        BY <1>4, <1>7, <3>1, <3>2 DEF None
    <2>2. CASE run # None
      <3>1. new = <<run[1], run[2], run[3] + n>> /\ Filled(m) = run[2]
        BY <1>10, <2>2
      <3>2. run[1] \in Nat /\ run[2] \in Nat /\ run[3] \in Nat \ {0} /\ offset <= run[2] /\ run[2] + run[3] = at
        BY <1>9, <2>2
      <3> HIDE DEF new
      <3>3. QED
        BY <1>4, <3>1, <3>2 DEF None
    <2>3. QED
      BY <2>1, <2>2
  <1>12. ASSUME NEW k \in 0 .. new[3] - 1 PROVE Truth(new[2] + k) = Host(new[1] + k)
    <2>1. CASE run = None
      <3>1. new[1] = host /\ new[2] = at /\ new[3] = n
        BY <2>1
      <3>2. k \in 0 .. n - 1 /\ e + (in + k) = host + k
        BY <1>4, <1>5, <3>1
      <3>3. QED
        BY <1>4, <3>1, <3>2
    <2>2. CASE run # None
      <3>1. /\ new[1] = run[1] /\ new[2] = run[2] /\ new[3] = run[3] + n
            /\ run[1] \in Nat /\ run[2] \in Nat /\ run[3] \in Nat
        BY <1>9, <2>2
      <3>2. CASE k < run[3]
        BY <1>9, <2>2, <3>1, <3>2
      <3>3. CASE k >= run[3]
        <4>1. /\ k - run[3] \in 0 .. n - 1 /\ at + (k - run[3]) = run[2] + k
              /\ e + (in + (k - run[3])) = run[1] + k
          BY <1>1, <1>4, <1>5, <1>9, <2>2, <3>1, <3>3
        <4>2. QED
          BY <1>4, <3>1, <4>1
      <3>4. QED
        BY <3>1, <3>2, <3>3
    <2>3. QED
      BY <2>1, <2>2
  <1>13. \A u \in offset .. (at + n) - 1 : ReadableAlone(u)
    <2> TAKE u \in offset .. (at + n) - 1
    <2>1. CASE u < at
      BY <1>7, <1>8, <2>1
    <2>2. CASE u >= at
      <3>1. u - at \in 0 .. n - 1 /\ at + (u - at) = u
        BY <1>4, <1>7, <2>2
      <3>2. QED
        BY <1>5, <3>1
    <2>3. QED
      BY <1>7, <2>1, <2>2
  <1> HIDE DEF new
  <1>p. PICK p : p = my'[r]
    OBVIOUS
  <1>14. /\ p.offset = offset /\ p.at = at + n /\ p.end = end /\ p.run = new /\ p.buf = buf
         /\ p = [offset |-> p.offset, at |-> p.at, end |-> p.end, run |-> p.run, buf |-> p.buf]
    <2>1. p = [offset |-> offset, at |-> at + n, end |-> end, run |-> new, buf |-> buf]
      BY ONLY <1>6, <1>p DEF offset, end, buf
    <2>2. QED
      BY ONLY <2>1
  <1>15. Cursor(p)
    BY <1>4, <1>7, <1>14 DEF Cursor, end
  <1>16. Pending(p)
    BY <1>1, <1>11, <1>12, <1>14 DEF Pending
  <1>17. Sound(p)
    <2>1. Filled(p) = Filled(m)
      BY <1>11, <1>14 DEF Filled
    <2>2. ASSUME NEW u \in p.offset .. Filled(p) - 1 PROVE p.buf[u] = Truth(u)
      BY ONLY <1>8, <1>14, <2>1
    <2>3. ASSUME NEW u \in p.offset .. p.at - 1 PROVE ReadableAlone(u)
      BY ONLY <1>13, <1>14
    <2>4. QED
      BY ONLY <2>2, <2>3 DEF Sound
  <1>18. ReaderOK(r)'
    BY <1>1, <1>3, <1>p, <1>15, <1>16, <1>17, Continues
  <1>19. QED
    BY <1>1, <1>6, <1>18, Frame DEF Typed, CacheOK, Inflated, RecordIsGood, VirtualUnits

LEMMA TypedReadRun ==
    ASSUME Typed, NEW r \in Readers, ReadRun(r)
    PROVE  Typed'
  <1> DEFINE m == my[r]
             at == m.at
             run == m.run
             new == RunBuffer(r)
             offset == m.offset
             end == m.end
             old == m.buf
  <1>1. /\ pc[r] = "walk" /\ run # None /\ UNCHANGED <<image, pc, result, inflated>>
        /\ my' = [my EXCEPT ![r].run = None, ![r].buf = new]
        /\ reads' = [reads EXCEPT ![r] = Append(@, my[r].run)]
    BY DEF ReadRun, RunIsDue
  <1>2. /\ Cursor(m) /\ Pending(m) /\ Sound(m) /\ result[r] = "none"
        /\ m = [offset |-> m.offset, at |-> m.at, end |-> m.end, run |-> m.run, buf |-> m.buf]
        /\ image \in Images /\ my = [q \in Readers |-> my[q]] /\ reads = [q \in Readers |-> reads[q]]
    BY <1>1 DEF Typed, ReaderOK, Cursor
  <1>3. /\ my'[r] = [offset |-> offset, at |-> at, end |-> end, run |-> None, buf |-> new]
        /\ my' = [q \in Readers |-> my'[q]] /\ \A q \in Readers \ {r} : my'[q] = my[q]
    <2> HIDE DEF new
    <2>1. QED
      BY <1>1, <1>2
  <1>4. /\ offset \in Nat /\ at \in Nat /\ end \in Nat /\ offset <= at /\ at <= end
        /\ end <= VirtualUnits /\ VirtualUnits \in Nat /\ DOMAIN old = offset .. end - 1
    BY <1>2, ImageIs DEF Cursor
  <1>5. /\ run \in Nat \X Nat \X (Nat \ {0})
        /\ offset <= run[2] /\ run[2] + run[3] = at
        /\ \A k \in 0 .. run[3] - 1 : Truth(run[2] + k) = Host(run[1] + k)
    BY <1>1, <1>2 DEF Pending
  <1>6. /\ \A u \in offset .. run[2] - 1 : old[u] = Truth(u)
        /\ \A u \in offset .. at - 1 : ReadableAlone(u)
    BY <1>1, <1>2 DEF Sound, Filled
  <1> DEFINE units == [k \in 0 .. run[3] - 1 |-> Host(run[1] + k)]
  <1>7. new = Fill(old, run[2], units) /\ DOMAIN units = 0 .. run[3] - 1
    BY DEF RunBuffer
  <1>8. \A k \in 0 .. run[3] - 1 : units[k] = Truth(run[2] + k)
    BY <1>5
  <1>9. run[2] \in Nat /\ run[3] \in Nat /\ run[2] + run[3] <= end
    BY <1>4, <1>5
  <1> HIDE DEF m, at, run, new, offset, end, old, units
  <1>10. /\ DOMAIN new = offset .. end - 1
         /\ \A u \in offset .. run[2] - 1 : new[u] = old[u]
         /\ \A u \in run[2] .. run[2] + run[3] - 1 :
               new[u] = units[u - run[2]] /\ u - run[2] \in 0 .. run[3] - 1
    <2> DEFINE f == run[2]
               k == run[3]
    <2>1. /\ f \in Nat /\ k \in Nat /\ f + k <= end /\ offset <= f /\ offset \in Nat /\ end \in Nat
          /\ DOMAIN old = offset .. end - 1 /\ new = Fill(old, f, units) /\ DOMAIN units = 0 .. k - 1
      BY <1>4, <1>5, <1>7, <1>9
    <2> HIDE DEF f, k
    <2>2. /\ DOMAIN new = offset .. end - 1
          /\ \A u \in offset .. f - 1 : new[u] = old[u]
          /\ \A u \in f .. f + k - 1 : new[u] = units[u - f] /\ u - f \in 0 .. k - 1
      <3>1. offset <= f /\ f + k <= end
        BY ONLY <2>1
      <3>2. QED
        BY ONLY <2>1, <3>1, FillIs, SMTT(60)
    <2>3. QED
      BY ONLY <2>2 DEF f, k
  <1>11. \A u \in offset .. at - 1 : new[u] = Truth(u)
    <2> TAKE u \in offset .. at - 1
    <2>1. CASE u < run[2]
      BY <1>4, <1>6, <1>9, <1>10, <2>1
    <2>2. CASE u >= run[2]
      <3>1. u \in run[2] .. run[2] + run[3] - 1 /\ run[2] + (u - run[2]) = u
        BY <1>4, <1>5, <1>9, <2>2
      <3>2. QED
        BY <1>8, <1>10, <3>1
    <2>3. QED
      BY <1>4, <1>9, <2>1, <2>2
  <1>p. PICK p : p = my'[r]
    OBVIOUS
  <1>12. /\ p.offset = offset /\ p.at = at /\ p.end = end /\ p.run = None /\ p.buf = new
         /\ p = [offset |-> p.offset, at |-> p.at, end |-> p.end, run |-> p.run, buf |-> p.buf]
    <2>1. p = [offset |-> offset, at |-> at, end |-> end, run |-> None, buf |-> new]
      BY ONLY <1>3, <1>p
    <2>2. QED
      BY ONLY <2>1
  <1>13. Cursor(p) /\ Pending(p)
    BY <1>4, <1>10, <1>12 DEF Cursor, Pending
  <1>14. Sound(p)
    <2>1. Filled(p) = at
      BY <1>12 DEF Filled
    <2>2. ASSUME NEW u \in p.offset .. Filled(p) - 1 PROVE p.buf[u] = Truth(u)
      BY ONLY <1>11, <1>12, <2>1
    <2>3. ASSUME NEW u \in p.offset .. p.at - 1 PROVE ReadableAlone(u)
      BY ONLY <1>6, <1>12
    <2>4. QED
      BY ONLY <2>2, <2>3 DEF Sound
  <1>15. ReaderOK(r)'
    BY <1>1, <1>2, <1>p, <1>13, <1>14, Continues
  <1>16. reads' = [q \in Readers |-> reads'[q]]
    BY <1>1, <1>2
  <1>17. CacheOK'
    BY <1>1 DEF Typed, CacheOK, Inflated, RecordIsGood, VirtualUnits
  <1>18. /\ pc' \in [Readers -> Places] /\ result' \in [Readers -> Results]
         /\ \A q \in Readers \ {r} : pc'[q] = pc[q] /\ result'[q] = result[q]
    BY <1>1 DEF Typed
  <1>19. QED
    BY <1>1, <1>3, <1>15, <1>16, <1>17, <1>18, Frame

\* A reader whose call ends keeps its locals, and so does one that stops at a record.
LEMMA Returns ==
    ASSUME Typed, NEW r \in Readers, NEW how \in {"ok", "corrupt", "io"}, Return(r, how),
           UNCHANGED <<image, my, reads, inflated>>,
           how = "ok" => \A u \in my[r].offset .. my[r].end - 1 :
                            my[r].buf[u] = Truth(u) /\ ReadableAlone(u),
           how = "corrupt" => \E u \in my[r].offset .. my[r].end - 1 : ~ReadableAlone(u)
    PROVE  Typed'
  <1>1. /\ pc' = [pc EXCEPT ![r] = "idle"] /\ result' = [result EXCEPT ![r] = how]
        /\ pc \in [Readers -> Places] /\ result \in [Readers -> Results]
        /\ Cursor(my[r]) /\ Pending(my[r])
        /\ my = [q \in Readers |-> my[q]] /\ reads = [q \in Readers |-> reads[q]]
    BY DEF Return, Goto, Typed, ReaderOK
  <1>2. /\ pc'[r] = "idle" /\ result'[r] = how
        /\ pc' \in [Readers -> Places] /\ result' \in [Readers -> Results]
        /\ \A q \in Readers \ {r} : pc'[q] = pc[q] /\ result'[q] = result[q] /\ my'[q] = my[q]
    BY <1>1 DEF Places, Results
  <1>3. ReaderOK(r)'
    BY <1>1, <1>2, SameCursor DEF ReaderOK
  <1>4. QED
    BY <1>1, <1>2, <1>3, Frame DEF Typed, CacheOK, Inflated, RecordIsGood, VirtualUnits

LEMMA TypedWalkEnds ==
    ASSUME Typed, NEW r \in Readers, WalkEnds(r)
    PROVE  Typed'
  <1>1. /\ pc[r] = "walk" /\ my[r].at = my[r].end /\ my[r].run = None
        /\ Return(r, "ok") /\ UNCHANGED <<image, my, reads, inflated>>
    BY DEF WalkEnds
  <1>2. Sound(my[r])
    BY <1>1 DEF Typed, ReaderOK
  <1>3. \A u \in my[r].offset .. my[r].end - 1 : my[r].buf[u] = Truth(u) /\ ReadableAlone(u)
    BY <1>1, <1>2 DEF Sound, Filled
  <1>4. QED
    BY <1>1, <1>3, Returns

LEMMA TypedWalkRefused ==
    ASSUME Typed, NEW r \in Readers, WalkRefused(r)
    PROVE  Typed'
  <1> DEFINE at == my[r].at
             e == Entry(r)
             in == Here(r).in
             n == Here(r).len
  <1>1. /\ pc[r] = "walk" /\ at < my[r].end /\ ~Stream /\ e # Hole /\ HostOffset(e, in, n) = Bad
        /\ Return(r, "corrupt") /\ UNCHANGED <<image, my, reads, inflated>>
    BY DEF WalkRefused
  <1>2. /\ Cursor(my[r]) /\ image \in Images /\ image.limit \in Nat /\ GrainUnits \in Nat
    BY ImageIs DEF Typed, ReaderOK
  <1>3. /\ in \in 0 .. GrainUnits - 1 /\ n \in Nat \ {0} /\ at + n <= my[r].end
        /\ e \in Nat \cup {Hole, Bad}
        /\ \A k \in 0 .. n - 1 :
              ReadableAlone(at + k) <=>
                 (e = Hole \/ IF Stream THEN RecordIsGood(e, Start(r)) ELSE HostOffset(e, in + k, 1) # Bad)
    BY <1>1, <1>2, HereIs
  <1>4. my[r].offset \in Nat /\ at \in Nat /\ my[r].end \in Nat /\ my[r].offset <= at
    BY <1>2 DEF Cursor
  <1> HIDE DEF at, e, in, n
  <1>5. HostOffset(e, in + (n - 1), 1) = Bad
    BY <1>1, <1>2, <1>3, HostIs
  <1>6. ~ReadableAlone(at + (n - 1)) /\ at + (n - 1) \in my[r].offset .. my[r].end - 1
    BY <1>1, <1>3, <1>4, <1>5
  <1>7. QED
    BY <1>1, <1>6, Returns

LEMMA TypedInflateRefused ==
    ASSUME Typed, NEW r \in Readers, InflateRefused(r)
    PROVE  Typed'
  <1> DEFINE at == my[r].at
             n == Here(r).len
  <1>1. /\ pc[r] = "record" /\ ~RecordIsGood(Entry(r), Start(r))
        /\ Return(r, "corrupt") /\ UNCHANGED <<image, my, reads, inflated>>
    BY DEF InflateRefused
  <1>2. /\ Cursor(my[r]) /\ image \in Images /\ Stream /\ at < my[r].end /\ Entry(r) # Hole
    BY <1>1 DEF Typed, ReaderOK
  <1>3. /\ n \in Nat \ {0} /\ at + n <= my[r].end
        /\ \A k \in 0 .. n - 1 :
              ReadableAlone(at + k) <=>
                 (Entry(r) = Hole \/ IF Stream THEN RecordIsGood(Entry(r), Start(r))
                                     ELSE HostOffset(Entry(r), Here(r).in + k, 1) # Bad)
    BY <1>2, HereIs
  <1>4. my[r].offset \in Nat /\ at \in Nat /\ my[r].end \in Nat /\ my[r].offset <= at
    BY <1>2 DEF Cursor
  <1> HIDE DEF at, n
  <1>5. ~ReadableAlone(at + 0) /\ at + 0 \in my[r].offset .. my[r].end - 1
    <2>1. 0 \in 0 .. n - 1
      BY <1>3
    <2>2. at + 0 \in my[r].offset .. my[r].end - 1
      BY <1>2, <1>4
    <2>3. QED
      BY <1>1, <1>2, <1>3, <2>1, <2>2
  <1>6. QED
    BY <1>1, <1>5, Returns

LEMMA TypedReadFails ==
    ASSUME Typed, NEW r \in Readers, ReadFails(r)
    PROVE  Typed'
  BY Returns DEF ReadFails

\* The cached grain, found under the key of this one, has passed the checks for it.
LEMMA TypedCacheHit ==
    ASSUME Typed, NEW r \in Readers, CacheHit(r)
    PROVE  Typed'
  <1>1. /\ pc[r] = "walk" /\ my[r].at < my[r].end /\ Stream /\ Entry(r) # Hole
        /\ inflated # None /\ inflated[1] = <<Entry(r), Start(r)>>
        /\ Serve(r, inflated[2])
        /\ UNCHANGED <<image, pc, result, reads, inflated>>
    BY DEF CacheHit, Key
  <1>2. /\ inflated[2] = Inflated(image.records[Entry(r)]) /\ RecordIsGood(Entry(r), Start(r))
    BY <1>1 DEF Typed, CacheOK
  <1>3. pc' = [pc EXCEPT ![r] = "walk"]
    BY <1>1 DEF Typed
  <1>4. /\ ReaderOK(r)' /\ my' = [q \in Readers |-> my'[q]]
        /\ \A q \in Readers \ {r} : my'[q] = my[q]
    BY <1>1, <1>2, <1>3, ServeTyped
  <1>5. QED
    BY <1>1, <1>4, Frame DEF Typed, CacheOK, Inflated, RecordIsGood, VirtualUnits

LEMMA TypedKeep ==
    ASSUME Typed, NEW r \in Readers, Keep(r)
    PROVE  Typed'
  <1>1. /\ pc[r] = "keep" /\ pc' = [pc EXCEPT ![r] = "walk"]
        /\ inflated' = <<<<Entry(r), Start(r)>>, Inflated(image.records[Entry(r)])>>
        /\ Serve(r, Inflated(image.records[Entry(r)]))
        /\ UNCHANGED <<image, result, reads>>
    BY DEF Keep, Key, Goto
  <1>2. /\ my[r].at < my[r].end /\ Stream /\ Entry(r) # Hole /\ RecordIsGood(Entry(r), Start(r))
    BY <1>1 DEF Typed, ReaderOK
  <1>3. /\ ReaderOK(r)' /\ my' = [q \in Readers |-> my'[q]]
        /\ \A q \in Readers \ {r} : my'[q] = my[q] /\ pc'[q] = pc[q]
        /\ pc' \in [Readers -> Places]
    BY <1>1, <1>2, ServeTyped
  <1>4. CacheOK'
    BY <1>1, <1>2 DEF CacheOK, Inflated, RecordIsGood, VirtualUnits
  <1>5. QED
    BY <1>1, <1>3, <1>4, Frame DEF Typed

LEMMA TypedCacheMiss ==
    ASSUME Typed, NEW r \in Readers, CacheMiss(r) \/ Inflate(r)
    PROVE  Typed'
  <1>1. /\ UNCHANGED <<image, my, result, reads, inflated>>
        /\ \/ /\ pc[r] = "walk" /\ pc' = [pc EXCEPT ![r] = "record"]
              /\ my[r].at < my[r].end /\ Stream /\ Entry(r) # Hole
           \/ /\ pc[r] = "record" /\ pc' = [pc EXCEPT ![r] = "keep"]
              /\ RecordIsGood(Entry(r), Start(r))
    BY DEF CacheMiss, Inflate, Goto
  <1>2. /\ pc \in [Readers -> Places] /\ ReaderOK(r)
    BY DEF Typed
  <1>3. /\ pc' \in [Readers -> Places] /\ \A q \in Readers \ {r} : pc'[q] = pc[q]
        /\ pc'[r] \in {"record", "keep"} /\ (pc'[r] = "keep" => RecordIsGood(Entry(r), Start(r)))
        /\ my[r].at < my[r].end /\ Stream /\ Entry(r) # Hole /\ result[r] = "none"
        /\ Cursor(my[r]) /\ Pending(my[r]) /\ Sound(my[r])
    BY <1>1, <1>2 DEF Places, ReaderOK
  <1>4. ReaderOK(r)'
    BY <1>1, <1>3, SameCursor DEF ReaderOK
  <1>5. QED
    BY <1>1, <1>3, <1>4, Frame, ZenonT(120) DEF Typed, CacheOK, Inflated, RecordIsGood, VirtualUnits

LEMMA TypedNext == Typed /\ [Next]_vars => Typed'
  <1> SUFFICES ASSUME Typed, [Next]_vars PROVE Typed'
    OBVIOUS
  <1>1. CASE UNCHANGED vars
    <2>1. UNCHANGED <<image, pc, my, result, reads, inflated>>
      BY <1>1 DEF vars
    <2>2. ASSUME NEW r \in Readers PROVE ReaderOK(r)'
      <3>1. ReaderOK(r)
        BY DEF Typed
      <3>2. QED
        BY <2>1, <3>1, SameReader
    <2>3. CacheOK'
      BY <2>1 DEF Typed, CacheOK, RecordIsGood, Inflated, VirtualUnits
    <2>4. QED
      BY <2>1, <2>2, <2>3 DEF Typed
  <1>2. ASSUME NEW r \in Readers, CallRead(r) \/ ReaderStep(r) PROVE Typed'
    BY <1>2, TypedCallRead, TypedWalkHole, TypedWalkRun, TypedWalkRefused, TypedReadRun, TypedWalkEnds,
       TypedCacheHit, TypedCacheMiss, TypedInflateRefused, TypedKeep, TypedReadFails DEF ReaderStep
  <1>3. QED
    BY <1>1, <1>2 DEF Next

LEMMA AlwaysTyped == Spec => []Typed
  BY TypedInit, TypedNext, PTL DEF Spec

-----------------------------------------------------------------------------
(* One device read per run *)

Ranges == Nat \X Nat \X (Nat \ {0})

\* Range b does not continue range a.
Breaks(a, b) == ~(a[1] + a[3] = b[1] /\ a[2] + a[3] = b[2])

\* What comes next, pending or at the cursor, does not continue the last read.
NextBreaks(r, last) ==
    LET m == my[r] IN
    IF m.run # None THEN Breaks(last, m.run)
    ELSE /\ last[2] + last[3] <= m.at
         /\ (last[2] + last[3] = m.at /\ m.at < m.end /\ Entry(r) # Hole) =>
               HostOffset(Entry(r), Here(r).in, Here(r).len) # last[1] + last[3]

WholeOK(r) ==
    /\ reads[r] \in Seq(Ranges)
    /\ Stream => reads[r] = <<>>
    /\ \A k \in 1 .. Len(reads[r]) - 1 : Breaks(reads[r][k], reads[r][k + 1])
    /\ pc[r] # "idle" /\ reads[r] # <<>> => NextBreaks(r, reads[r][Len(reads[r])])

Whole == \A r \in Readers : WholeOK(r)

LEMMA WholeFrame ==
    ASSUME Whole, NEW r \in Readers, image' = image,
           \A q \in Readers \ {r} : pc'[q] = pc[q] /\ my'[q] = my[q] /\ reads'[q] = reads[q],
           WholeOK(r)'
    PROVE  Whole'
  <1>1. ASSUME NEW q \in Readers \ {r} PROVE WholeOK(q)'
    <2>1. pc'[q] = pc[q] /\ my'[q] = my[q] /\ reads'[q] = reads[q] /\ WholeOK(q)
      BY DEF Whole
    <2>2. QED
      BY ONLY <2>1, image' = image DEF WholeOK, NextBreaks, Breaks, Entry, Here, HostOffset, Stream
  <1>2. QED
    BY <1>1 DEF Whole

\* A call that has ended, and a reader of a stream-optimized image.
LEMMA WholeKept ==
    ASSUME Whole, NEW r \in Readers, image' = image, reads' = reads,
           pc'[r] = "idle" \/ Stream
    PROVE  WholeOK(r)'
  BY DEF Whole, WholeOK, Stream

LEMMA WholeInit == Init => Whole
  BY DEF Init, Whole, WholeOK

LEMMA WholeWalkHole ==
    ASSUME Typed, Whole, NEW r \in Readers, WalkHole(r)
    PROVE  Whole'
  <1> DEFINE m == my[r]
             n == Here(r).len
             last == reads[r][Len(reads[r])]
  <1>1. /\ pc[r] = "walk" /\ m.at < m.end /\ m.run = None /\ UNCHANGED <<image, pc, result, reads, inflated>>
        /\ my' = [my EXCEPT ![r].at = @ + n, ![r].buf = Fill(@, m.at, [k \in 0 .. n - 1 |-> Blank])]
    BY DEF WalkHole
  <1>2. /\ my = [q \in Readers |-> my[q]] /\ Cursor(m) /\ image \in Images
        /\ m = [offset |-> m.offset, at |-> m.at, end |-> m.end, run |-> m.run, buf |-> m.buf]
    BY DEF Typed, ReaderOK, Cursor
  <1>3. m.at \in Nat /\ n \in Nat \ {0}
    BY <1>1, <1>2, HereIs DEF Cursor
  <1> DEFINE filled == Fill(m.buf, m.at, [k \in 0 .. n - 1 |-> Blank])
  <1>4. /\ my'[r].run = None /\ my'[r].at = m.at + n /\ my'[r].end = m.end
        /\ \A q \in Readers \ {r} : my'[q] = my[q]
    <2> HIDE DEF n, filled
    <2>1. my' = [my EXCEPT ![r].at = @ + n, ![r].buf = filled]
      BY <1>1 DEF filled
    <2>2. QED
      BY <1>1, <1>2, <2>1
  <1>5. WholeOK(r)
    BY DEF Whole
  <1>6. ASSUME reads[r] # <<>> PROVE NextBreaks(r, last)'
    <2>1. last[2] + last[3] <= m.at /\ last \in Ranges
      BY <1>1, <1>5, <1>6 DEF WholeOK, NextBreaks
    <2> DEFINE at == m.at
    <2> HIDE DEF n
    <2>2. PICK l : l = last
      OBVIOUS
    <2>3. ~(l[2] + l[3] = my'[r].at) /\ l[2] + l[3] <= my'[r].at
      <3>1. l[2] \in Nat /\ l[3] \in Nat /\ l[2] + l[3] <= at
        BY <2>1, <2>2 DEF Ranges
      <3>2. at \in Nat /\ n \in Nat \ {0} /\ my'[r].at = at + n
        BY <1>3, <1>4
      <3> HIDE DEF at
      <3>3. QED
        BY ONLY <3>1, <3>2
    <2> HIDE DEF m, last
    <2>4. NextBreaks(r, l)'
      BY ONLY <1>4, <2>3 DEF NextBreaks
    <2>5. last' = l
      BY <1>1, <2>2 DEF last
    <2>6. QED
      BY ONLY <2>4, <2>5
  <1>7. WholeOK(r)'
    BY <1>1, <1>5, <1>6 DEF WholeOK, Stream
  <1>8. QED
    BY <1>1, <1>4, <1>7, WholeFrame

LEMMA WholeWalkRun ==
    ASSUME Typed, Whole, NEW r \in Readers, WalkRun(r)
    PROVE  Whole'
  <1> DEFINE m == my[r]
             n == Here(r).len
             host == HostOffset(Entry(r), Here(r).in, n)
             run == m.run
             new == IF run = None THEN <<host, m.at, n>> ELSE <<run[1], run[2], run[3] + n>>
             last == reads[r][Len(reads[r])]
  <1>1. /\ pc[r] = "walk" /\ m.at < m.end /\ ~Stream /\ Entry(r) # Hole
        /\ UNCHANGED <<image, pc, result, reads, inflated>>
    BY DEF WalkRun
  <1>2. my' = [my EXCEPT ![r].at = @ + n, ![r].run = new]
    BY DEF WalkRun
  <1>3. /\ my = [q \in Readers |-> my[q]] /\ Cursor(m) /\ Pending(m) /\ WholeOK(r)
        /\ m = [offset |-> m.offset, at |-> m.at, end |-> m.end, run |-> m.run, buf |-> m.buf]
    BY DEF Typed, ReaderOK, Cursor, Whole
  <1>4. /\ my'[r].run = new /\ \A q \in Readers \ {r} : my'[q] = my[q]
    <2> HIDE DEF n, new
    <2>1. QED
      BY <1>2, <1>3
  <1>5. new # None
    BY DEF None
  <1>6. ASSUME reads[r] # <<>> PROVE Breaks(last, new)
    <2>1. NextBreaks(r, last)
      BY <1>1, <1>3, <1>6 DEF WholeOK
    <2>2. CASE run = None
      <3>1. new[1] = host /\ new[2] = m.at
        BY <2>2
      <3>2. last[2] + last[3] = m.at => host # last[1] + last[3]
        BY <1>1, <2>1, <2>2 DEF NextBreaks
      <3>3. QED
        BY <3>1, <3>2 DEF Breaks
    <2>3. CASE run # None
      <3>1. new[1] = run[1] /\ new[2] = run[2] /\ Breaks(last, run)
        BY <2>1, <2>3 DEF NextBreaks
      <3>2. QED
        BY ONLY <3>1 DEF Breaks
    <2>4. QED
      BY <2>2, <2>3
  <1> HIDE DEF new, last
  <1>7. ASSUME reads[r] # <<>> PROVE NextBreaks(r, last)'
    BY <1>1, <1>4, <1>5, <1>6, <1>7 DEF NextBreaks, Breaks, last
  <1>8. WholeOK(r)'
    BY <1>1, <1>3, <1>7 DEF WholeOK, Stream, last
  <1>9. QED
    BY <1>1, <1>4, <1>8, WholeFrame

LEMMA WholeReadRun ==
    ASSUME Typed, Whole, NEW r \in Readers, ReadRun(r)
    PROVE  Whole'
  <1> DEFINE m == my[r]
             run == m.run
             old == reads[r]
             new == Append(old, run)
             host == HostOffset(Entry(r), Here(r).in, Here(r).len)
             filled == RunBuffer(r)
  <1>1. /\ pc[r] = "walk" /\ run # None /\ UNCHANGED <<image, pc, result, inflated>>
        /\ my' = [my EXCEPT ![r].run = None, ![r].buf = filled]
        /\ reads' = [reads EXCEPT ![r] = Append(@, my[r].run)]
        /\ m.at < m.end => Entry(r) = Hole \/ run[1] + run[3] # host
    BY DEF ReadRun, RunIsDue
  <1>2. /\ my = [q \in Readers |-> my[q]] /\ reads = [q \in Readers |-> reads[q]]
        /\ Cursor(m) /\ Pending(m) /\ WholeOK(r)
        /\ m = [offset |-> m.offset, at |-> m.at, end |-> m.end, run |-> m.run, buf |-> m.buf]
    BY DEF Typed, ReaderOK, Cursor, Whole
  <1>3. /\ my'[r].run = None /\ my'[r].at = m.at /\ my'[r].end = m.end
        /\ \A q \in Readers \ {r} : my'[q] = my[q]
    <2> HIDE DEF filled
    <2>1. QED
      BY <1>1, <1>2
  <1>4. reads'[r] = new /\ \A q \in Readers \ {r} : reads'[q] = reads[q]
    BY <1>1, <1>2
  <1>5. ~Stream /\ run \in Ranges /\ run[2] + run[3] = m.at
    BY <1>1, <1>2 DEF Pending, Ranges
  <1>6. /\ old \in Seq(Ranges) /\ \A k \in 1 .. Len(old) - 1 : Breaks(old[k], old[k + 1])
        /\ old # <<>> => Breaks(old[Len(old)], run)
    BY <1>1, <1>2 DEF WholeOK, NextBreaks
  <1> HIDE DEF run, old, host
  <1>7. /\ new \in Seq(Ranges) /\ Len(new) = Len(old) + 1 /\ Len(old) \in Nat
        /\ new[Len(new)] = run /\ \A k \in 1 .. Len(old) : new[k] = old[k]
    BY <1>5, <1>6
  <1> HIDE DEF new
  <1>8. ASSUME NEW k \in 1 .. Len(new) - 1 PROVE Breaks(new[k], new[k + 1])
    <2>1. CASE k < Len(old)
      BY <1>6, <1>7, <2>1
    <2>2. CASE k = Len(old)
      BY <1>6, <1>7, <2>2
    <2>3. QED
      BY <1>7, <2>1, <2>2
  <1>p. PICK l : l = run
    OBVIOUS
  <1>9. NextBreaks(r, l)'
    <2>1. /\ m.at < m.end /\ Entry(r) # Hole =>
               HostOffset(Entry(r), Here(r).in, Here(r).len) # l[1] + l[3]
          /\ l[2] + l[3] = m.at /\ m.at \in Nat /\ image' = image
      BY <1>1, <1>2, <1>5, <1>p DEF host, Cursor
    <2>2. Entry(r)' = Entry(r) /\ Here(r)' = Here(r)
      BY <1>1, <1>3 DEF Entry, Here
    <2>3. HostOffset(Entry(r), Here(r).in, Here(r).len)' = HostOffset(Entry(r), Here(r).in, Here(r).len)
      BY <1>1, <2>2 DEF HostOffset
    <2>4. QED
      BY <1>3, <2>1, <2>2, <2>3 DEF NextBreaks
  <1>10. reads'[r][Len(reads'[r])] = l
    BY <1>4, <1>7, <1>p
  <1>11. WholeOK(r)'
    BY <1>1, <1>4, <1>5, <1>7, <1>8, <1>9, <1>10 DEF WholeOK, Stream
  <1>12. QED
    BY <1>1, <1>3, <1>4, <1>11, WholeFrame

LEMMA WholeNext == Typed /\ Whole /\ [Next]_vars => Whole'
  <1> SUFFICES ASSUME Typed, Whole, [Next]_vars PROVE Whole'
    OBVIOUS
  <1>1. CASE UNCHANGED vars
    <2>1. UNCHANGED <<image, pc, my, result, reads, inflated>>
      BY <1>1 DEF vars
    <2>2. ASSUME NEW r \in Readers PROVE WholeOK(r)'
      <3>1. WholeOK(r)
        BY DEF Whole
      <3>2. QED
        BY ONLY <2>1, <3>1 DEF WholeOK, NextBreaks, Breaks, Entry, Here, HostOffset, Stream
    <2>3. QED
      BY <2>2 DEF Whole
  <1>2. ASSUME NEW r \in Readers, CallRead(r) PROVE Whole'
    <2>1. /\ my' = [my EXCEPT ![r] = my'[r]] /\ reads' = [reads EXCEPT ![r] = <<>>]
          /\ pc' = [pc EXCEPT ![r] = "walk"] /\ image' = image
          /\ reads = [q \in Readers |-> reads[q]] /\ my = [q \in Readers |-> my[q]]
          /\ pc \in [Readers -> Places]
      BY <1>2 DEF CallRead, Goto, Typed
    <2>2. reads'[r] = <<>> /\ \A q \in Readers \ {r} : pc'[q] = pc[q] /\ my'[q] = my[q] /\ reads'[q] = reads[q]
      BY <2>1
    <2>3. WholeOK(r)'
      BY <2>2 DEF WholeOK
    <2>4. QED
      BY <2>1, <2>2, <2>3, WholeFrame
  <1>3. ASSUME NEW r \in Readers, WalkRefused(r) \/ WalkEnds(r) \/ InflateRefused(r) \/ ReadFails(r)
        PROVE  Whole'
    <2>1. /\ pc' = [pc EXCEPT ![r] = "idle"] /\ UNCHANGED <<image, my, reads, inflated>>
          /\ pc \in [Readers -> Places]
      BY <1>3 DEF WalkRefused, WalkEnds, InflateRefused, ReadFails, Return, Goto, Typed
    <2>2. pc'[r] = "idle" /\ \A q \in Readers \ {r} : pc'[q] = pc[q]
      BY <2>1
    <2>3. QED
      BY <2>1, <2>2, WholeKept, WholeFrame
  <1>4. ASSUME NEW r \in Readers, CacheHit(r) \/ CacheMiss(r) \/ Inflate(r) \/ Keep(r)
        PROVE  Whole'
    <2>1. Stream /\ pc \in [Readers -> Places] /\ my = [q \in Readers |-> my[q]]
      BY <1>4 DEF CacheHit, CacheMiss, Inflate, Keep, Typed, ReaderOK
    <2>2. /\ image' = image /\ reads' = reads
          /\ \/ pc' = pc
             \/ \E to \in Places : pc' = [pc EXCEPT ![r] = to]
      BY <1>4 DEF CacheHit, CacheMiss, Inflate, Keep, Goto, Places
    <2>3. my' = my \/ \E p : my' = [my EXCEPT ![r] = p]
      BY <1>4 DEF CacheHit, CacheMiss, Inflate, Keep, Serve
    <2>4. \A q \in Readers \ {r} : pc'[q] = pc[q] /\ my'[q] = my[q]
      BY <2>1, <2>2, <2>3
    <2>5. QED
      BY <2>1, <2>2, <2>4, WholeKept, WholeFrame
  <1>5. QED
    BY <1>1, <1>2, <1>3, <1>4, WholeWalkHole, WholeWalkRun, WholeReadRun DEF Next, ReaderStep

LEMMA AlwaysWhole == Spec => []Whole
  <1>1. Typed /\ Typed' /\ Whole /\ [Next]_vars => Whole'
    BY WholeNext
  <1>2. QED
    BY <1>1, WholeInit, AlwaysTyped, PTL DEF Spec

-----------------------------------------------------------------------------
(* Theorems *)

\* The reads keep within their ranges, the pending run behind the cursor.
THEOREM TypeCorrect == Spec => []TypeOK
  <1>1. Typed => TypeOK
    BY DEF Typed, TypeOK, ReaderOK, Cursor, Pending, Places, Results
  <1>2. QED
    BY <1>1, AlwaysTyped, PTL

\* A read that returns Ok has filled every unit of its buffer with the right one,
\* however the runs were joined and whichever reader filled the cache.
THEOREM OkIsTrue == Spec => []OkReadIsTrue
  <1>1. Typed => OkReadIsTrue
    BY DEF Typed, OkReadIsTrue, ReaderOK, Cursor
  <1>2. QED
    BY <1>1, AlwaysTyped, PTL

\* A read's verdict is that of its units read one by one.
THEOREM VerdictIsTheUnits == Spec => []VerdictIsPerGrain
  <1>1. Typed => VerdictIsPerGrain
    BY DEF Typed, VerdictIsPerGrain, ReaderOK
  <1>2. QED
    BY <1>1, AlwaysTyped, PTL

\* A read joins what lies back to back into one device read: no two of its reads in
\* a row continue each other both on the host and in the buffer.
THEOREM OneReadPerRun == Spec => []RunsAreWhole
  <1>1. Whole => RunsAreWhole
    BY DEF Whole, WholeOK, Breaks, RunsAreWhole
  <1>2. QED
    BY <1>1, AlwaysWhole, PTL
=============================================================================
