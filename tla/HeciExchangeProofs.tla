------------------------- MODULE HeciExchangeProofs -------------------------
(***************************************************************************)
(* What TLAPS proves of HeciExchange, for every depth of the buffers, every*)
(* modulus of the pointers, all lengths of messages and numbers of retries.*)
(***************************************************************************)
EXTENDS HeciExchange, SequenceTheorems, TLAPS

\* The lengths of the command in progress.
Request == ReqLength[command[This]]
Answer == AckLength[command[This]]

-----------------------------------------------------------------------------
(***************************************************************************)
(* Division by a divisor that is not known                                 *)
(***************************************************************************)

LEMMA DivMod ==
  ASSUME NEW p \in Nat \ {0}, NEW x \in Nat
  PROVE  x = p * (x \div p) + (x % p) /\ x \div p \in Nat /\ x % p \in 0 .. p - 1
OBVIOUS

LEMMA ModSmall ==
  ASSUME NEW p \in Nat \ {0}, NEW x \in Nat, x < p
  PROVE  x % p = x /\ x \div p = 0
OBVIOUS

LEMMA DivAdd ==
  ASSUME NEW p \in Nat \ {0}, NEW x \in Nat
  PROVE  (x + p) \div p = (x \div p) + 1
OBVIOUS

LEMMA ModAdd ==
  ASSUME NEW p \in Nat \ {0}, NEW x \in Nat
  PROVE  (x + p) % p = x % p
<1>1. x + p = p * ((x + p) \div p) + ((x + p) % p)
  BY DivMod
<1>2. x = p * (x \div p) + (x % p) /\ x \div p \in Nat /\ x % p \in Nat /\ (x + p) % p \in Nat
  BY DivMod
<1>3. x + p = p * ((x \div p) + 1) + ((x + p) % p)
  BY <1>1, DivAdd
<1> QED
  BY <1>2, <1>3

\* A pointer that goes round at most once.
LEMMA Wrapped ==
  ASSUME NEW p \in Nat \ {0}, NEW x \in 0 .. p + p - 1
  PROVE  /\ x < p => x % p = x
         /\ x >= p => x % p = x - p
<1>1. ASSUME x < p PROVE x % p = x
  BY <1>1, ModSmall
<1>2. ASSUME x >= p PROVE x % p = x - p
  <2>1. x - p \in Nat /\ x - p < p /\ x = (x - p) + p
    BY <1>2
  <2>2. (x - p) % p = x - p
    BY <2>1, ModSmall
  <2>3. ((x - p) + p) % p = (x - p) % p
    BY <2>1, ModAdd
  <2> QED
    BY <2>1, <2>2, <2>3, Zenon
<1> QED
  BY <1>1, <1>2, Zenon

-----------------------------------------------------------------------------
(***************************************************************************)
(* The circular buffers                                                    *)
(***************************************************************************)

Pointer == 0 .. PtrMod - 1

LEMMA PtrModType ==
  PtrMod \in Nat \ {0} /\ Depth \in Nat /\ Depth > 1 /\ PtrMod > Depth
BY HeciAssumption

Advanced(p, n) == (p + n) % PtrMod

LEMMA NextIs ==
  ASSUME NEW p \in Pointer, NEW n \in 0 .. PtrMod
  PROVE  Advanced(p, n) = IF p + n < PtrMod THEN p + n ELSE p + n - PtrMod
<1> DEFINE x == p + n
<1>1. x \in 0 .. PtrMod + PtrMod - 1
  BY PtrModType DEF Pointer
<1> HIDE DEF x
<1>2. /\ x < PtrMod => x % PtrMod = x
      /\ x >= PtrMod => x % PtrMod = x - PtrMod
  BY <1>1, PtrModType, Wrapped, Zenon
<1>3. Advanced(p, n) = x % PtrMod
  BY DEF Advanced, x
<1>4. /\ x < PtrMod => Advanced(p, n) = x
      /\ x >= PtrMod => Advanced(p, n) = x - PtrMod
  BY <1>2, <1>3, Zenon
<1> QED
  BY <1>1, <1>4, PtrModType DEF x, Pointer

LEMMA FilledIs ==
  ASSUME NEW rp \in Pointer, NEW wp \in Pointer
  PROVE  FilledSlots(rp, wp) = IF wp < rp THEN wp + PtrMod - rp ELSE wp - rp
<1> DEFINE x == wp + PtrMod - rp
<1>1. x \in 0 .. PtrMod + PtrMod - 1
  BY PtrModType DEF Pointer
<1> HIDE DEF x
<1>2. /\ x < PtrMod => x % PtrMod = x
      /\ x >= PtrMod => x % PtrMod = x - PtrMod
  BY <1>1, PtrModType, Wrapped, Zenon
<1>3. FilledSlots(rp, wp) = x % PtrMod
  BY DEF FilledSlots, x
<1>4. /\ x < PtrMod => FilledSlots(rp, wp) = x
      /\ x >= PtrMod => FilledSlots(rp, wp) = x - PtrMod
  BY <1>2, <1>3, Zenon
<1> QED
  BY <1>4, PtrModType DEF x, Pointer

\* Writing moves the one pointer and fills, reading moves the other and empties.
LEMMA FilledWrite ==
  ASSUME NEW rp \in Pointer, NEW wp \in Pointer, NEW n \in Nat,
         FilledSlots(rp, wp) + n <= Depth
  PROVE  /\ (wp + n) % PtrMod \in Pointer
         /\ FilledSlots(rp, (wp + n) % PtrMod) = FilledSlots(rp, wp) + n
<1> DEFINE wq == Advanced(wp, n)
<1>1. FilledSlots(rp, wp) = IF wp < rp THEN wp + PtrMod - rp ELSE wp - rp
  BY FilledIs
<1>2. n \in 0 .. PtrMod
  BY <1>1, PtrModType DEF Pointer
<1>3. wq = IF wp + n < PtrMod THEN wp + n ELSE wp + n - PtrMod
  BY <1>2, NextIs
<1> HIDE DEF wq
<1>4. wq \in Pointer
  BY <1>2, <1>3, PtrModType DEF Pointer
<1>5. FilledSlots(rp, wq) = IF wq < rp THEN wq + PtrMod - rp ELSE wq - rp
  BY <1>4, FilledIs
<1>6. FilledSlots(rp, wq) = FilledSlots(rp, wp) + n
  BY <1>1, <1>3, <1>5, PtrModType DEF Pointer
<1> QED
  BY <1>4, <1>6, Zenon DEF wq, Advanced

LEMMA FilledRead ==
  ASSUME NEW rp \in Pointer, NEW wp \in Pointer, NEW n \in Nat,
         n <= FilledSlots(rp, wp)
  PROVE  /\ (rp + n) % PtrMod \in Pointer
         /\ FilledSlots((rp + n) % PtrMod, wp) = FilledSlots(rp, wp) - n
<1> DEFINE rq == Advanced(rp, n)
<1>1. FilledSlots(rp, wp) = IF wp < rp THEN wp + PtrMod - rp ELSE wp - rp
  BY FilledIs
<1>2. n \in 0 .. PtrMod
  BY <1>1, PtrModType DEF Pointer
<1>3. rq = IF rp + n < PtrMod THEN rp + n ELSE rp + n - PtrMod
  BY <1>2, NextIs
<1> HIDE DEF rq
<1>4. rq \in Pointer
  BY <1>2, <1>3, PtrModType DEF Pointer
<1>5. FilledSlots(rq, wp) = IF wp < rq THEN wp + PtrMod - rq ELSE wp - rq
  BY <1>4, FilledIs
<1>6. FilledSlots(rq, wp) = FilledSlots(rp, wp) - n
  BY <1>1, <1>3, <1>5, PtrModType DEF Pointer
<1> QED
  BY <1>4, <1>6, Zenon DEF rq, Advanced

LEMMA FilledZero == 0 \in Pointer /\ FilledSlots(0, 0) = 0
<1>1. 0 \in Pointer
  BY PtrModType DEF Pointer
<1> QED
  BY <1>1, FilledIs

-----------------------------------------------------------------------------
(***************************************************************************)
(* Packets and messages as sequences of dwords                             *)
(***************************************************************************)

LEMMA DwordsType == ASSUME NEW n \in Nat PROVE Dwords(n) \in Nat /\ (n > 0 => Dwords(n) > 0)
BY DEF Dwords

LEMMA MostType == Most \in Nat \ {0} /\ Dwords(Most) = Depth - 1
BY PtrModType DEF Most, Dwords

LEMMA HeaderType ==
  ASSUME NEW id \in Ids, NEW n \in Nat, NEW b \in BOOLEAN
  PROVE  Header(id, n, b) \in Slots /\ Body(id) \in Slots
BY DEF Header, Body, Slots

Bodies(h) == [i \in 1 .. Dwords(h.length) |-> Body(h.id)]

LEMMA BodiesProps ==
  ASSUME NEW h \in Slots
  PROVE  /\ Bodies(h) \in Seq(Slots) /\ Len(Bodies(h)) = Dwords(h.length)
         /\ \A i \in 1 .. Len(Bodies(h)) : Bodies(h)[i] = Body(h.id)
<1>1. Dwords(h.length) \in Nat /\ Body(h.id) \in Slots
  BY DwordsType DEF Slots, Body
<1> QED
  BY <1>1 DEF Bodies

LEMMA PacketProps ==
  ASSUME NEW h \in Slots
  PROVE  /\ Packet(h) = <<h>> \o Bodies(h)
         /\ Packet(h) \in Seq(Slots) /\ Len(Packet(h)) = Dwords(h.length) + 1
         /\ Packet(h)[1] = h /\ Packet(h) # <<>> /\ Head(Packet(h)) = h
         /\ \A i \in 2 .. Len(Packet(h)) : Packet(h)[i] = Body(h.id)
<1>1. Packet(h) = <<h>> \o Bodies(h)
  BY DEF Packet, Bodies
<1>2. <<h>> \in Seq(Slots) /\ Len(<<h>>) = 1
  OBVIOUS
<1>3. /\ Packet(h) \in Seq(Slots) /\ Len(Packet(h)) = 1 + Dwords(h.length)
      /\ \A i \in 1 .. 1 + Dwords(h.length) :
           Packet(h)[i] = IF i <= 1 THEN <<h>>[i] ELSE Bodies(h)[i - 1]
  BY <1>1, <1>2, BodiesProps, ConcatProperties
<1>4. Dwords(h.length) \in Nat
  BY DwordsType DEF Slots
<1>5. Packet(h)[1] = h /\ Packet(h) # <<>>
  BY <1>3, <1>4
<1>6. \A i \in 2 .. Len(Packet(h)) : Packet(h)[i] = Body(h.id)
  <2> TAKE i \in 2 .. Len(Packet(h))
  <2> DEFINE d == Dwords(h.length)
  <2>0. Len(Packet(h)) = 1 + d /\ Len(Bodies(h)) = d /\ d \in Nat
    BY <1>3, <1>4, BodiesProps, Zenon
  <2> HIDE DEF d
  <2>1. i - 1 \in 1 .. Len(Bodies(h)) /\ i \in 1 .. 1 + d /\ ~(i <= 1)
    BY <2>0
  <2>2. Packet(h)[i] = Bodies(h)[i - 1]
    BY <1>3, <2>1, Zenon DEF d
  <2>3. Bodies(h)[i - 1] = Body(h.id)
    BY <2>1, BodiesProps, Zenon
  <2> QED
    BY <2>2, <2>3, Zenon
<1> QED
  BY <1>1, <1>3, <1>4, <1>5, <1>6

\* A message in one packet, and one in more.
LEMMA PacketsStep ==
  ASSUME NEW n \in Nat
  PROVE  /\ Packets(n) \in Nat \ {0}
         /\ n <= Most => Packets(n) = 1
         /\ n > Most => Packets(n) = Packets(n - Most) + 1
<1> DEFINE m == n + Most - 1
<1>1. ASSUME n > 0 PROVE m \in Nat /\ m >= Most /\ Packets(n) = m \div Most
  BY <1>1, MostType DEF Packets
<1>2. ASSUME n > 0 PROVE /\ m - Most \in Nat
                         /\ m \div Most = ((m - Most) \div Most) + 1
                         /\ (m - Most) \div Most \in Nat
  <2>1. m - Most \in Nat /\ m = (m - Most) + Most
    BY <1>1, <1>2, MostType
  <2> HIDE DEF m
  <2>2. ((m - Most) + Most) \div Most = ((m - Most) \div Most) + 1
    BY <2>1, MostType, DivAdd, Zenon
  <2>3. (m - Most) \div Most \in Nat
    BY <2>1, MostType, DivMod, Zenon
  <2> QED
    BY <2>1, <2>2, <2>3, Zenon
<1>3. Packets(n) \in Nat \ {0}
  <2>1. CASE n = 0
    BY <2>1 DEF Packets
  <2>2. CASE n > 0
    BY <2>2, <1>1, <1>2
  <2> QED
    BY <2>1, <2>2
<1>4. ASSUME n <= Most PROVE Packets(n) = 1
  <2>1. CASE n = 0
    BY <2>1 DEF Packets
  <2>2. CASE n > 0
    <3>1. m - Most < Most
      BY <2>2, <1>4, MostType
    <3>2. (m - Most) \div Most = 0
      BY <2>2, <3>1, <1>2, MostType, ModSmall, Zenon
    <3>3. 0 + 1 = 1
      OBVIOUS
    <3> QED
      BY <2>2, <1>1, <1>2, <3>2, <3>3, Zenon
  <2> QED
    BY <2>1, <2>2
<1>5. ASSUME n > Most PROVE Packets(n) = Packets(n - Most) + 1
  <2>1. n > 0 /\ n - Most \in Nat /\ n - Most # 0 /\ (n - Most) + Most - 1 = m - Most
    BY <1>5, MostType
  <2>2. Packets(n - Most) = (m - Most) \div Most
    BY <2>1, Zenon DEF Packets
  <2> QED
    BY <2>1, <2>2, <1>1, <1>2, Zenon
<1> QED
  BY <1>3, <1>4, <1>5, Zenon

\* What is left of a message at its packet k.
LEMMA LeftProps ==
  ASSUME NEW n \in Nat, NEW k \in Nat
  PROVE  /\ Left(n, k) \in Nat
         /\ Left(n, 0) = n
         /\ n > Most => Left(n, k + 1) = Left(n - Most, k)
<1> DEFINE km == k * Most
<1>1. km \in Nat /\ (k + 1) * Most = km + Most /\ 0 * Most = 0
  BY MostType
<1>2. Left(n, k) = IF km < n THEN n - km ELSE 0
  BY DEF Left
<1>3. Left(n, k + 1) = IF km + Most < n THEN n - (km + Most) ELSE 0
  BY <1>1, Zenon DEF Left
<1>4. Left(n, 0) = IF 0 < n THEN n - 0 ELSE 0
  BY <1>1, Zenon DEF Left
<1>5. Left(n - Most, k) = IF km < n - Most THEN (n - Most) - km ELSE 0
  BY Zenon DEF Left
<1> HIDE DEF km
<1> QED
  BY <1>1, <1>2, <1>3, <1>4, <1>5, MostType

\* Dword i of a message.
Word(id, n, i) ==
  IF (i - 1) % Depth = 0
  THEN Header(id, Least(Left(n, (i - 1) \div Depth), Most), Left(n, (i - 1) \div Depth) <= Most)
  ELSE Body(id)

LEMMA WordType ==
  ASSUME NEW id \in Ids, NEW n \in Nat, NEW i \in Nat \ {0}
  PROVE  Word(id, n, i) \in Slots
<1> DEFINE k == (i - 1) \div Depth
           left == Left(n, k)
<1>1. i - 1 \in Nat
  OBVIOUS
<1>2. k \in Nat
  BY <1>1, PtrModType, DivMod
<1>3. left \in Nat
  BY <1>2, LeftProps
<1> HIDE DEF k, left
<1>4. Least(left, Most) \in Nat /\ (left <= Most) \in BOOLEAN
  BY <1>3, MostType DEF Least
<1>5. Header(id, Least(left, Most), left <= Most) \in Slots /\ Body(id) \in Slots
  BY <1>4, HeaderType, Zenon
<1> QED
  BY <1>5, Zenon DEF Word, left, k

LEMMA StreamProps ==
  ASSUME NEW id \in Ids, NEW n \in Nat
  PROVE  /\ Stream(id, n) \in Seq(Slots)
         /\ Len(Stream(id, n)) = Dwords(n) + Packets(n)
         /\ Dwords(n) + Packets(n) \in Nat \ {0}
         /\ \A i \in 1 .. Dwords(n) + Packets(n) : Stream(id, n)[i] = Word(id, n, i)
<1> DEFINE m == Dwords(n) + Packets(n)
           W(i) == Word(id, n, i)
<1>1. m \in Nat \ {0}
  BY DwordsType, PacketsStep
<1>2. Stream(id, n) = [i \in 1 .. m |-> W(i)]
  BY Zenon DEF Stream, Word
<1>3. \A i \in 1 .. m : W(i) \in Slots
  <2> TAKE i \in 1 .. m
  <2>1. i \in Nat \ {0}
    BY <1>1
  <2> QED
    BY <2>1, WordType
<1> HIDE DEF m, W
<1>4. [i \in 1 .. m |-> W(i)] \in Seq(Slots) /\ Len([i \in 1 .. m |-> W(i)]) = m
  BY <1>1, <1>3
<1>5. \A i \in 1 .. m : Stream(id, n)[i] = W(i)
  BY <1>2
<1> QED
  BY <1>1, <1>2, <1>4, <1>5, Zenon DEF m, W

\* The dwords of the first packet, and those behind it.
LEMMA WordFirst ==
  ASSUME NEW id \in Ids, NEW n \in Nat, NEW i \in 1 .. Depth
  PROVE  /\ i = 1 => Word(id, n, i) = Header(id, Least(n, Most), n <= Most)
         /\ i # 1 => Word(id, n, i) = Body(id)
<1>1. i - 1 \in Nat /\ i - 1 < Depth /\ Depth \in Nat \ {0}
  BY PtrModType
<1>2. (i - 1) % Depth = i - 1 /\ (i - 1) \div Depth = 0
  BY <1>1, ModSmall
<1>3. Word(id, n, i) = IF i - 1 = 0 THEN Header(id, Least(Left(n, 0), Most), Left(n, 0) <= Most)
                                    ELSE Body(id)
  BY <1>2, Zenon DEF Word
<1>4. Left(n, 0) = n
  BY LeftProps
<1>5. i - 1 = 0 <=> i = 1
  OBVIOUS
<1> QED
  BY <1>3, <1>4, <1>5, Zenon

LEMMA WordLater ==
  ASSUME NEW id \in Ids, NEW n \in Nat, n > Most, NEW i \in Nat \ {0}
  PROVE  Word(id, n, i + Depth) = Word(id, n - Most, i)
<1> DEFINE j == i - 1
           k == j \div Depth
<1>1. j \in Nat /\ (i + Depth) - 1 = j + Depth /\ Depth \in Nat \ {0} /\ n - Most \in Nat
  BY PtrModType, MostType
<1> HIDE DEF j
<1>2. (j + Depth) % Depth = j % Depth /\ (j + Depth) \div Depth = k + 1
  BY <1>1, DivAdd, ModAdd
<1>3. k \in Nat
  BY <1>1, DivMod
<1> HIDE DEF k
<1>4. Left(n, k + 1) = Left(n - Most, k)
  BY <1>3, LeftProps, Zenon
<1>5. Word(id, n, i + Depth) =
        IF j % Depth = 0
        THEN Header(id, Least(Left(n, k + 1), Most), Left(n, k + 1) <= Most) ELSE Body(id)
  BY <1>1, <1>2, Zenon DEF Word
<1>6. Word(id, n - Most, i) =
        IF j % Depth = 0
        THEN Header(id, Least(Left(n - Most, k), Most), Left(n - Most, k) <= Most) ELSE Body(id)
  BY Zenon DEF Word, j, k
<1>7. CASE j % Depth = 0
  BY <1>4, <1>5, <1>6, <1>7, Zenon
<1>8. CASE j % Depth # 0
  BY <1>5, <1>6, <1>8, Zenon
<1> QED
  BY <1>7, <1>8, Zenon

LEMMA StreamShort ==
  ASSUME NEW id \in Ids, NEW n \in Nat, n <= Most
  PROVE  Stream(id, n) = Packet(Header(id, n, TRUE))
<1> DEFINE h == Header(id, n, TRUE)
           s == Stream(id, n)
           t == Packet(h)
<1>1. h \in Slots /\ h.length = n /\ h.id = id
  BY HeaderType DEF Header
<1>2. /\ t \in Seq(Slots) /\ Len(t) = Dwords(n) + 1 /\ t[1] = h
      /\ \A i \in 2 .. Len(t) : t[i] = Body(id)
  BY <1>1, PacketProps
<1>3. /\ s \in Seq(Slots) /\ Len(s) = Dwords(n) + 1
      /\ \A i \in 1 .. Dwords(n) + 1 : s[i] = Word(id, n, i)
  BY StreamProps, PacketsStep
<1>4. Dwords(n) \in Nat /\ Dwords(n) + 1 <= Depth
  BY PtrModType DEF Dwords, Most
<1>5. Least(n, Most) = n /\ (n <= Most) = TRUE
  BY MostType DEF Least
<1> HIDE DEF s, t
<1>6. ASSUME NEW i \in 1 .. Len(s) PROVE s[i] = t[i]
  <2>1. i \in 1 .. Depth /\ i \in 1 .. Dwords(n) + 1 /\ (i # 1 => i \in 2 .. Len(t))
    BY <1>2, <1>3, <1>4, PtrModType
  <2>2. /\ i = 1 => Word(id, n, i) = h
        /\ i # 1 => Word(id, n, i) = Body(id)
    BY <2>1, <1>5, WordFirst, Zenon
  <2> QED
    BY <1>2, <1>3, <2>1, <2>2, Zenon
<1>7. s = t
  BY <1>2, <1>3, <1>6, SeqEqual, Zenon
<1> QED
  BY <1>7 DEF s, t

LEMMA StreamLong ==
  ASSUME NEW id \in Ids, NEW n \in Nat, n > Most
  PROVE  Stream(id, n) = Packet(Header(id, Most, FALSE)) \o Stream(id, n - Most)
<1> DEFINE h == Header(id, Most, FALSE)
           s == Stream(id, n)
           t == Packet(h)
           u == Stream(id, n - Most)
           m == Dwords(n - Most) + Packets(n - Most)
<1>0. Most \in Nat /\ n - Most \in Nat
  BY MostType
<1>1. h \in Slots /\ h.length = Most /\ h.id = id /\ n - Most \in Nat
  BY <1>0, HeaderType DEF Header
<1>2. /\ t \in Seq(Slots) /\ Len(t) = Depth /\ t[1] = h
      /\ \A i \in 2 .. Len(t) : t[i] = Body(id)
  <2>1. /\ t \in Seq(Slots) /\ Len(t) = Dwords(h.length) + 1 /\ t[1] = h
        /\ \A i \in 2 .. Len(t) : t[i] = Body(h.id)
    BY <1>1, PacketProps, Zenon
  <2>2. Dwords(h.length) = Depth - 1
    BY <1>1, MostType, Zenon
  <2>3. (Depth - 1) + 1 = Depth
    BY PtrModType
  <2> QED
    BY <1>1, <2>1, <2>2, <2>3, Zenon
<1>3. /\ u \in Seq(Slots) /\ Len(u) = m /\ m \in Nat
      /\ \A i \in 1 .. m : u[i] = Word(id, n - Most, i)
  BY <1>1, StreamProps, Zenon
<1>4. Dwords(n) + Packets(n) = m + Depth
  <2>1. Dwords(n) = Dwords(n - Most) + (Depth - 1)
    BY PtrModType DEF Dwords, Most
  <2>2. Packets(n) = Packets(n - Most) + 1 /\ Packets(n - Most) \in Nat
    BY <1>1, PacketsStep
  <2> QED
    BY <1>1, <2>1, <2>2, DwordsType, PtrModType
<1>5. /\ s \in Seq(Slots) /\ Len(s) = m + Depth
      /\ \A i \in 1 .. m + Depth : s[i] = Word(id, n, i)
  BY <1>4, StreamProps
<1>6. Least(n, Most) = Most /\ (n <= Most) = FALSE
  BY MostType DEF Least
<1> HIDE DEF s, t, u, m
<1>7. /\ t \o u \in Seq(Slots) /\ Len(t \o u) = Depth + m
      /\ \A i \in 1 .. Depth + m : (t \o u)[i] = IF i <= Depth THEN t[i] ELSE u[i - Depth]
  BY <1>2, <1>3, ConcatProperties
<1>8. ASSUME NEW i \in 1 .. Len(s) PROVE s[i] = (t \o u)[i]
  <2>1. i \in 1 .. m + Depth /\ i \in 1 .. Depth + m
    BY <1>3, <1>5, PtrModType
  <2>2. CASE i <= Depth
    <3>1. i \in 1 .. Depth /\ (i # 1 => i \in 2 .. Len(t))
      BY <1>2, <2>1, <2>2, PtrModType
    <3>2. /\ i = 1 => Word(id, n, i) = h
          /\ i # 1 => Word(id, n, i) = Body(id)
      BY <3>1, <1>6, WordFirst, Zenon
    <3> QED
      BY <1>2, <1>5, <1>7, <2>1, <2>2, <3>1, <3>2, Zenon
  <2>3. CASE ~(i <= Depth)
    <3>1. i - Depth \in Nat \ {0} /\ i - Depth \in 1 .. m /\ (i - Depth) + Depth = i
      BY <1>3, <2>1, <2>3, PtrModType
    <3>2. Word(id, n, (i - Depth) + Depth) = Word(id, n - Most, i - Depth)
      BY <3>1, WordLater, Zenon
    <3> QED
      BY <1>3, <1>5, <1>7, <2>1, <2>3, <3>1, <3>2, Zenon
  <2> QED
    BY <2>2, <2>3
<1>9. Len(s) = Len(t \o u)
  BY <1>3, <1>5, <1>7, PtrModType
<1>10. s = t \o u
  BY <1>5, <1>7, <1>8, <1>9, SeqEqual, Zenon
<1> QED
  BY <1>10 DEF s, t, u

\* What is left of a buffer when n dwords have been read.
LEMMA Dropped ==
  ASSUME NEW s \in Seq(Slots), NEW n \in 0 .. Len(s)
  PROVE  /\ SubSeq(s, n + 1, Len(s)) \in Seq(Slots)
         /\ Len(SubSeq(s, n + 1, Len(s))) = Len(s) - n
         /\ \A i \in 1 .. Len(s) - n : SubSeq(s, n + 1, Len(s))[i] = s[i + n]
<1> DEFINE l == Len(s)
           m == n + 1
<1>1. l \in Nat /\ m \in Int /\ l \in Int /\ n \in Nat /\ n <= l
  OBVIOUS
<1>2. \A i \in m .. l : s[i] \in Slots
  OBVIOUS
<1>3. /\ SubSeq(s, m, l) \in Seq(Slots)
      /\ Len(SubSeq(s, m, l)) = IF m <= l THEN l - m + 1 ELSE 0
      /\ \A i \in 1 .. l - m + 1 : SubSeq(s, m, l)[i] = s[m + i - 1]
  BY <1>1, <1>2, SubSeqProperties
<1>4. ASSUME NEW i \in 1 .. l - n PROVE SubSeq(s, m, l)[i] = s[i + n]
  <2>1. i \in 1 .. l - m + 1 /\ m + i - 1 = i + n
    BY <1>1
  <2> QED
    BY <1>3, <2>1, Zenon
<1>5. Len(SubSeq(s, m, l)) = l - n
  BY <1>1, <1>3
<1> QED
  BY <1>3, <1>4, <1>5, Zenon

\* A buffer that holds whole packets: its first dword is a header, and so is the
\* dword behind every packet.
WholePackets(s) ==
  /\ s # <<>> => s[1].header
  /\ \A i \in 1 .. Len(s) : s[i].header =>
       /\ i + Dwords(s[i].length) <= Len(s)
       /\ i + Dwords(s[i].length) < Len(s) => s[i + Dwords(s[i].length) + 1].header

LEMMA WholeAppended ==
  ASSUME NEW s \in Seq(Slots), WholePackets(s), NEW h \in Slots, h.header
  PROVE  WholePackets(s \o Packet(h))
<1> DEFINE t == Packet(h)
           l == Len(s)
           d == Dwords(h.length)
<1>1. /\ t \in Seq(Slots) /\ Len(t) = d + 1 /\ t[1] = h
      /\ \A i \in 2 .. Len(t) : t[i] = Body(h.id)
  BY PacketProps
<1>2. d \in Nat /\ l \in Nat
  BY DwordsType DEF Slots
<1> HIDE DEF t, d
<1>3. /\ s \o t \in Seq(Slots) /\ Len(s \o t) = l + d + 1
      /\ \A i \in 1 .. l : (s \o t)[i] = s[i]
      /\ (s \o t)[l + 1] = h
      /\ \A i \in l + 2 .. l + d + 1 : (s \o t)[i] = Body(h.id)
  BY <1>1, <1>2
<1> DEFINE u == s \o t
<1> HIDE DEF u, l
<1>4. u[1].header
  <2>1. CASE l = 0
    BY <1>2, <1>3, <2>1 DEF u
  <2>2. CASE l > 0
    BY <1>2, <1>3, <2>2 DEF u, WholePackets, l
  <2> QED
    BY <1>2, <2>1, <2>2
<1>5. ASSUME NEW i \in 1 .. Len(u), u[i].header
      PROVE  /\ i + Dwords(u[i].length) <= Len(u)
             /\ i + Dwords(u[i].length) < Len(u) => u[i + Dwords(u[i].length) + 1].header
  <2>1. i \in Nat /\ i >= 1 /\ i <= l + d + 1
    BY <1>3, <1>2 DEF u
  <2>2. CASE i <= l
    <3> DEFINE e == i + Dwords(s[i].length)
    <3>1. i \in 1 .. l /\ u[i] = s[i]
      BY <2>1, <2>2, <1>3, <1>2 DEF u
    <3>2. s[i] \in Slots
      BY <3>1 DEF l
    <3>0. Dwords(s[i].length) \in Nat
      BY <3>2, DwordsType DEF Slots
    <3>3. e \in Nat /\ e >= i
      BY <3>0, <2>1
    <3>4. e <= l /\ (e < l => s[e + 1].header)
      BY <3>1, <1>5, Zenon DEF WholePackets, l
    <3>5. u[i].length = s[i].length
      BY <3>1
    <3> HIDE DEF e
    <3>6. e <= Len(u)
      BY <3>3, <3>4, <1>2, <1>3 DEF u
    <3>7. ASSUME e < Len(u) PROVE u[e + 1].header
      <4>1. CASE e < l
        <5>1. e + 1 \in 1 .. l
          BY <3>3, <4>1, <1>2
        <5> QED
          BY <5>1, <4>1, <3>4, <1>3 DEF u
      <4>2. CASE e = l
        BY <4>2, <1>3 DEF u
      <4> QED
        BY <3>3, <3>4, <1>2, <4>1, <4>2
    <3> QED
      BY <3>5, <3>6, <3>7, Zenon DEF e
  <2>3. CASE i = l + 1
    <3>1. u[i] = h
      BY <2>3, <1>3 DEF u
    <3> QED
      BY <3>1, <2>3, <1>2, <1>3 DEF u, d
  <2>4. CASE i > l + 1
    <3>0. i \in l + 2 .. l + d + 1
      BY <2>1, <2>4, <1>2
    <3>1. u[i] = Body(h.id)
      BY <3>0, <1>3, Zenon DEF u
    <3> QED
      BY <3>1, <1>5 DEF Body
  <2> QED
    BY <2>1, <2>2, <2>3, <2>4, <1>2
<1> QED
  BY <1>4, <1>5, Zenon DEF WholePackets, u, t

LEMMA WholeTaken ==
  ASSUME NEW s \in Seq(Slots), WholePackets(s), s # <<>>
  PROVE  /\ Head(s) = s[1] /\ s[1] \in Slots /\ s[1].header
         /\ Dwords(s[1].length) \in Nat /\ Dwords(s[1].length) + 1 <= Len(s)
         /\ WholePackets(SubSeq(s, Dwords(s[1].length) + 2, Len(s)))
<1> DEFINE d == Dwords(s[1].length)
           n == d + 1
           l == Len(s)
<1>1. Head(s) = s[1] /\ l \in Nat /\ 1 \in 1 .. l /\ s[1] \in Slots
  OBVIOUS
<1>2. d \in Nat
  BY <1>1, DwordsType DEF Slots
<1>3. s[1].header /\ 1 + d <= l /\ (1 + d < l => s[1 + d + 1].header)
  BY <1>1, Zenon DEF WholePackets
<1> HIDE DEF d
<1> DEFINE u == SubSeq(s, d + 2, l)
<1>4. n \in 0 .. l /\ n + 1 = d + 2 /\ n <= l
  BY <1>1, <1>2, <1>3
<1>5. u \in Seq(Slots) /\ Len(u) = l - n /\ \A i \in 1 .. l - n : u[i] = s[i + n]
  BY <1>4, Dropped
<1> HIDE DEF u, l
<1>6. u # <<>> => u[1].header
  <2> SUFFICES ASSUME u # <<>> PROVE u[1].header
    OBVIOUS
  <2>1. 1 \in 1 .. l - n
    BY <1>5, <1>1, <1>2
  <2>2. u[1] = s[1 + n] /\ 1 + n = 1 + d + 1 /\ 1 + d < l
    BY <1>1, <1>2, <1>5, <2>1
  <2> QED
    BY <2>2, <1>3, Zenon
<1>7. ASSUME NEW i \in 1 .. Len(u), u[i].header
      PROVE  /\ i + Dwords(u[i].length) <= Len(u)
             /\ i + Dwords(u[i].length) < Len(u) => u[i + Dwords(u[i].length) + 1].header
  <2> DEFINE j == i + n
             e == Dwords(s[j].length)
  <2>1. i \in 1 .. l - n /\ i \in Nat /\ j \in 1 .. l /\ u[i] = s[j]
    BY <1>1, <1>2, <1>5
  <2>2. e \in Nat
    <3>1. s[j] \in Slots
      BY <2>1 DEF l
    <3> QED
      BY <3>1, DwordsType DEF Slots
  <2>3. j + e <= l /\ (j + e < l => s[j + e + 1].header)
    BY <2>1, <1>7, Zenon DEF WholePackets, l
  <2> HIDE DEF e
  <2>4. i + e <= Len(u)
    BY <2>1, <2>2, <2>3, <1>1, <1>2, <1>5
  <2>5. ASSUME i + e < Len(u) PROVE u[i + e + 1].header
    <3> DEFINE k == i + e + 1
    <3>1. k \in 1 .. l - n /\ k + n = j + e + 1 /\ j + e < l
      BY <2>1, <2>2, <2>5, <1>1, <1>2, <1>5
    <3> HIDE DEF k, j, n
    <3>2. u[k] = s[k + n]
      BY <3>1, <1>5, Zenon
    <3>3. s[j + e + 1].header
      BY <3>1, <2>3, Zenon
    <3> QED
      BY <3>1, <3>2, <3>3, Zenon DEF k
  <2> QED
    BY <2>1, <2>4, <2>5, Zenon DEF e
<1> QED
  BY <1>1, <1>2, <1>3, <1>4, <1>6, <1>7, Zenon DEF WholePackets, u, l, d

-----------------------------------------------------------------------------
(***************************************************************************)
(* Types, and the buffers                                                  *)
(***************************************************************************)

\* A call in progress is one of the commands, and has retries left; the ME is
\* not ahead of the calls.
Called ==
  /\ pc # "idle" => This > 0 /\ retries > 0
  /\ job.id <= This

SafeInv == TypeOK /\ NoOverrun /\ WholePackets(toMe) /\ Called

LEMMA WholeEmpty == <<>> \in Seq(Slots) /\ Len(<<>>) = 0 /\ WholePackets(<<>>)
BY DEF WholePackets

LEMMA InitSafe == Init => SafeInv
<1> SUFFICES ASSUME Init PROVE SafeInv
  OBVIOUS
<1>1. FilledSlots(0, 0) = 0 /\ 0 \in 0 .. PtrMod - 1
  BY FilledZero DEF Pointer
<1>2. NoHeader \in Slots /\ NoHeader.header
  <2>1. Garbage \in Ids /\ 0 \in Nat /\ FALSE \in BOOLEAN
    BY HeciAssumption DEF Garbage, Ids
  <2>2. NoHeader \in Slots
    BY <2>1, HeaderType, Zenon DEF NoHeader
  <2> QED
    BY <2>2 DEF NoHeader, Header
<1>3. TypeOK
  <2>1. Garbage \in Ids /\ 0 \in 0 .. HECI_MAX_RETRY /\ 0 \in 0 .. MaxResets /\ 0 <= MaxCalls
    BY HeciAssumption DEF Garbage, Ids
  <2>2. <<>> \in Seq(Slots) /\ <<>> \in Seq(Commands) /\ Len(<<>>) = 0
    OBVIOUS
  <2>3. /\ NoCall \in [service : Services \cup {"none"}, recLength : Nat]
        /\ Nothing \in [ids : SUBSET Ids, bytes : Nat]
        /\ NoJob \in [id : Ids, live : BOOLEAN]
        /\ [status |-> "none", answer |-> {}] \in
             [status : Statuses \cup {"none"}, answer : SUBSET Ids]
    BY <2>1 DEF NoCall, Nothing, NoJob
  <2> QED
    BY <1>1, <1>2, <2>1, <2>2, <2>3 DEF Init, TypeOK, Pcs, Statuses
<1>4. NoOverrun
  BY <1>1, WholeEmpty, PtrModType DEF Init, NoOverrun
<1>5. WholePackets(toMe)
  BY WholeEmpty DEF Init
<1>6. Called
  BY WholeEmpty DEF Init, Called, NoJob, Garbage, This
<1> QED
  BY <1>3, <1>4, <1>5, <1>6 DEF SafeInv

\* A step that leaves the buffers and the ME alone.
LEMMA QuietSafe ==
  ASSUME SafeInv, TypeOK', UNCHANGED <<buffers, job>>,
         pc' # "idle" => This' > 0 /\ retries' > 0, This <= This'
  PROVE  SafeInv'
<1>1. NoOverrun'
  BY DEF SafeInv, NoOverrun, buffers, pointers
<1>2. WholePackets(toMe)'
  BY DEF SafeInv, buffers, WholePackets
<1>3. Called'
  <2>1. job' = job /\ job.id <= This
    BY DEF SafeInv, Called
  <2>2. job.id \in Nat
    BY HeciAssumption DEF SafeInv, TypeOK, Ids
  <2>3. This \in Nat /\ This' \in Nat
    <3>1. command \in Seq(Commands) /\ command' \in Seq(Commands)
      BY DEF SafeInv, TypeOK
    <3> QED
      BY <3>1 DEF This
  <2> QED
    BY <2>1, <2>2, <2>3 DEF Called
<1> QED
  BY <1>1, <1>2, <1>3 DEF SafeInv

LEMMA CallSafe == ASSUME SafeInv, Call PROVE SafeInv'
<1>1. PICK c \in Commands, s \in Services, n \in Nat :
        /\ command' = Append(command, c)
        /\ call' = [service |-> s, recLength |-> n]
        /\ retries' = RetryCount(s)
  BY HeciAssumption DEF Call
<1>2. /\ command' \in Seq(Commands) /\ Len(command') = Len(command) + 1
      /\ Len(command) \in Nat
  BY <1>1 DEF SafeInv, TypeOK
<1>3. /\ retries' \in 0 .. HECI_MAX_RETRY /\ retries' > 0
      /\ call' \in [service : Services \cup {"none"}, recLength : Nat]
  BY <1>1, HeciAssumption DEF RetryCount
<1>4. Len(command') <= MaxCalls /\ message' \in Ids
  BY <1>2, HeciAssumption DEF Call, Ids
<1>5. TypeOK'
  BY <1>2, <1>3, <1>4
     DEF SafeInv, TypeOK, Call, Goto, Pcs, Statuses, registers, buffers, pointers, me
<1> QED
  BY <1>2, <1>3, <1>5, QuietSafe DEF Call, Goto, buffers, pointers, me, This

\* The steps of the host at which no dword is written or read.
Calm ==
  \/ CheckForHeciReset \/ HeciInitialize \/ SetHostReady \/ WaitForMEReady
  \/ NextPacket \/ PacketWritten \/ WaitForBody \/ PacketRead \/ EndAttempt
  \/ AssertReset \/ ResetTimesOut \/ ResetAdvances \/ ResetEnds

LEMMA LastType == ASSUME SafeInv, pc # "idle"
                  PROVE  This \in 1 .. MaxCalls /\ Request \in Nat \ {0} /\ Answer \in Nat
BY HeciAssumption DEF SafeInv, TypeOK, Called, This, Request, Answer

LEMMA CheckForHeciResetType == ASSUME SafeInv, CheckForHeciReset PROVE TypeOK'
BY DEF SafeInv, TypeOK, CheckForHeciReset, Goto, WaitFrom, Pcs, registers, buffers, pointers, me, history

LEMMA HeciInitializeType == ASSUME SafeInv, HeciInitialize PROVE TypeOK'
BY DEF SafeInv, TypeOK, HeciInitialize, Goto, WaitFrom, Pcs, registers, buffers, pointers, me, history

LEMMA SetHostReadyType == ASSUME SafeInv, SetHostReady PROVE TypeOK'
BY DEF SafeInv, TypeOK, SetHostReady, Goto, WaitFrom, Pcs, buffers, pointers, me, history

LEMMA WaitForMEReadyType == ASSUME SafeInv, WaitForMEReady PROVE TypeOK'
BY DEF SafeInv, TypeOK, WaitForMEReady, AfterWait, AttemptEnds, Goto, Pcs, Statuses, registers, buffers, pointers, me, history

LEMMA PacketWrittenType == ASSUME SafeInv, PacketWritten PROVE TypeOK'
BY SMTT(30) DEF SafeInv, TypeOK, PacketWritten, AttemptEnds, Goto, Pcs, Statuses, Slots, registers, buffers, pointers, me, history

LEMMA WaitForBodyType == ASSUME SafeInv, WaitForBody PROVE TypeOK'
BY DEF SafeInv, TypeOK, WaitForBody, AttemptEnds, Goto, Pcs, Statuses, registers, buffers, pointers, me, history

LEMMA PacketReadType == ASSUME SafeInv, PacketRead PROVE TypeOK'
BY SMTT(30) DEF SafeInv, TypeOK, PacketRead, AttemptEnds, Goto, Pcs, Statuses, Slots, registers, buffers, pointers, me, history

LEMMA AssertResetType == ASSUME SafeInv, AssertReset PROVE TypeOK'
BY DEF SafeInv, TypeOK, AssertReset, Goto, Pcs, buffers, pointers, me

LEMMA ResetTimesOutType == ASSUME SafeInv, ResetTimesOut PROVE TypeOK'
<1>1. /\ pc' \in Pcs /\ current' \in Nat /\ answer' \subseteq Ids /\ status' \in Statuses
      /\ spoilt' \subseteq {"stale", "torn", "clobbered", "cut"} /\ fn' = fn
  BY DEF SafeInv, TypeOK, ResetTimesOut, AfterWait, AttemptEnds, Return, Goto, Pcs, Statuses
<1>2. result' \in [status : Statuses \cup {"none"}, answer : SUBSET Ids]
  <2>1. result \in [status : Statuses \cup {"none"}, answer : SUBSET Ids] /\ answer \subseteq Ids
    BY DEF SafeInv, TypeOK
  <2>2. result' = result \/ result' = [status |-> "timeout", answer |-> answer]
    BY DEF ResetTimesOut, Return
  <2> QED
    BY <2>1, <2>2 DEF Statuses
<1> QED
  BY <1>1, <1>2 DEF SafeInv, TypeOK, ResetTimesOut, registers, buffers, pointers, me

LEMMA ResetAdvancesType == ASSUME SafeInv, ResetAdvances PROVE TypeOK'
BY DEF SafeInv, TypeOK, ResetAdvances, Goto, Pcs, registers, buffers, pointers, me, history

LEMMA ResetEndsType == ASSUME SafeInv, ResetEnds PROVE TypeOK'
<1>1. /\ pc' \in Pcs /\ fn' \in {"send", "receive"} /\ current' \in Nat /\ answer' \subseteq Ids
      /\ status' \in Statuses /\ result' = result
  BY DEF SafeInv, TypeOK, ResetEnds, AfterWait, AttemptEnds, SendAgain, Goto, Pcs, Statuses
<1>2. spoilt' \subseteq {"stale", "torn", "clobbered", "cut"}
  BY DEF SafeInv, TypeOK, ResetEnds, SendAgain
<1> QED
  BY <1>1, <1>2 DEF SafeInv, TypeOK, ResetEnds, buffers, pointers, me

LEMMA EndAttemptType == ASSUME SafeInv, EndAttempt PROVE TypeOK' /\ (pc' # "idle" => retries' > 0)
<1>1. retries' \in 0 .. HECI_MAX_RETRY /\ (pc' # "idle" => retries' > 0)
  BY HeciAssumption DEF SafeInv, TypeOK, Called, EndAttempt, Return, SendAgain, Goto
<1>2. /\ pc' \in Pcs /\ fn' \in {"send", "receive"} /\ resetRet' \in {"wait", "retry"}
      /\ current' \in Nat /\ answer' \subseteq Ids
  BY DEF SafeInv, TypeOK, EndAttempt, Return, SendAgain, Goto, Pcs
<1>3. spoilt' \subseteq {"stale", "torn", "clobbered", "cut"}
  BY DEF SafeInv, TypeOK, EndAttempt, Leftover, SendAgain
<1>4. result' \in [status : Statuses \cup {"none"}, answer : SUBSET Ids]
  BY DEF SafeInv, TypeOK, EndAttempt, Return, SendAgain
<1> QED
  BY <1>1, <1>2, <1>3, <1>4 DEF SafeInv, TypeOK, EndAttempt, registers, buffers, pointers, me

LEMMA NextPacketType == ASSUME SafeInv, NextPacket PROVE TypeOK'
<1>1. This \in 1 .. MaxCalls /\ Request \in Nat
  BY LastType DEF NextPacket
<1>2. Rest > 0 => header' \in Slots /\ header'.header
  <2> SUFFICES ASSUME Rest > 0 PROVE header' \in Slots /\ header'.header
    OBVIOUS
  <2>1. Rest \in Nat
    <3>1. Rest = Request - current /\ current \in Nat
      BY DEF Rest, Request, SafeInv, TypeOK
    <3> QED
      BY <3>1, <1>1
  <2>2. SendLength(Rest) \in Nat
    BY <2>1, MostType DEF SendLength
  <2>3. LastPacket(Rest) \in BOOLEAN /\ header.complete \in BOOLEAN /\ message \in Ids
    BY DEF LastPacket, SafeInv, TypeOK, Slots
  <2>4. \E b \in BOOLEAN : header' = Header(message, SendLength(Rest), b)
    BY <2>3 DEF NextPacket
  <2> QED
    BY <2>2, <2>3, <2>4, HeaderType DEF Header
<1>3. spoilt' \subseteq {"stale", "torn", "clobbered", "cut"}
  BY DEF SafeInv, TypeOK, NextPacket
<1> QED
  BY <1>2, <1>3, SMTT(30) DEF SafeInv, TypeOK, NextPacket, Goto, WaitFrom, Pcs, registers, buffers, pointers, me

LEMMA CalmSafe == ASSUME SafeInv, Calm PROVE SafeInv'
<1>1. TypeOK'
  BY CheckForHeciResetType, HeciInitializeType, SetHostReadyType, WaitForMEReadyType,
     NextPacketType, PacketWrittenType, WaitForBodyType, PacketReadType, EndAttemptType,
     AssertResetType, ResetTimesOutType, ResetAdvancesType, ResetEndsType, Zenon DEF Calm
<1>2. UNCHANGED <<buffers, me, command>> /\ pc # "idle"
  BY DEF Calm, CheckForHeciReset, HeciInitialize, SetHostReady, WaitForMEReady,
     NextPacket, PacketWritten, WaitForBody, PacketRead, EndAttempt,
     AssertReset, ResetTimesOut, ResetAdvances, ResetEnds, history
<1>3. EndAttempt \/ retries' = retries
  BY DEF Calm, CheckForHeciReset, HeciInitialize, SetHostReady, WaitForMEReady,
     NextPacket, PacketWritten, WaitForBody, PacketRead,
     AssertReset, ResetTimesOut, ResetAdvances, ResetEnds
<1>4. pc' # "idle" => This' > 0 /\ retries' > 0
  BY <1>2, <1>3, EndAttemptType DEF SafeInv, Called, This
<1>5. This <= This'
  BY <1>2 DEF SafeInv, TypeOK, This
<1> QED
  BY <1>1, <1>2, <1>4, <1>5, QuietSafe DEF me

LEMMA ThisType == ASSUME SafeInv PROVE This \in Nat /\ This <= MaxCalls /\ command \in Seq(Commands)
<1>1. command \in Seq(Commands) /\ Len(command) <= MaxCalls
  BY DEF SafeInv, TypeOK
<1> QED
  BY <1>1 DEF This

\* The pieces of the type of the buffers.
LEMMA BufferTypes ==
  ASSUME SafeInv
  PROVE  /\ toMe \in Seq(Slots) /\ toHost \in Seq(Slots) /\ out \in Seq(Slots)
         /\ hWp \in Pointer /\ hRp \in Pointer /\ meWp \in Pointer /\ meRp \in Pointer
         /\ FilledSlots(hRp, hWp) = Len(toMe) /\ FilledSlots(meRp, meWp) = Len(toHost)
         /\ Len(toMe) <= Depth /\ Len(toHost) <= Depth
         /\ header \in Slots /\ header.header
BY DEF SafeInv, TypeOK, NoOverrun, Pointer

LEMMA HeciPacketWriteSafe == ASSUME SafeInv, HeciPacketWrite PROVE SafeInv'
<1> DEFINE n == Len(Packet(header))
<1>1. Packet(header) \in Seq(Slots) /\ n = Dwords(header.length) + 1 /\ n \in Nat
  <2>1. header.length \in Nat
    BY BufferTypes DEF Slots
  <2>2. Packet(header) \in Seq(Slots) /\ n = Dwords(header.length) + 1
    BY BufferTypes, PacketProps
  <2> QED
    BY <2>1, <2>2, DwordsType
<1>2. CASE HasRoom(header) /\ toMe' = toMe \o Packet(header) /\ hWp' = (hWp + n) % PtrMod
           /\ pc' = "written" /\ status' = status
  <2> DEFINE l == FilledSlots(hRp, hWp)
  <2>1. l = Len(toMe) /\ Len(toMe) \in Nat /\ n <= Depth - l
    BY <1>1, <1>2, BufferTypes DEF HasRoom
  <2> HIDE DEF n, l
  <2>2. l + n <= Depth
    BY <1>1, <2>1, PtrModType
  <2>3. /\ (hWp + n) % PtrMod \in Pointer
        /\ FilledSlots(hRp, (hWp + n) % PtrMod) = l + n
    BY <1>1, <2>2, BufferTypes, FilledWrite, Zenon DEF l
  <2>4. toMe' \in Seq(Slots) /\ Len(toMe') = l + n
    BY <1>1, <1>2, <2>1, BufferTypes, ConcatProperties DEF n
  <2>5. WholePackets(toMe')
    BY <1>2, BufferTypes, WholeAppended, Zenon DEF SafeInv
  <2>6. TypeOK'
    BY <1>2, <2>3, <2>4, SMTT(30) DEF SafeInv, TypeOK, HeciPacketWrite, Pcs, Pointer, registers, me, history
  <2>7. NoOverrun'
    BY <1>2, <2>2, <2>3, <2>4 DEF SafeInv, NoOverrun, HeciPacketWrite
  <2>8. Called'
    BY DEF SafeInv, Called, HeciPacketWrite, me, history, This
  <2> QED
    BY <2>5, <2>6, <2>7, <2>8, Zenon DEF SafeInv, WholePackets
<1>3. CASE AttemptEnds("timeout") /\ UNCHANGED <<toMe, hWp>>
  <2>1. TypeOK'
    BY <1>3 DEF SafeInv, TypeOK, HeciPacketWrite, AttemptEnds, Pcs, Statuses, registers, me, history
  <2>2. UNCHANGED <<buffers, job>> /\ retries' = retries /\ This' = This /\ pc # "idle"
    BY <1>3 DEF HeciPacketWrite, buffers, pointers, me, history, This
  <2>3. This <= This'
    BY <2>2, ThisType
  <2> QED
    BY <2>1, <2>2, <2>3, QuietSafe DEF SafeInv, Called
<1> QED
  BY <1>2, <1>3, Zenon DEF HeciPacketWrite, Goto

\* A step that reads or writes in the host's direction only.
LEMMA ToHostSafe ==
  ASSUME SafeInv, TypeOK', UNCHANGED <<toMe, hWp, hRp, command, retries>>,
         pc # "idle" \/ pc' = pc,
         FilledSlots(meRp', meWp') = Len(toHost'), Len(toHost') <= Depth,
         job' = job \/ job'.id = 0
  PROVE  SafeInv'
<1>1. NoOverrun' /\ WholePackets(toMe)'
  BY DEF SafeInv, NoOverrun, WholePackets
<1>2. This' = This /\ This \in Nat
  BY SMTT(30) DEF SafeInv, TypeOK, This
<1>3. Called'
  BY <1>2 DEF SafeInv, Called
<1> QED
  BY <1>1, <1>3 DEF SafeInv

LEMMA ReadHeaderSafe == ASSUME SafeInv, ReadHeader PROVE SafeInv'
<1>1. CASE /\ FilledSlots(meRp, meWp) > 0
           /\ \E h \in AsHeader(Head(toHost)) :
                 /\ header' = h
                 /\ CASE h.length = 0 ->
                           /\ AttemptEnds(IF current = 0 /\ h.complete THEN "success" ELSE "noResponse")
                           /\ answer' = answer \cup {h.id}
                      [] h.length + 4 > Depth * 4 ->
                           AttemptEnds("deviceError") /\ UNCHANGED answer
                      [] OTHER -> Goto("body") /\ UNCHANGED <<status, answer>>
           /\ toHost' = Tail(toHost)
           /\ meRp' = (meRp + 1) % PtrMod
  <2>1. toHost # <<>> /\ Len(toHost) \in Nat \ {0}
    BY <1>1, BufferTypes
  <2>2. /\ Head(toHost) \in Slots /\ toHost' \in Seq(Slots) /\ Len(toHost') = Len(toHost) - 1
    BY <1>1, <2>1, BufferTypes, HeadTailProperties
  <2>3. /\ (meRp + 1) % PtrMod \in Pointer
        /\ FilledSlots((meRp + 1) % PtrMod, meWp) = Len(toHost) - 1
    <3>1. 1 \in Nat /\ 1 <= FilledSlots(meRp, meWp)
      BY <2>1, BufferTypes
    <3>2. /\ (meRp + 1) % PtrMod \in Pointer
          /\ FilledSlots((meRp + 1) % PtrMod, meWp) = FilledSlots(meRp, meWp) - 1
      BY <3>1, BufferTypes, FilledRead
    <3> QED
      BY <3>2, BufferTypes, Zenon
  <2>4. header' \in Slots /\ header'.header /\ header'.id \in Ids
    <3>1. \A h \in AsHeader(Head(toHost)) : h \in Slots /\ h.header
      <4>1. CASE Head(toHost).header
        BY <4>1, <2>2 DEF AsHeader
      <4>2. CASE ~Head(toHost).header
        <5>1. Garbage \in Ids /\ 0 \in Nat /\ 4 \in Nat /\ 4 * Depth \in Nat
          BY HeciAssumption DEF Garbage, Ids
        <5>2. \A n \in {0, 4, 4 * Depth}, b \in BOOLEAN :
                 Header(Garbage, n, b) \in Slots /\ Header(Garbage, n, b).header
          BY <5>1, HeaderType DEF Header
        <5>3. ASSUME NEW x \in AsHeader(Head(toHost))
              PROVE  \E n \in {0, 4, 4 * Depth}, b \in BOOLEAN : x = Header(Garbage, n, b)
          BY <4>2, SMT DEF AsHeader
        <5> QED
          BY <5>2, <5>3, Zenon
      <4> QED
        BY <4>1, <4>2
    <3> QED
      BY <3>1, <1>1 DEF Slots
  <2>5. status' \in Statuses /\ pc' \in Pcs /\ answer' \subseteq Ids
    BY <1>1, <2>4 DEF SafeInv, TypeOK, AttemptEnds, Goto, Statuses, Pcs
  <2>6. /\ meRp' = (meRp + 1) % PtrMod /\ pc = "read"
        /\ UNCHANGED <<registers, toMe, hWp, hRp, meWp, me, history, fn, waitRet, resetRet,
                       call, retries, current, message>>
    BY <1>1 DEF ReadHeader
  <2>7. TypeOK'
    BY <2>2, <2>3, <2>4, <2>5, <2>6, SMTT(30) DEF SafeInv, TypeOK, Pointer, registers, me, history
  <2>8. Len(toHost') <= Depth
    BY <2>1, <2>2, BufferTypes, PtrModType
  <2> QED
    BY <2>2, <2>3, <2>6, <2>7, <2>8, ToHostSafe DEF me, history
<1>2. CASE AttemptEnds("timeout") /\ UNCHANGED <<toHost, meRp, header, answer>>
  <2>1. TypeOK'
    BY <1>2 DEF SafeInv, TypeOK, ReadHeader, AttemptEnds, Pcs, Statuses, registers, me, history
  <2>2. UNCHANGED <<buffers, job>> /\ retries' = retries /\ This' = This /\ pc # "idle"
    BY <1>2 DEF ReadHeader, buffers, pointers, me, history, This
  <2>3. This <= This'
    BY <2>2, ThisType
  <2> QED
    BY <2>1, <2>2, <2>3, QuietSafe DEF SafeInv, Called
<1> QED
  BY <1>1, <1>2, Zenon DEF ReadHeader

LEMMA CopyBodySafe == ASSUME SafeInv, CopyBody PROVE SafeInv'
<1> DEFINE d == Dwords(header.length)
           n == Least(d, Len(toHost))
<1>1. d \in Nat /\ Len(toHost) \in Nat
  <2>1. header.length \in Nat
    BY BufferTypes DEF Slots
  <2>2. d \in Nat
    BY <2>1, DwordsType
  <2>3. toHost \in Seq(Slots)
    BY BufferTypes
  <2> QED
    BY <2>2, <2>3
<1>2. n \in 0 .. Len(toHost)
  BY <1>1 DEF Least
<1>3. /\ answer' = answer \cup {toHost[i].id : i \in 1 .. n}
                          \cup (IF n < d THEN {Garbage} ELSE {})
      /\ toHost' = SubSeq(toHost, n + 1, Len(toHost))
      /\ meRp' = (meRp + n) % PtrMod
  BY DEF CopyBody
<1> HIDE DEF d, n
<1>4. toHost' \in Seq(Slots) /\ Len(toHost') = Len(toHost) - n
  BY <1>2, <1>3, Dropped, BufferTypes
<1>5. meRp' \in Pointer /\ FilledSlots(meRp', meWp) = Len(toHost) - n
  <2>1. n \in Nat /\ n <= FilledSlots(meRp, meWp)
    BY <1>1, <1>2, BufferTypes
  <2>2. /\ (meRp + n) % PtrMod \in Pointer
        /\ FilledSlots((meRp + n) % PtrMod, meWp) = FilledSlots(meRp, meWp) - n
    BY <2>1, BufferTypes, FilledRead
  <2> QED
    BY <2>2, <1>3, BufferTypes, Zenon
<1>6. Garbage \in Ids
  BY HeciAssumption DEF Garbage, Ids
<1>7. answer' \subseteq Ids
  <2>1. ASSUME NEW i \in 1 .. n PROVE toHost[i].id \in Ids
    <3>1. i \in 1 .. Len(toHost)
      BY <1>1, <1>2
    <3>2. toHost[i] \in Slots
      BY <3>1, BufferTypes, ElementOfSeq
    <3> QED
      BY <3>2 DEF Slots
  <2>2. answer \subseteq Ids
    BY DEF SafeInv, TypeOK
  <2> QED
    BY <2>1, <2>2, <1>3, <1>6
<1>8. TypeOK'
  BY <1>4, <1>5, <1>6, <1>7, SMTT(30) DEF SafeInv, TypeOK, CopyBody, Goto, Pcs, Pointer, registers, me, history
<1>9. Len(toHost') <= Depth
  BY <1>1, <1>2, <1>4, BufferTypes, PtrModType
<1> QED
  BY <1>4, <1>5, <1>8, <1>9, ToHostSafe DEF CopyBody, me, history

LEMMA ClearedSafe ==
  ASSUME SafeInv, TypeOK', Clear, UNCHANGED <<pc, command, retries>>, job' = job \/ job'.id = 0
  PROVE  SafeInv'
<1>1. NoOverrun'
  BY FilledZero, PtrModType DEF NoOverrun, Clear
<1>2. WholePackets(toMe)'
  BY DEF WholePackets, Clear
<1>3. This' = This /\ This \in Nat
  BY ThisType DEF This
<1>4. Called'
  BY <1>3 DEF SafeInv, Called
<1> QED
  BY <1>1, <1>2, <1>4 DEF SafeInv

LEMMA FlushType ==
  ASSUME SafeInv, Flush
  PROVE  /\ toMe' \in Seq(Slots) /\ toHost' \in Seq(Slots) /\ out' \in Seq(Slots)
         /\ hWp' \in 0 .. PtrMod - 1 /\ hRp' \in 0 .. PtrMod - 1
         /\ meWp' \in 0 .. PtrMod - 1 /\ meRp' \in 0 .. PtrMod - 1
         /\ partial' \in [ids : SUBSET Ids, bytes : Nat] /\ job' \in [id : Ids, live : BOOLEAN]
         /\ meRdy' \in BOOLEAN /\ hRdy' \in BOOLEAN
         /\ spoilt' \subseteq {"stale", "torn", "clobbered", "cut"}
<1>1. 0 \in 0 .. PtrMod - 1 /\ Garbage \in Ids
  BY FilledZero, HeciAssumption DEF Pointer, Garbage, Ids
<1>2. <<>> \in Seq(Slots)
  OBVIOUS
<1>3. spoilt' \subseteq {"stale", "torn", "clobbered", "cut"}
  BY DEF SafeInv, TypeOK, Flush
<1> QED
  BY <1>1, <1>2, <1>3 DEF Flush, Clear, Nothing, NoJob

LEMMA MeResetsSafe == ASSUME SafeInv, MeResets PROVE SafeInv'
<1>1. resets' \in 0 .. MaxResets /\ meRst' \in BOOLEAN
  BY HeciAssumption DEF MeResets, SafeInv, TypeOK
<1>2. TypeOK'
  BY <1>1, FlushType, SMTT(30) DEF SafeInv, TypeOK, MeResets, host
<1> QED
  BY <1>2, ClearedSafe DEF MeResets, Flush, NoJob, Garbage, host

LEMMA MeSeesResetSafe == ASSUME SafeInv, MeSeesReset PROVE SafeInv'
<1>1. TypeOK'
  BY FlushType DEF SafeInv, TypeOK, MeSeesReset, host
<1> QED
  BY <1>1, ClearedSafe DEF MeSeesReset, Flush, NoJob, Garbage, host

LEMMA MeReadySafe == ASSUME SafeInv, MeReady PROVE SafeInv'
<1>1. 0 \in 0 .. PtrMod - 1
  BY FilledZero DEF Pointer
<1>2. TypeOK'
  BY <1>1 DEF SafeInv, TypeOK, MeReady, Clear, me, host, history
<1> QED
  BY <1>2, ClearedSafe DEF MeReady, me, host, history

LEMMA MeTakesSafe == ASSUME SafeInv, MeTakes PROVE SafeInv'
<1> DEFINE h == Head(toMe)
           d == Dwords(h.length)
           got == [ids |-> partial.ids \cup {toMe[i].id : i \in 1 .. d + 1},
                   bytes |-> partial.bytes + h.length]
<1>1. /\ toMe # <<>> /\ toMe' = SubSeq(toMe, d + 2, Len(toMe)) /\ hRp' = (hRp + d + 1) % PtrMod
      /\ IF h.complete
         THEN /\ job' = [id |-> IF \E i \in 1 .. This :
                                     got.ids = {i} /\ got.bytes = ReqLength[command[i]]
                                THEN CHOOSE i \in got.ids : TRUE ELSE Garbage,
                         live |-> TRUE]
              /\ partial' = Nothing
         ELSE partial' = got /\ UNCHANGED job
  BY DEF MeTakes
<1>2. h = toMe[1] /\ h \in Slots /\ d \in Nat /\ d + 1 <= Len(toMe) /\ WholePackets(toMe')
  BY <1>1, BufferTypes, WholeTaken, Zenon DEF SafeInv
<1> HIDE DEF d
<1>3. Len(toMe) \in Nat /\ d + 1 \in 0 .. Len(toMe) /\ (d + 1) + 1 = d + 2 /\ hRp + d + 1 = hRp + (d + 1)
  <2>1. toMe \in Seq(Slots) /\ hRp \in Nat
    BY BufferTypes, PtrModType DEF Pointer
  <2>2. d \in Nat /\ d + 1 <= Len(toMe)
    BY <1>2
  <2> QED
    BY <2>1, <2>2
<1>4. toMe' \in Seq(Slots) /\ Len(toMe') = Len(toMe) - (d + 1)
  BY <1>1, <1>3, Dropped, BufferTypes, Zenon
<1>5. hRp' \in Pointer /\ FilledSlots(hRp', hWp) = Len(toMe) - (d + 1)
  <2>1. d + 1 \in Nat /\ d + 1 <= FilledSlots(hRp, hWp)
    BY <1>3, BufferTypes
  <2>2. /\ (hRp + (d + 1)) % PtrMod \in Pointer
        /\ FilledSlots((hRp + (d + 1)) % PtrMod, hWp) = FilledSlots(hRp, hWp) - (d + 1)
    BY <2>1, BufferTypes, FilledRead
  <2> QED
    BY <2>2, <1>1, <1>3, BufferTypes, Zenon
<1>6. got \in [ids : SUBSET Ids, bytes : Nat]
  <2>1. ASSUME NEW i \in 1 .. d + 1 PROVE toMe[i].id \in Ids
    <3>1. i \in 1 .. Len(toMe)
      BY <1>3
    <3>2. toMe[i] \in Slots
      BY <3>1, BufferTypes, ElementOfSeq
    <3> QED
      BY <3>2 DEF Slots
  <2>2. partial \in [ids : SUBSET Ids, bytes : Nat] /\ h.length \in Nat
    BY <1>2 DEF SafeInv, TypeOK, Slots
  <2> QED
    BY <2>1, <2>2
<1>7. This \in 0 .. MaxCalls /\ job.id <= This /\ MaxCalls \in Nat
  BY ThisType, HeciAssumption DEF SafeInv, Called
<1>8. partial' \in [ids : SUBSET Ids, bytes : Nat]
  BY <1>1, <1>6 DEF Nothing
<1>9. job' \in [id : Ids, live : BOOLEAN] /\ job'.id <= This
  <2> HIDE DEF got
  <2>1. CASE ~h.complete
    BY <1>1, <1>7, <2>1 DEF SafeInv, TypeOK
  <2>2. CASE h.complete /\ \E i \in 1 .. This : got.ids = {i} /\ got.bytes = ReqLength[command[i]]
    <3>1. PICK i \in 1 .. This : got.ids = {i}
      BY <2>2
    <3>2. (CHOOSE j \in got.ids : TRUE) = i
      BY <3>1
    <3>3. job' = [id |-> i, live |-> TRUE]
      BY <1>1, <2>2, <3>2, Zenon
    <3> QED
      BY <3>3, <1>7 DEF Ids
  <2>3. CASE h.complete /\ ~(\E i \in 1 .. This : got.ids = {i} /\ got.bytes = ReqLength[command[i]])
    <3>1. job' = [id |-> Garbage, live |-> TRUE]
      BY <1>1, <2>3, Zenon
    <3> QED
      BY <3>1, <1>7 DEF Ids, Garbage
  <2> QED
    BY <2>1, <2>2, <2>3, Zenon
<1>10. UNCHANGED <<registers, toHost, hWp, meWp, meRp, out, host, history>>
  BY DEF MeTakes
<1> HIDE DEF got
<1>11. TypeOK'
  BY <1>4, <1>5, <1>8, <1>9, <1>10, SMTT(30) DEF SafeInv, TypeOK, Pointer, registers, host, history
<1>12. NoOverrun'
  <2>1. Len(toMe') <= Depth
    BY <1>2, <1>3, <1>4, BufferTypes, PtrModType
  <2> QED
    BY <1>4, <1>5, <1>10, <2>1 DEF SafeInv, NoOverrun
<1>13. Called'
  BY <1>7, <1>9, <1>10 DEF SafeInv, Called, This, host, history
<1> QED
  BY <1>2, <1>11, <1>12, <1>13, Zenon DEF SafeInv, WholePackets

LEMMA AnswerToType ==
  ASSUME SafeInv, NEW id \in 0 .. This
  PROVE  AnswerTo(id) \in Seq(Slots)
<1>1. This \in 0 .. MaxCalls /\ MaxCalls \in Nat
  BY ThisType, HeciAssumption
<1>2. id \in Ids
  BY <1>1 DEF Ids
<1>3. (IF id = Garbage THEN 4 ELSE AckLength[command[id]]) \in Nat
  BY <1>1, HeciAssumption DEF Garbage, SafeInv, TypeOK, This
<1> QED
  BY <1>2, <1>3, StreamProps, Zenon DEF AnswerTo

LEMMA MePerformsSafe == ASSUME SafeInv, MePerforms PROVE SafeInv'
<1>1. job.id \in 0 .. This
  BY ThisType, HeciAssumption DEF SafeInv, TypeOK, Called, Ids
<1>2. out' \in Seq(Slots)
  BY <1>1, AnswerToType DEF MePerforms
<1>3. performed' \in Nat
  BY DEF MePerforms, SafeInv, TypeOK
<1>4. NoJob \in [id : Ids, live : BOOLEAN] /\ NoJob.id = 0
  BY HeciAssumption DEF NoJob, Garbage, Ids
<1>5. TypeOK'
  BY <1>2, <1>3, <1>4 DEF SafeInv, TypeOK, MePerforms, registers, buffers, pointers, host
<1> QED
  BY <1>4, <1>5, ToHostSafe, BufferTypes DEF MePerforms, buffers, pointers, host

LEMMA MeIgnoresSafe == ASSUME SafeInv, MeIgnores PROVE SafeInv'
<1>1. NoJob \in [id : Ids, live : BOOLEAN] /\ NoJob.id = 0
  BY HeciAssumption DEF NoJob, Garbage, Ids
<1>2. TypeOK'
  BY <1>1 DEF SafeInv, TypeOK, MeIgnores, registers, buffers, pointers, host, history
<1> QED
  BY <1>1, <1>2, ToHostSafe, BufferTypes DEF MeIgnores, buffers, pointers, host, history

LEMMA MeWritesSafe == ASSUME SafeInv, MeWrites PROVE SafeInv'
<1>1. out # <<>> /\ Len(toHost) < Depth /\ Len(toHost) \in Nat
  BY BufferTypes DEF MeWrites
<1>2. /\ Head(out) \in Slots /\ Tail(out) \in Seq(Slots)
      /\ Append(toHost, Head(out)) \in Seq(Slots)
      /\ Len(Append(toHost, Head(out))) = Len(toHost) + 1
  BY <1>1, BufferTypes, HeadTailProperties, AppendProperties
<1>3. /\ (meWp + 1) % PtrMod \in Pointer
      /\ FilledSlots(meRp, (meWp + 1) % PtrMod) = Len(toHost) + 1
  <2>1. 1 \in Nat /\ FilledSlots(meRp, meWp) + 1 <= Depth
    BY <1>1, BufferTypes, PtrModType
  <2>2. /\ (meWp + 1) % PtrMod \in Pointer
        /\ FilledSlots(meRp, (meWp + 1) % PtrMod) = FilledSlots(meRp, meWp) + 1
    BY <2>1, BufferTypes, FilledWrite
  <2> QED
    BY <2>2, BufferTypes, Zenon
<1>4. TypeOK'
  BY <1>2, <1>3, SMTT(30) DEF SafeInv, TypeOK, MeWrites, Pointer, registers, host, history
<1>5. Len(toHost') <= Depth
  BY <1>1, <1>2, PtrModType DEF MeWrites
<1> QED
  BY <1>2, <1>3, <1>4, <1>5, ToHostSafe DEF MeWrites, host, history

LEMMA NextSafe == SafeInv /\ [Next]_vars => SafeInv'
<1> SUFFICES ASSUME SafeInv, [Next]_vars PROVE SafeInv'
  OBVIOUS
<1>1. CASE HostStep
  BY <1>1, CalmSafe, HeciPacketWriteSafe, ReadHeaderSafe, CopyBodySafe, Zenon DEF HostStep, Calm
<1>2. CASE MeStep
  BY <1>2, MeResetsSafe, MeSeesResetSafe, MeReadySafe, MeTakesSafe, MePerformsSafe,
     MeIgnoresSafe, MeWritesSafe, Zenon DEF MeStep
<1>3. CASE UNCHANGED vars
  BY <1>3 DEF SafeInv, TypeOK, NoOverrun, WholePackets, Called, This, vars,
     registers, buffers, pointers, host, me, history
<1> QED
  BY <1>1, <1>2, <1>3, CallSafe, Zenon DEF Next

\* The part of the invariant that needs no assumption on the lengths: the types,
\* the packets never longer than the buffers and the host's buffers within them,
\* whoever resets whom (HeciInitialize, ResetHeciInterface) and when.
THEOREM AlwaysSafe == Spec => []SafeInv
BY InitSafe, NextSafe, PTL DEF Spec

\* The types, for all commands, lengths and depths: whatever order the host's
\* steps, the ME's and its resets come in, no pointer leaves 0 .. PtrMod - 1 and
\* HeciSendwAck counts no retry below zero (HeciCore.c:1199-1270).
THEOREM TypeCorrect == Spec => []TypeOK
BY AlwaysSafe, PTL DEF SafeInv

\* Neither side overruns the other's buffer, and what a side computes from the
\* two 8-bit pointers (FilledSlots in HeciPacketWrite and HeciPacketRead) is what
\* the buffer holds, also after they have wrapped and across a reset.
THEOREM NeverOverrun == Spec => []NoOverrun
BY AlwaysSafe, PTL DEF SafeInv

-----------------------------------------------------------------------------
(***************************************************************************)
(* The registers, and where the host is                                    *)
(***************************************************************************)

\* In WaitForMEReady, also while that resets the interface; in the reset between
\* two attempts; nothing of this call of HeciSend or HeciReceive done yet; and
\* with a packet that is being written.
ResetPcs == {"assertReset", "resetStarted", "meReady", "isSignalled", "enableHost"}
Waiting  == pc = "waitMe" \/ (pc \in ResetPcs /\ resetRet = "wait")
Retrying == pc \in ResetPcs /\ resetRet = "retry"
Starting == pc \in {"begin", "initialize", "setRdy"} \/ (Waiting /\ waitRet # "write")
Writing  == pc \in {"room", "written"} \/ (Waiting /\ waitRet = "write")
Answered == {"success", "tooSmall"}

MeIdle == ~job.live /\ out = <<>> /\ toHost = <<>>

\* An interface that is down is empty, and one that the host has not marked ready
\* is being initialised or reset.
RegistersInv ==
  /\ resetSeen => hRst
  /\ meRst => ~meRdy
  /\ ~hRdy \/ ~meRdy => MeIdle /\ partial = Nothing
  /\ ~hRdy /\ ~hRst =>
       \/ meRst
       \/ pc \in {"idle", "begin", "initialize", "setRdy"}
       \/ pc = "waitMe" /\ waitRet = "init"
       \/ pc = "attempt" /\ status = "deviceError"

\* The host's variables at the places where they count.
HostInv ==
  /\ This = 0 => pc = "idle" /\ toMe = <<>> /\ ~job.live
  /\ pc # "idle" => call.service \in {"retry", "plain"}
  /\ fn = "send" => answer = {}
  /\ Starting => current = 0 /\ answer = {}
  /\ pc \in {"read", "body", "copy", "copied"} => fn = "receive"
  /\ pc \in {"read", "body", "copy"} => (current = 0 <=> answer = {})
  /\ pc \in {"body", "copy", "copied"} => header.length > 0
  /\ pc = "copied" => answer # {}
  /\ pc = "attempt" /\ status \in Answered => fn = "receive" /\ answer # {}
  /\ fn = "send" /\ pc # "idle" /\ "clobbered" \notin spoilt => message = This

LEMMA HostTypes ==
  ASSUME SafeInv
  PROVE  /\ current \in Nat /\ header \in Slots /\ header.header
         /\ header.length \in Nat /\ header.complete \in BOOLEAN
         /\ fn \in {"send", "receive"} /\ pc \in Pcs
         /\ waitRet \in {"init", "call", "write"} /\ resetRet \in {"wait", "retry"}
         /\ status \in Statuses /\ answer \subseteq Ids
         /\ performed \in Nat
         /\ hRdy \in BOOLEAN /\ meRdy \in BOOLEAN /\ hRst \in BOOLEAN /\ meRst \in BOOLEAN
<1>1. header \in Slots
  BY DEF SafeInv, TypeOK
<1>2. header.length \in Nat /\ header.complete \in BOOLEAN
  BY <1>1 DEF Slots
<1> QED
  BY <1>1, <1>2 DEF SafeInv, TypeOK

LEMMA InitRegisters == Init => RegistersInv
BY DEF Init, RegistersInv, MeIdle, NoJob

LEMMA NextRegisters == ASSUME SafeInv, HostInv, RegistersInv, [Next]_vars PROVE RegistersInv'
<1> USE DEF RegistersInv, MeIdle
<1>1. CASE Call
  BY <1>1 DEF Call, Goto, registers, buffers, me
<1>2. CASE CheckForHeciReset
  BY <1>2 DEF CheckForHeciReset, Goto, WaitFrom, registers, buffers, me
<1>3. CASE HeciInitialize
  BY <1>3 DEF HeciInitialize, Goto, WaitFrom, registers, buffers, me
<1>4. CASE SetHostReady
  BY <1>4 DEF SetHostReady, Goto, WaitFrom, buffers, me
<1>5. CASE WaitForMEReady
  BY <1>5 DEF WaitForMEReady, AfterWait, AttemptEnds, Goto, registers, buffers, me
<1>6. CASE NextPacket
  BY <1>6 DEF NextPacket, Goto, WaitFrom, registers, buffers, me
<1>7. CASE HeciPacketWrite
  BY <1>7 DEF HeciPacketWrite, AttemptEnds, Goto, registers, me
<1>8. CASE PacketWritten
  BY <1>8 DEF PacketWritten, AttemptEnds, Goto, registers, buffers, me
<1>9. CASE ReadHeader
  <2>1. (hRdy /\ meRdy) \/ toHost = <<>>
    BY <1>9
  <2>2. UNCHANGED <<registers, me>> /\ pc = "read"
    BY <1>9 DEF ReadHeader
  <2>3. toHost = <<>> => toHost' = toHost
    BY <1>9, BufferTypes DEF ReadHeader
  <2> QED
    BY <2>1, <2>2, <2>3 DEF registers, me
<1>10. CASE WaitForBody
  BY <1>10 DEF WaitForBody, AttemptEnds, Goto, registers, buffers, me
<1>11. CASE CopyBody
  <2>1. toHost = <<>> => toHost' = <<>>
    <3> SUFFICES ASSUME toHost = <<>> PROVE toHost' = <<>>
      OBVIOUS
    <3>1. Len(toHost) = 0 /\ Dwords(header.length) \in Nat
      BY DwordsType, HostTypes
    <3>2. Least(Dwords(header.length), Len(toHost)) = 0
      BY <3>1 DEF Least
    <3>3. toHost' = SubSeq(toHost, 1, 0)
      BY <1>11, <3>1, <3>2 DEF CopyBody
    <3> QED
      BY <3>3
  <2>2. UNCHANGED <<registers, me>> /\ pc = "copy"
    BY <1>11 DEF CopyBody
  <2> QED
    BY <2>1, <2>2 DEF registers, me
<1>12. CASE PacketRead
  BY <1>12 DEF PacketRead, AttemptEnds, Goto, registers, buffers, me
<1>13. CASE EndAttempt
  <2>1. call.service \in {"retry", "plain"}
    BY <1>13 DEF EndAttempt, HostInv
  <2> QED
    BY <1>13, <2>1
       DEF EndAttempt, Return, SendAgain, Final, ResetsBetween, Goto, registers, buffers, me
<1>14. CASE AssertReset
  BY <1>14 DEF AssertReset, Goto, buffers, me
<1>15. CASE ResetTimesOut
  BY <1>15 DEF ResetTimesOut, AfterWait, AttemptEnds, Return, Goto, registers, buffers, me
<1>16. CASE ResetAdvances
  BY <1>16 DEF ResetAdvances, Goto, registers, buffers, me
<1>17. CASE ResetEnds
  BY <1>17 DEF ResetEnds, AfterWait, AttemptEnds, SendAgain, Goto, buffers, me
<1>18. CASE MeResets
  BY <1>18 DEF MeResets, Flush, Clear, NoJob, host
<1>19. CASE MeSeesReset
  BY <1>19 DEF MeSeesReset, Flush, Clear, NoJob, host
<1>20. CASE MeReady
  BY <1>20 DEF MeReady, Clear, me, host
<1>21. CASE MeTakes
  BY <1>21 DEF MeTakes, registers, host
<1>22. CASE MePerforms
  BY <1>22 DEF MePerforms, registers, host
<1>23. CASE MeIgnores
  BY <1>23 DEF MeIgnores, NoJob, registers, buffers, host
<1>24. CASE MeWrites
  BY <1>24 DEF MeWrites, registers, host
<1>25. CASE UNCHANGED vars
  BY <1>25 DEF vars, registers, buffers, me, host
<1> QED
  BY <1>1, <1>2, <1>3, <1>4, <1>5, <1>6, <1>7, <1>8, <1>9, <1>10, <1>11, <1>12, <1>13, <1>14,
     <1>15, <1>16, <1>17, <1>18, <1>19, <1>20, <1>21, <1>22, <1>23, <1>24, <1>25, Zenon
  DEF Next, HostStep, MeStep

\* The outcomes of reading a header.
LEMMA ReadHeaderCases ==
  ASSUME SafeInv, ReadHeader
  PROVE  \/ /\ pc' = "attempt" /\ status' = "timeout"
            /\ UNCHANGED <<toHost, header, answer>>
         \/ /\ toHost # <<>> /\ toHost' = Tail(toHost)
            /\ header' \in AsHeader(Head(toHost))
            /\ \/ /\ header'.length = 0 /\ pc' = "attempt" /\ answer' = answer \cup {header'.id}
                  /\ status' = IF current = 0 /\ header'.complete THEN "success" ELSE "noResponse"
               \/ /\ header'.length + 4 > Depth * 4 /\ pc' = "attempt"
                  /\ status' = "deviceError" /\ answer' = answer
               \/ /\ header'.length > 0 /\ ~(header'.length + 4 > Depth * 4)
                  /\ pc' = "body" /\ UNCHANGED <<status, answer>>
<1>1. SafeInv'
  BY ReadHeaderSafe
<1>2. header' \in Slots
  BY <1>1 DEF SafeInv, TypeOK
<1>3. header'.length \in Nat
  BY <1>2 DEF Slots
<1>4. FilledSlots(meRp, meWp) > 0 => toHost # <<>>
  BY BufferTypes
<1> QED
  BY <1>3, <1>4 DEF ReadHeader, AttemptEnds, Goto

LEMMA InitHost == Init => HostInv
<1> SUFFICES ASSUME Init PROVE HostInv
  OBVIOUS
<1>1. This = 0
  BY DEF Init, This
<1> QED
  BY <1>1 DEF Init, HostInv, NoJob, Starting, Waiting, ResetPcs

LEMMA NextHost == ASSUME SafeInv, HostInv, [Next]_vars PROVE HostInv'
<1>0. /\ current \in Nat /\ header.length \in Nat /\ This \in Nat /\ (pc # "idle" => This > 0)
      /\ pc \in Pcs /\ fn \in {"send", "receive"} /\ waitRet \in {"init", "call", "write"}
      /\ resetRet \in {"wait", "retry"} /\ status \in Statuses
  BY HostTypes, ThisType DEF SafeInv, Called
<1> USE <1>0 DEF HostInv, Starting, Waiting, ResetPcs, Answered
<1>1. CASE Call
  <2>1. This' > 0 /\ message' = This'
    BY <1>1, ThisType, AppendProperties DEF Call, This
  <2>2. call'.service \in {"retry", "plain"}
    BY <1>1, HeciAssumption DEF Call
  <2> QED
    BY <1>1, <2>1, <2>2 DEF Call, Goto
<1>2. CASE CheckForHeciReset
  BY <1>2 DEF CheckForHeciReset, Goto, WaitFrom, buffers, me, history, This
<1>3. CASE HeciInitialize
  BY <1>3 DEF HeciInitialize, Goto, WaitFrom, buffers, me, history, This
<1>4. CASE SetHostReady
  BY <1>4 DEF SetHostReady, Goto, WaitFrom, buffers, me, history, This
<1>5. CASE WaitForMEReady
  BY <1>5 DEF WaitForMEReady, AfterWait, AttemptEnds, Goto, buffers, me, history, This
<1>6. CASE NextPacket
  BY <1>6 DEF NextPacket, Goto, WaitFrom, buffers, me, history, This
<1>7. CASE HeciPacketWrite
  BY <1>7 DEF HeciPacketWrite, AttemptEnds, Goto, me, history, This
<1>8. CASE PacketWritten
  BY <1>8 DEF PacketWritten, AttemptEnds, Goto, buffers, me, history, This
<1>9. CASE ReadHeader
  <2>1. /\ pc = "read"
        /\ UNCHANGED <<command, toMe, job, call, fn, current, resetRet, waitRet, message, spoilt>>
        /\ \/ pc' = "attempt" /\ status' = "timeout" /\ answer' = answer
           \/ pc' = "attempt" /\ answer' = answer \cup {header'.id}
           \/ pc' = "attempt" /\ status' = "deviceError" /\ answer' = answer
           \/ pc' = "body" /\ header'.length > 0 /\ answer' = answer
    <3>1. /\ pc = "read"
          /\ UNCHANGED <<command, toMe, job, call, fn, current, resetRet, waitRet, message, spoilt>>
      BY <1>9 DEF ReadHeader, me, history
    <3> QED
      BY <1>9, <3>1, ReadHeaderCases
  <2>2. This' = This /\ This > 0 /\ fn = "receive"
    BY <2>1 DEF This
  <2>3. answer \cup {header'.id} # {}
    OBVIOUS
  <2>4. CASE pc' = "attempt" /\ status' = "timeout" /\ answer' = answer
    BY <2>1, <2>2, <2>4
  <2>5. CASE pc' = "attempt" /\ answer' = answer \cup {header'.id}
    BY <2>1, <2>2, <2>3, <2>5
  <2>6. CASE pc' = "attempt" /\ status' = "deviceError" /\ answer' = answer
    BY <2>1, <2>2, <2>6
  <2>7. CASE pc' = "body" /\ header'.length > 0 /\ answer' = answer
    BY <2>1, <2>2, <2>7
  <2> QED
    BY <2>1, <2>4, <2>5, <2>6, <2>7, Zenon
<1>10. CASE WaitForBody
  <2>1. /\ pc = "body"
        /\ pc' = "copy" \/ (pc' = "attempt" /\ status' = "timeout")
        /\ UNCHANGED <<command, toMe, job, call, fn, answer, current, resetRet, waitRet, header,
                       message, spoilt>>
    BY <1>10 DEF WaitForBody, AttemptEnds, Goto, buffers, me, history
  <2>2. This' = This /\ This > 0
    BY <2>1 DEF This
  <2>3. CASE pc' = "copy"
    BY <2>1, <2>2, <2>3
  <2>4. CASE pc' = "attempt" /\ status' = "timeout"
    BY <2>1, <2>2, <2>4
  <2> QED
    BY <2>1, <2>3, <2>4
<1>11. CASE CopyBody
  <2>1. answer' # {}
    <3> DEFINE d == Dwords(header.length)
               n == Least(d, Len(toHost))
    <3>1. d \in Nat \ {0} /\ Len(toHost) \in Nat
      <4>1. d \in Nat /\ d > 0
        BY <1>11, DwordsType DEF CopyBody
      <4>2. toHost \in Seq(Slots)
        BY BufferTypes
      <4> QED
        BY <4>1, <4>2
    <3>2. answer' = answer \cup {toHost[i].id : i \in 1 .. n}
                           \cup (IF n < d THEN {Garbage} ELSE {})
      BY <1>11 DEF CopyBody
    <3> HIDE DEF d
    <3>3. n < d \/ 1 \in 1 .. n
      BY <3>1 DEF Least
    <3> HIDE DEF n
    <3>4. CASE n < d
      BY <3>2, <3>4
    <3>5. CASE 1 \in 1 .. n
      <4>1. toHost[1].id \in {toHost[i].id : i \in 1 .. n}
        BY <3>5
      <4> QED
        BY <3>2, <4>1
    <3> QED
      BY <3>3, <3>4, <3>5
  <2>2. /\ pc = "copy" /\ pc' = "copied"
        /\ UNCHANGED <<command, toMe, job, call, fn, current, resetRet, waitRet, header, spoilt>>
    BY <1>11 DEF CopyBody, Goto, me, history
  <2> QED
    BY <2>1, <2>2 DEF This
<1>12. CASE PacketRead
  BY <1>12 DEF PacketRead, AttemptEnds, Goto, buffers, me, history, This
<1>13. CASE EndAttempt
  BY <1>13 DEF EndAttempt, Return, SendAgain, Final, ResetsBetween, Goto, buffers, me, This
<1>14. CASE AssertReset
  BY <1>14 DEF AssertReset, Goto, buffers, me, This
<1>15. CASE ResetTimesOut
  BY <1>15 DEF ResetTimesOut, AfterWait, AttemptEnds, Return, Goto, buffers, me, This
<1>16. CASE ResetAdvances
  BY <1>16 DEF ResetAdvances, Goto, buffers, me, history, This
<1>17. CASE ResetEnds
  BY <1>17 DEF ResetEnds, AfterWait, AttemptEnds, SendAgain, Goto, buffers, me, This
<1>18. CASE MeResets
  BY <1>18 DEF MeResets, Flush, Clear, NoJob, host, This
<1>19. CASE MeSeesReset
  BY <1>19 DEF MeSeesReset, Flush, Clear, NoJob, host, This
<1>20. CASE MeReady
  BY <1>20 DEF MeReady, Clear, me, host, history, This
<1>21. CASE MeTakes
  BY <1>21 DEF MeTakes, host, history, This
<1>22. CASE MePerforms
  BY <1>22 DEF MePerforms, NoJob, buffers, host, This
<1>23. CASE MeIgnores
  BY <1>23 DEF MeIgnores, NoJob, buffers, host, history, This
<1>24. CASE MeWrites
  BY <1>24 DEF MeWrites, host, history, This
<1>25. CASE UNCHANGED vars
  BY <1>25 DEF vars, buffers, me, host, history, This
<1> QED
  BY <1>1, <1>2, <1>3, <1>4, <1>5, <1>6, <1>7, <1>8, <1>9, <1>10, <1>11, <1>12, <1>13, <1>14,
     <1>15, <1>16, <1>17, <1>18, <1>19, <1>20, <1>21, <1>22, <1>23, <1>24, <1>25, Zenon
  DEF Next, HostStep, MeStep

-----------------------------------------------------------------------------
(***************************************************************************)
(* HeciSend cuts a request into packets that fill the buffer, and a last   *)
(***************************************************************************)

Cut(n) == n <= Request /\ (n < Request => \E k \in Nat : n = k * Most)

\* MessageComplete is in the last packet and in no other, but for a request that is
\* one byte longer than a number of full packets (HeciCore.c:1106): that is in two
\* messages from then on, the second of which is left over.
SendInv ==
  /\ pc = "packet" \/ Writing => fn = "send" /\ Cut(current)
  /\ Writing => /\ header.length > 0 /\ header.id = message
                /\ "cut" \notin spoilt => (header.complete <=> header.length = Rest)
                /\ ~header.complete => header.length = Most
                /\ Cut(current + header.length)
                /\ Rest > 0
  /\ pc = "packet" /\ current > 0 /\ "cut" \notin spoilt => (header.complete <=> Rest = 0)

CutInv == Cutting => "stale" \in spoilt

LEMMA InitSend == Init => SendInv /\ CutInv
BY DEF Init, SendInv, CutInv, Cutting, Writing, Waiting, ResetPcs

\* Nothing but the next call makes a request that is cut a whole one.
LEMMA CutStays == ASSUME [Next]_vars, ~Call PROVE "cut" \in spoilt => "cut" \in spoilt'
<1>1. CASE EndAttempt
  BY <1>1 DEF EndAttempt, SendAgain, Leftover
<1>2. CASE AssertReset \/ ResetTimesOut \/ ResetEnds
  BY <1>2 DEF AssertReset, ResetTimesOut, ResetEnds, SendAgain
<1>3. CASE MeResets \/ MeSeesReset
  BY <1>3 DEF MeResets, MeSeesReset, Flush
<1>4. CASE NextPacket
  BY <1>4 DEF NextPacket
<1>5. CASE UNCHANGED spoilt
  BY <1>5
<1>6. \/ EndAttempt \/ AssertReset \/ ResetTimesOut \/ ResetEnds
      \/ MeResets \/ MeSeesReset \/ NextPacket \/ UNCHANGED spoilt
  BY DEF Next, HostStep, MeStep, CheckForHeciReset, HeciInitialize, SetHostReady, WaitForMEReady,
     HeciPacketWrite, PacketWritten, ReadHeader, WaitForBody, CopyBody, PacketRead, ResetAdvances,
     MeReady, MeTakes, MePerforms, MeIgnores, MeWrites, history, vars
<1> QED
  BY <1>1, <1>2, <1>3, <1>4, <1>5, <1>6

LEMMA NextCut == ASSUME CutInv, [Next]_vars PROVE CutInv'
<1> USE DEF CutInv, Cutting
<1>1. CASE Call
  BY <1>1 DEF Call
<1>2. CASE EndAttempt
  BY <1>2 DEF EndAttempt, Return, SendAgain, Leftover, Goto
<1>3. CASE AssertReset
  BY <1>3 DEF AssertReset, Goto
<1>4. CASE ResetTimesOut
  BY <1>4 DEF ResetTimesOut, AfterWait, AttemptEnds, Return, Goto
<1>5. CASE ResetEnds
  BY <1>5 DEF ResetEnds, AfterWait, AttemptEnds, SendAgain, Goto
<1>6. CASE MeResets \/ MeSeesReset
  BY <1>6 DEF MeResets, MeSeesReset, Flush, host
<1>7. CASE NextPacket
  BY <1>7 DEF NextPacket, WaitFrom, Goto
<1>8. CASE UNCHANGED spoilt /\ (pc = "idle" => pc' = "idle")
  BY <1>8
<1>9. \/ Call \/ EndAttempt \/ AssertReset \/ ResetTimesOut \/ ResetEnds
      \/ MeResets \/ MeSeesReset \/ NextPacket
      \/ UNCHANGED spoilt /\ (pc = "idle" => pc' = "idle")
  BY DEF Next, HostStep, MeStep, CheckForHeciReset, HeciInitialize, SetHostReady, WaitForMEReady,
     HeciPacketWrite, PacketWritten, ReadHeader, WaitForBody, CopyBody, PacketRead, ResetAdvances,
     MeReady, MeTakes, MePerforms, MeIgnores, MeWrites, history, host, vars
<1> QED
  BY <1>1, <1>2, <1>3, <1>4, <1>5, <1>6, <1>7, <1>8, <1>9

\* A step that neither begins nor ends a packet.
LEMMA SendKept ==
  ASSUME SafeInv, SendInv, UNCHANGED <<current, header, message, command>>, pc # "idle",
         "cut" \in spoilt => "cut" \in spoilt',
         Writing' => Writing /\ fn' = fn,
         pc' = "packet" => (pc = "packet" /\ fn' = fn) \/ (fn' = "send" /\ current = 0)
  PROVE  SendInv'
<1>1. Rest' = Rest /\ Request' = Request /\ (\A n : Cut(n)' = Cut(n))
  BY DEF Rest, Request, Cut, This
<1>2. Request \in Nat /\ current \in Nat /\ Cut(0) /\ ~(0 > 0)
  <2>1. Request \in Nat /\ current \in Nat
    BY LastType, HostTypes
  <2>2. 0 = 0 * Most
    BY MostType
  <2> QED
    BY <2>1, <2>2 DEF Cut
<1>3. CASE Writing'
  <2>1. Writing /\ fn' = fn /\ pc' # "packet"
    BY <1>3 DEF Writing, Waiting, ResetPcs
  <2> QED
    BY <1>1, <1>3, <2>1, Zenon DEF SendInv
<1>4. CASE ~Writing' /\ pc' = "packet" /\ pc = "packet" /\ fn' = fn
  BY <1>1, <1>4, Zenon DEF SendInv
<1>5. CASE ~Writing' /\ pc' = "packet" /\ fn' = "send" /\ current = 0
  BY <1>1, <1>2, <1>5, Zenon DEF SendInv
<1>6. CASE ~Writing' /\ pc' # "packet"
  BY <1>6 DEF SendInv
<1> QED
  BY <1>3, <1>4, <1>5, <1>6, Zenon

\* The header of the next packet.
LEMMA PacketHeader ==
  ASSUME SafeInv, SendInv, pc = "packet", Rest > 0,
         NEW b \in BOOLEAN, b = ((current > 0 /\ header.complete) \/ LastPacket(Rest)),
         NEW n, n = SendLength(Rest)
  PROVE  /\ n \in Nat /\ n > 0 /\ (~b => n = Most)
         /\ "cut" \notin spoilt /\ ~OneByteOver => (b <=> n = Rest)
         /\ Cut(current + n)
<1> DEFINE r == Rest
<1>1. This \in 1 .. MaxCalls /\ Request \in Nat \ {0} /\ current \in Nat /\ Most \in Nat \ {0}
  BY LastType, HostTypes, MostType
<1>2. r = Request - current /\ r > 0 /\ Cut(current) /\ (OneByteOver <=> r = Most + 1)
  BY DEF Rest, Request, SendInv, OneByteOver
<1>3. PICK k \in Nat : current = k * Most
  BY <1>1, <1>2 DEF Cut
<1>4. /\ LastPacket(r) => b
      /\ "cut" \notin spoilt => (b <=> LastPacket(r))
  <2>1. "cut" \notin spoilt => ~(current > 0 /\ header.complete)
    BY <1>2 DEF SendInv
  <2> QED
    BY <2>1, Zenon
<1> HIDE DEF r
<1>5. r \in Nat \ {0} /\ current + r = Request
  BY <1>1, <1>2
<1>5a. n = SendLength(r)
  BY DEF r
<1>6. r <= Most => n = r /\ LastPacket(r)
  BY <1>5, <1>5a, PtrModType DEF LastPacket, SendLength, Dwords, Most
<1>7. r > Most => n = Most
  <2>1. r > Most => Depth <= Dwords(r)
    BY <1>5, PtrModType DEF Dwords, Most
  <2> QED
    BY <2>1, <1>5a DEF SendLength
<1>8. r > Most + 1 => ~LastPacket(r)
  BY <1>5, PtrModType DEF LastPacket, Dwords, Most
<1>9. n \in Nat /\ n > 0 /\ (~LastPacket(r) => n = Most)
  BY <1>1, <1>5, <1>6, <1>7
<1>10. r # Most + 1 => (LastPacket(r) <=> n = r)
  BY <1>1, <1>5, <1>6, <1>7, <1>8
<1>11. Cut(current + n)
  <2>1. CASE r <= Most
    <3>1. current + n = Request
      BY <1>5, <1>6, <2>1
    <3> QED
      BY <3>1, <1>1 DEF Cut
  <2>2. CASE r > Most
    <3>1. n = Most
      BY <1>7, <2>2
    <3>2. current + n = (k + 1) * Most
      BY <1>1, <1>3, <3>1
    <3>3. current + n <= Request
      BY <1>1, <1>5, <2>2, <3>1
    <3>4. k + 1 \in Nat
      OBVIOUS
    <3> QED
      BY <3>2, <3>3, <3>4, Zenon DEF Cut
  <2> QED
    BY <1>1, <1>5, <2>1, <2>2
<1>12. n \in Nat /\ n > 0 /\ (~b => n = Most)
  BY <1>4, <1>9
<1>13. "cut" \notin spoilt /\ ~OneByteOver => (b <=> n = r)
  BY <1>2, <1>4, <1>10
<1> QED
  BY <1>11, <1>12, <1>13 DEF r

LEMMA NextPacketSend == ASSUME SafeInv, SendInv, NextPacket PROVE SendInv'
<1>0. pc = "packet" /\ UNCHANGED <<command, message>> /\ fn = "send"
  BY DEF NextPacket, SendInv
<1>1. CASE Rest > 0
  <2> DEFINE b == (current > 0 /\ header.complete) \/ LastPacket(Rest)
             n == SendLength(Rest)
  <2>1. /\ header' = Header(message, n, b) /\ pc' = "waitMe" /\ waitRet' = "write"
        /\ UNCHANGED <<fn, current>>
    BY <1>1 DEF NextPacket, WaitFrom
  <2>2. b \in BOOLEAN
    BY HostTypes DEF LastPacket
  <2>3. /\ n > 0 /\ (~b => n = Most) /\ Cut(current + n)
        /\ "cut" \notin spoilt /\ ~OneByteOver => (b <=> n = Rest)
    BY <1>0, <1>1, <2>2, PacketHeader, Zenon
  <2> HIDE DEF b, n
  <2>4. header'.length = n /\ header'.complete = b /\ header'.id = message
    BY <2>1 DEF Header
  <2>5. Rest' = Rest /\ (\A m : Cut(m)' = Cut(m))
    BY <1>0, <2>1 DEF Rest, Request, Cut, This
  <2>6. Cut(current)
    BY <1>0 DEF SendInv
  <2>7. pc' # "packet"
    BY <2>1
  <2>8. "cut" \notin spoilt' => "cut" \notin spoilt /\ ~OneByteOver
    BY <1>1 DEF NextPacket
  <2>9. "cut" \notin spoilt' => (header'.complete <=> header'.length = Rest')
    BY <2>3, <2>4, <2>5, <2>8
  <2> QED
    BY <1>0, <1>1, <2>1, <2>3, <2>4, <2>5, <2>6, <2>7, <2>9, Zenon DEF SendInv
<1>2. CASE ~(Rest > 0)
  BY <1>2 DEF NextPacket, Goto, SendInv, Writing, Waiting, ResetPcs
<1> QED
  BY <1>1, <1>2

LEMMA PacketWrittenSend == ASSUME SafeInv, SendInv, PacketWritten PROVE SendInv'
<1>1. CASE meRdy
  <2>1. /\ pc = "written" /\ pc' = "packet" /\ current' = current + header.length
        /\ UNCHANGED <<fn, header, message, command>>
    BY <1>1 DEF PacketWritten, Goto, history
  <2>2. Writing /\ ~Writing'
    BY <2>1 DEF Writing, Waiting, ResetPcs
  <2>3. /\ fn = "send" /\ Cut(current + header.length) /\ spoilt' = spoilt
        /\ "cut" \notin spoilt => (header.complete <=> header.length = Rest)
    BY <2>2, Zenon DEF SendInv, PacketWritten, history
  <2>4. Cut(current)' <=> Cut(current + header.length)
    BY <2>1 DEF Cut, Request, This
  <2>5. header.length = Rest <=> Rest' = 0
    <3>1. current \in Nat /\ header.length \in Nat /\ Request \in Nat
      BY <2>1, LastType, HostTypes
    <3>2. Rest = Request - current /\ Rest' = Request - (current + header.length)
      BY <2>1 DEF Rest, Request, This
    <3> QED
      BY <3>1, <3>2
  <2> QED
    BY <2>1, <2>2, <2>3, <2>4, <2>5, Zenon DEF SendInv
<1>2. CASE ~meRdy
  BY <1>2 DEF PacketWritten, AttemptEnds, SendInv, Writing, Waiting, ResetPcs
<1> QED
  BY <1>1, <1>2

LEMMA NextSend ==
  ASSUME SafeInv, HostInv, SendInv, [Next]_vars
  PROVE  SendInv'
<1> DEFINE Away == pc' # "packet" /\ ~Writing'
           Kept == /\ UNCHANGED <<current, header, message, command>> /\ pc # "idle"
                   /\ Writing' => Writing /\ fn' = fn
                   /\ pc' = "packet" =>
                        (pc = "packet" /\ fn' = fn) \/ (fn' = "send" /\ current = 0)
<1>1. Away => SendInv'
  BY DEF SendInv
<1>2. Kept => SendInv'
  <2>1. pc # "idle" => ~Call
    BY DEF Call
  <2> QED
    BY <2>1, CutStays, SendKept, Zenon
<1>3. Starting => current = 0
  BY DEF HostInv
<1>4. fn \in {"send", "receive"} /\ waitRet \in {"init", "call", "write"} /\ resetRet \in {"wait", "retry"}
  BY HostTypes
<1> USE DEF Writing, Waiting, ResetPcs
<1>5. CASE Call
  BY <1>1, <1>5 DEF Call, Goto
<1>6. CASE CheckForHeciReset
  BY <1>1, <1>6 DEF CheckForHeciReset, Goto, WaitFrom
<1>7. CASE HeciInitialize
  BY <1>1, <1>7 DEF HeciInitialize, Goto, WaitFrom
<1>8. CASE SetHostReady
  BY <1>1, <1>8 DEF SetHostReady, Goto, WaitFrom
<1>9. CASE WaitForMEReady
  BY <1>2, <1>3, <1>4, <1>9
     DEF WaitForMEReady, AfterWait, AttemptEnds, Goto, history, Starting
<1>10. CASE HeciPacketWrite
  BY <1>2, <1>10 DEF HeciPacketWrite, AttemptEnds, Goto, history
<1>11. CASE ReadHeader
  BY <1>1, <1>11, ReadHeaderCases
<1>12. CASE WaitForBody
  BY <1>1, <1>12 DEF WaitForBody, AttemptEnds, Goto
<1>13. CASE CopyBody
  BY <1>1, <1>13 DEF CopyBody, Goto
<1>14. CASE PacketRead
  BY <1>1, <1>14 DEF PacketRead, AttemptEnds, Goto
<1>15. CASE EndAttempt
  BY <1>1, <1>15 DEF EndAttempt, Return, SendAgain, Goto
<1>16. CASE AssertReset
  BY <1>2, <1>16 DEF AssertReset, Goto
<1>17. CASE ResetTimesOut
  BY <1>1, <1>17 DEF ResetTimesOut, AfterWait, AttemptEnds, Return, Goto
<1>18. CASE ResetAdvances
  BY <1>2, <1>18 DEF ResetAdvances, Goto, history
<1>19. CASE ResetEnds
  BY <1>1, <1>2, <1>3, <1>4, <1>19
     DEF ResetEnds, AfterWait, AttemptEnds, SendAgain, Goto, Starting
<1>20. CASE MeStep \/ UNCHANGED vars
  <2>1. UNCHANGED <<host, command>>
    BY <1>20 DEF MeStep, MeResets, MeSeesReset, MeReady, MeTakes, MePerforms, MeIgnores,
       MeWrites, history, vars
  <2>2. Rest' = Rest /\ Request' = Request /\ (\A n : Cut(n)' = Cut(n))
    BY <2>1 DEF Rest, Request, Cut, This, host
  <2>3. Writing' <=> Writing
    BY <2>1 DEF host
  <2>4. "cut" \in spoilt => "cut" \in spoilt'
    <3>1. ~Call
      BY <2>1 DEF Call, host, Goto
    <3> QED
      BY <3>1, CutStays
  <2> QED
    BY <2>1, <2>2, <2>3, <2>4, Zenon DEF SendInv, host
<1> QED
  BY <1>5, <1>6, <1>7, <1>8, <1>9, <1>10, <1>11, <1>12, <1>13, <1>14, <1>15, <1>16, <1>17,
     <1>18, <1>19, <1>20, NextPacketSend, PacketWrittenSend, Zenon DEF Next, HostStep

-----------------------------------------------------------------------------
(***************************************************************************)
(* What is on its way between the host and the ME                          *)
(***************************************************************************)

\* A message is a packet and what is behind it.
LEMMA StreamCut ==
  ASSUME NEW id \in Ids, NEW n \in Nat
  PROVE  \E h \in Slots, c \in Seq(Slots) :
           /\ h.header /\ h.id = id
           /\ Stream(id, n) = <<h>> \o (Bodies(h) \o c)
           /\ \/ h.complete /\ n <= Most /\ h.length = n /\ c = <<>>
              \/ /\ ~h.complete /\ h.length = Most
                 /\ n - Most \in Nat \ {0} /\ c = Stream(id, n - Most)
<1>0. PICK h : h = Header(id, Least(n, Most), n <= Most)
  OBVIOUS
<1>1. Least(n, Most) \in Nat /\ (n <= Most) \in BOOLEAN /\ Most \in Nat
  BY MostType DEF Least
<1>2. h \in Slots /\ h.header /\ h.id = id /\ h.length = Least(n, Most) /\ h.complete = (n <= Most)
  BY <1>0, <1>1, HeaderType DEF Header
<1>3. ASSUME n <= Most PROVE h.length = n /\ Stream(id, n) = <<h>> \o Bodies(h)
  <2>1. Least(n, Most) = n /\ (n <= Most) = TRUE
    BY <1>1, <1>3 DEF Least
  <2>2. h = Header(id, n, TRUE)
    BY <1>0, <2>1, Zenon
  <2>3. Stream(id, n) = Packet(h)
    BY <1>3, <2>2, StreamShort, Zenon
  <2>4. Packet(h) = <<h>> \o Bodies(h)
    BY <1>2, PacketProps, Zenon
  <2> QED
    BY <1>2, <2>1, <2>3, <2>4, Zenon
<1>4. ASSUME n > Most
      PROVE  /\ h.length = Most /\ n - Most \in Nat \ {0}
             /\ Stream(id, n - Most) \in Seq(Slots)
             /\ Stream(id, n) = <<h>> \o (Bodies(h) \o Stream(id, n - Most))
  <2>1. Least(n, Most) = Most /\ (n <= Most) = FALSE /\ n - Most \in Nat \ {0} /\ n - Most \in Nat
    BY <1>1, <1>4 DEF Least
  <2>2. h = Header(id, Most, FALSE)
    BY <1>0, <2>1, Zenon
  <2>3. Stream(id, n) = Packet(h) \o Stream(id, n - Most)
    BY <1>4, <2>2, StreamLong, Zenon
  <2>4. Packet(h) = <<h>> \o Bodies(h)
    BY <1>2, PacketProps, Zenon
  <2>5. <<h>> \in Seq(Slots) /\ Bodies(h) \in Seq(Slots) /\ Stream(id, n - Most) \in Seq(Slots)
    BY <1>2, <2>1, BodiesProps, StreamProps
  <2>6. (<<h>> \o Bodies(h)) \o Stream(id, n - Most) = <<h>> \o (Bodies(h) \o Stream(id, n - Most))
    BY <2>5, ConcatAssociative
  <2> QED
    BY <1>2, <2>1, <2>3, <2>4, <2>5, <2>6, Zenon
<1>5. h.complete <=> n <= Most
  BY <1>0 DEF Header
<1>6. CASE n <= Most
  <2>1. Bodies(h) \o <<>> = Bodies(h) /\ <<>> \in Seq(Slots)
    <3>1. h \in Slots
      BY <1>2
    <3>2. Bodies(h) \in Seq(Slots)
      BY <3>1, BodiesProps
    <3> QED
      BY <3>2, ConcatEmptySeq
  <2> QED
    BY <1>2, <1>3, <1>5, <1>6, <2>1, Zenon
<1>7. CASE n > Most
  <2>1. ~(n <= Most)
    BY <1>1, <1>7
  <2> QED
    BY <1>2, <1>4, <1>5, <1>7, <2>1, Zenon
<1>8. n <= Most \/ n > Most
  BY <1>1
<1> QED
  BY <1>6, <1>7, <1>8, Zenon

\* Reading b from the front of a buffer s, when t is still to come.
LEMMA DropPrefix ==
  ASSUME NEW s \in Seq(Slots), NEW t \in Seq(Slots), NEW b \in Seq(Slots), NEW c \in Seq(Slots),
         s \o t = b \o c, Len(b) <= Len(s)
  PROVE  /\ SubSeq(s, Len(b) + 1, Len(s)) \o t = c
         /\ \A i \in 1 .. Len(b) : s[i] = b[i]
<1> DEFINE m == Len(b)
           u == SubSeq(s, m + 1, Len(s))
<1>1. Len(s) \in Nat /\ Len(t) \in Nat /\ m \in Nat /\ Len(c) \in Nat /\ m \in 0 .. Len(s)
  OBVIOUS
<1>2. u \in Seq(Slots) /\ Len(u) = Len(s) - m /\ \A i \in 1 .. Len(s) - m : u[i] = s[i + m]
  BY <1>1, Dropped
<1>3. /\ Len(s \o t) = Len(s) + Len(t)
      /\ \A i \in 1 .. Len(s) + Len(t) : (s \o t)[i] = IF i <= Len(s) THEN s[i] ELSE t[i - Len(s)]
  BY ConcatProperties
<1>4. /\ Len(b \o c) = m + Len(c)
      /\ \A i \in 1 .. m + Len(c) : (b \o c)[i] = IF i <= m THEN b[i] ELSE c[i - m]
  BY ConcatProperties
<1> HIDE DEF u, m
<1>5. /\ u \o t \in Seq(Slots) /\ Len(u \o t) = Len(s) - m + Len(t)
      /\ \A i \in 1 .. Len(s) - m + Len(t) :
           (u \o t)[i] = IF i <= Len(s) - m THEN u[i] ELSE t[i - (Len(s) - m)]
  BY <1>2, ConcatProperties
<1>6. Len(u \o t) = Len(c)
  BY <1>1, <1>3, <1>4, <1>5
<1>7. ASSUME NEW i \in 1 .. Len(u \o t) PROVE (u \o t)[i] = c[i]
  <2>1. /\ i + m \in 1 .. Len(s) + Len(t) /\ i + m \in 1 .. m + Len(c) /\ ~(i + m <= m)
        /\ (i + m) - m = i /\ i \in 1 .. Len(s) - m + Len(t)
    BY <1>1, <1>5, <1>6
  <2>2. (b \o c)[i + m] = c[i]
    BY <1>4, <2>1, Zenon
  <2>3. CASE i <= Len(s) - m
    <3>1. i \in 1 .. Len(s) - m /\ i + m <= Len(s)
      BY <1>1, <2>1, <2>3
    <3>2. (u \o t)[i] = s[i + m]
      BY <1>2, <1>5, <2>1, <2>3, <3>1, Zenon
    <3>3. (s \o t)[i + m] = s[i + m]
      BY <1>3, <2>1, <3>1, Zenon
    <3> QED
      BY <2>2, <3>2, <3>3, Zenon
  <2>4. CASE ~(i <= Len(s) - m)
    <3>1. ~(i + m <= Len(s)) /\ (i + m) - Len(s) = i - (Len(s) - m)
      BY <1>1, <2>1, <2>4
    <3>2. (u \o t)[i] = t[i - (Len(s) - m)]
      BY <1>5, <2>1, <2>4, Zenon
    <3>3. (s \o t)[i + m] = t[(i + m) - Len(s)]
      BY <1>3, <2>1, <3>1, Zenon
    <3> QED
      BY <2>2, <3>1, <3>2, <3>3, Zenon
  <2> QED
    BY <2>3, <2>4, Zenon
<1>8. u \o t = c
  BY <1>5, <1>6, <1>7, SeqEqual, Zenon
<1>9. ASSUME NEW i \in 1 .. m PROVE s[i] = b[i]
  <2>1. i \in 1 .. Len(s) + Len(t) /\ i \in 1 .. m + Len(c) /\ i <= Len(s) /\ i <= m
    BY <1>1
  <2>2. (s \o t)[i] = s[i] /\ (b \o c)[i] = b[i]
    BY <1>3, <1>4, <2>1, Zenon
  <2> QED
    BY <2>2, Zenon
<1> QED
  BY <1>8, <1>9, Zenon DEF u, m

\* What the host will read.
Coming == toHost \o out
Empty == toMe = <<>> /\ partial = Nothing /\ MeIdle

LEMMA ComingProps ==
  ASSUME SafeInv
  PROVE  /\ Coming \in Seq(Slots) /\ toHost \in Seq(Slots) /\ out \in Seq(Slots)
         /\ Coming = <<>> <=> toHost = <<>> /\ out = <<>>
         /\ MeIdle <=> ~job.live /\ Coming = <<>>
<1>1. toHost \in Seq(Slots) /\ out \in Seq(Slots)
  BY BufferTypes
<1>2. Coming \in Seq(Slots) /\ (Coming = <<>> <=> toHost = <<>> /\ out = <<>>)
  BY <1>1, ConcatProperties, ConcatEqualIffEmpty DEF Coming
<1> QED
  BY <1>1, <1>2 DEF MeIdle

\* The host takes the header of the next packet: h is in front of s, with c
\* behind it in s and in what has still to come, t.
Leads(s, t, h, c) ==
  /\ s \in Seq(Slots) /\ t \in Seq(Slots) /\ h \in Slots /\ c \in Seq(Slots)
  /\ s # <<>> /\ s \o t = <<h>> \o c

LEMMA HeaderTaken ==
  ASSUME NEW s, NEW t, NEW h, NEW c, Leads(s, t, h, c)
  PROVE  Head(s) = h /\ Tail(s) \o t = c
<1> DEFINE g == <<h>>
<1>1. g \in Seq(Slots) /\ Len(g) = 1 /\ 1 <= Len(s) /\ g[1] = h /\ s \o t = g \o c
  BY DEF Leads
<1>2. Len(g) <= Len(s) /\ s \in Seq(Slots) /\ t \in Seq(Slots) /\ c \in Seq(Slots)
  BY <1>1 DEF Leads
<1> HIDE DEF g
<1>3. /\ SubSeq(s, Len(g) + 1, Len(s)) \o t = c
      /\ \A i \in 1 .. Len(g) : s[i] = g[i]
  BY <1>1, <1>2, DropPrefix
<1>4. Len(g) + 1 = 2 /\ 1 \in 1 .. Len(g)
  BY <1>1
<1>5. Tail(s) = SubSeq(s, 2, Len(s))
  BY <1>2, TailIsSubSeq
<1>6. s[1] = h
  BY <1>1, <1>3, <1>4, Zenon
<1>7. Head(s) = s[1]
  BY <1>2 DEF Leads
<1> QED
  BY <1>3, <1>4, <1>5, <1>6, <1>7, Zenon

LEMMA SameHead ==
  ASSUME NEW g \in Slots, NEW s \in Seq(Slots), NEW h \in Slots, NEW c \in Seq(Slots),
         <<g>> \o s = <<h>> \o c
  PROVE  g = h /\ s = c
<1> DEFINE t == <<g>>
<1>1. t \in Seq(Slots) /\ t # <<>> /\ Head(t) = g /\ Tail(t) = <<>>
  OBVIOUS
<1> HIDE DEF t
<1>2. Head(t) = h /\ Tail(t) \o s = c
  <2>1. t \o s = <<h>> \o c
    BY DEF t
  <2>2. Leads(t, s, h, c)
    BY <1>1, <2>1 DEF Leads
  <2> QED
    BY <2>2, HeaderTaken
<1>3. <<>> \o s = s
  BY ConcatEmptySeq
<1> QED
  BY <1>1, <1>2, <1>3

\* The ME moves a dword from what it has to write to the buffer.
LEMMA Moved ==
  ASSUME NEW s \in Seq(Slots), NEW t \in Seq(Slots), t # <<>>
  PROVE  Append(s, Head(t)) \o Tail(t) = s \o t
<1>1. Head(t) \in Slots /\ Tail(t) \in Seq(Slots) /\ <<Head(t)>> \in Seq(Slots)
  BY HeadTailProperties
<1>2. Append(s, Head(t)) = s \o <<Head(t)>>
  BY <1>1, AppendIsConcat
<1>3. <<Head(t)>> \o Tail(t) = t
  <2>1. Len(t) \in Nat /\ Len(t) >= 1 /\ Len(<<Head(t)>> \o Tail(t)) = Len(t)
    BY <1>1
  <2>2. \A i \in 1 .. Len(t) : (<<Head(t)>> \o Tail(t))[i] = t[i]
    BY <1>1
  <2>3. <<Head(t)>> \o Tail(t) \in Seq(Slots)
    BY <1>1
  <2> QED
    BY <2>1, <2>2, <2>3, SeqEqual
<1>4. (s \o <<Head(t)>>) \o Tail(t) = s \o (<<Head(t)>> \o Tail(t))
  BY <1>1, ConcatAssociative
<1> QED
  BY <1>2, <1>3, <1>4

\* How much of a request has been written, and the phases of an attempt: nothing
\* yet, some packets, all of them, and nothing of the answer read yet.
Sent == IF pc = "written" THEN current + header.length ELSE current
BeginsSend == fn = "send" /\ (Starting \/ ((pc = "packet" \/ Writing) /\ Sent = 0))
SomeSent == fn = "send" /\ (pc = "packet" \/ Writing) /\ Sent # Request
AllSent == fn = "send" /\ (pc = "packet" \/ pc = "written") /\ Sent = Request
Awaits == fn = "receive" /\ (Starting \/ (pc = "read" /\ current = 0))

\* One packet at most is on its way to the ME, nothing goes both ways, and while
\* nothing spoils it all of it belongs to the command in progress.
First == Head(toMe)
TransitInv ==
  /\ toMe # <<>> => First.header /\ First.length > 0 /\ toMe = Packet(First)
  /\ toMe # <<>> /\ ~First.complete => First.length = Most
  /\ toMe # <<>> /\ (~meRdy \/ (~hRdy /\ ~hRst)) =>
       pc = "written" \/ (pc = "attempt" /\ status = "deviceError")
  /\ toMe # <<>> \/ partial # Nothing => MeIdle
  /\ job.live => Coming = <<>>
  /\ spoilt = {} =>
       /\ toMe # <<>> => /\ First.id = This
                         /\ First.complete => partial.bytes + First.length = Request
       /\ partial.ids \subseteq {This}
       /\ job.live => job.id = This
       /\ Coming # <<>> => performed > 0

\* Before the last packet is written the ME has what has been sent so far.
Before ==
  /\ BeginsSend => Empty
  /\ SomeSent => /\ MeIdle /\ (toMe # <<>> => ~First.complete)
                 /\ spoilt = {} =>
                      partial.bytes + (IF toMe = <<>> THEN 0 ELSE First.length) = Sent

\* After it the ME has or takes the request, or a whole answer is on its way.
After ==
  AllSent \/ Awaits =>
    /\ toMe # <<>> => First.complete
    /\ toMe = <<>> => partial = Nothing
    /\ \/ Coming = <<>>
       \/ \E n \in Nat, id \in Ids :
            Coming = Stream(id, n) /\ (spoilt = {} => id = This /\ n = Answer)

\* Between two packets of the answer, and in the middle of one, what is on its
\* way is the rest of it, unless a reset has taken it away.
MeSilent == toMe = <<>> /\ partial = Nothing /\ ~job.live
Reading ==
  /\ pc = "read" /\ current > 0 =>
       /\ MeSilent
       /\ \/ Coming = <<>>
          \/ \E n \in Nat \ {0}, id \in Ids :
               Coming = Stream(id, n) /\ (spoilt = {} => id = This /\ current + n = Answer)
  /\ pc \in {"body", "copy"} =>
       /\ MeSilent
       /\ \/ Coming = <<>> /\ (pc = "copy" => ~meRdy)
          \/ \E n \in Nat \ {0}, id \in Ids :
               /\ <<header>> \o Coming = Stream(id, n)
               /\ spoilt = {} => id = This /\ current + n = Answer
               /\ pc = "copy" => Dwords(header.length) <= Len(toHost)
  /\ pc = "copied" =>
       /\ MeSilent
       /\ \/ ~meRdy
          \/ /\ header.complete /\ Coming = <<>>
             /\ spoilt = {} => answer = {This} /\ current + header.length = Answer
          \/ /\ ~header.complete
             /\ \E n \in Nat \ {0}, id \in Ids :
                  /\ Coming = Stream(id, n)
                  /\ spoilt = {} =>
                       answer = {This} /\ id = This /\ current + header.length + n = Answer
  /\ pc \in {"read", "body", "copy"} /\ spoilt = {} =>
       answer \subseteq {This} /\ (answer # {} \/ pc # "read" => performed > 0)
  /\ pc = "copied" /\ spoilt = {} => performed > 0

\* An attempt that has its answer leaves nothing behind, and the reset between
\* two attempts takes everything away.
Done ==
  /\ pc = "attempt" /\ status \in Answered =>
       /\ Empty
       /\ spoilt = {} => /\ answer = {This} /\ performed > 0
                         /\ status = "success" /\ call.recLength > 0 => current = Answer
  /\ pc = "idle" => Empty
  /\ Retrying => /\ pc = "resetStarted" /\ ~hRdy => Empty
                 /\ pc \in {"meReady", "isSignalled", "enableHost"} => Empty /\ ~hRdy

Framed == "stale" \notin spoilt => TransitInv /\ Before /\ After /\ Reading /\ Done

ExchangeInv == SafeInv /\ RegistersInv /\ HostInv /\ SendInv /\ CutInv /\ Framed

-----------------------------------------------------------------------------
(***************************************************************************)
(* Steps of the host that neither read nor write a dword                   *)
(***************************************************************************)
Unmoved == UNCHANGED <<toMe, toHost, partial, job, out, performed, command>> /\ spoilt \subseteq spoilt'

LEMMA TransitKept ==
  ASSUME TransitInv, Unmoved,
         toMe # <<>> /\ (~meRdy' \/ (~hRdy' /\ ~hRst')) =>
           pc' = "written" \/ (pc' = "attempt" /\ status' = "deviceError")
  PROVE  TransitInv'
<1>1. /\ First' = First /\ This' = This /\ Request' = Request /\ Coming' = Coming
      /\ MeIdle' <=> MeIdle
  BY DEF First, This, Request, Coming, MeIdle, Unmoved
<1>2. spoilt' = {} => spoilt = {}
  BY DEF Unmoved
<1>3. UNCHANGED <<toMe, partial, job, performed>>
  BY DEF Unmoved
<1> QED
  BY <1>1, <1>2, <1>3 DEF TransitInv

LEMMA BeforeKept ==
  ASSUME Before, Unmoved, BeginsSend' => BeginsSend \/ Empty,
         SomeSent' => (SomeSent /\ Sent' = Sent) \/ (Empty /\ Sent' = 0)
  PROVE  Before'
<1>1. /\ First' = First /\ MeIdle' <=> MeIdle
  BY DEF First, MeIdle, Unmoved
<1>2. /\ Empty' <=> Empty
      /\ UNCHANGED <<toMe, partial>>
      /\ spoilt' = {} => spoilt = {}
  BY DEF Empty, MeIdle, Unmoved
<1>3. Nothing.bytes = 0 /\ 0 + 0 = 0
  BY DEF Nothing
<1>4. BeginsSend' => Empty'
  BY <1>2, Zenon DEF Before
<1>5. CASE SomeSent /\ Sent' = Sent
  BY <1>1, <1>2, <1>4, <1>5, Zenon DEF Before
<1>6. CASE Empty /\ Sent' = 0
  BY <1>1, <1>2, <1>3, <1>4, <1>6 DEF Before, Empty
<1>7. CASE ~SomeSent'
  BY <1>4, <1>7 DEF Before
<1> QED
  BY <1>5, <1>6, <1>7

LEMMA AfterKept ==
  ASSUME After, Unmoved, AllSent' \/ Awaits' => AllSent \/ Awaits
  PROVE  After'
<1>1. First' = First /\ This' = This /\ Answer' = Answer /\ Coming' = Coming
  BY DEF First, This, Answer, Coming, Unmoved
<1>2. UNCHANGED <<toMe, partial>> /\ (spoilt' = {} => spoilt = {})
  BY DEF Unmoved
<1> QED
  BY <1>1, <1>2, Zenon DEF After

\* A place where nothing is read, and where the attempt has not got its answer.
LEMMA NoReading == ASSUME pc' \notin {"read", "body", "copy", "copied"} PROVE Reading'
BY DEF Reading

LEMMA NotDone ==
  ASSUME pc' # "idle", ~Retrying', pc' = "attempt" => status' \notin Answered
  PROVE  Done'
BY DEF Done

LEMMA EmptyKept ==
  ASSUME Unmoved
  PROVE  /\ Empty' <=> Empty
         /\ MeSilent' <=> MeSilent
         /\ Coming' = Coming /\ This' = This /\ Answer' = Answer /\ Request' = Request
         /\ spoilt' = {} => spoilt = {}
BY DEF Unmoved, Empty, MeSilent, MeIdle, Coming, This, Answer, Request

LEMMA FramedParts ==
  ASSUME ExchangeInv, Unmoved, "stale" \notin spoilt'
  PROVE  TransitInv /\ Before /\ After /\ Reading /\ Done
BY DEF ExchangeInv, Framed, Unmoved

\* WaitForMEReady goes on, and returns.
LEMMA WaitGoesOn ==
  ASSUME Waiting, Waiting', UNCHANGED <<fn, current, header, waitRet, command>>
  PROVE  /\ BeginsSend' <=> BeginsSend
         /\ SomeSent' <=> SomeSent
         /\ AllSent' \/ Awaits' <=> AllSent \/ Awaits
         /\ Sent' = Sent
BY DEF Waiting, ResetPcs, BeginsSend, SomeSent, AllSent, Awaits, Sent, Starting, Writing,
       Request, This

LEMMA WaitEnds ==
  ASSUME ExchangeInv, Waiting, AfterWait(TRUE), UNCHANGED <<fn, current, header, command, waitRet>>
  PROVE  /\ BeginsSend' => BeginsSend
         /\ SomeSent' => (SomeSent /\ Sent' = Sent) \/ (BeginsSend /\ Sent' = 0)
         /\ AllSent' \/ Awaits' => AllSent \/ Awaits
         /\ pc' \in {"setRdy", "room", "packet", "read"}
         /\ pc' = "read" => current = 0 /\ answer = {} /\ fn = "receive"
<1>1. /\ waitRet \in {"init", "call", "write"} /\ fn \in {"send", "receive"} /\ pc # "idle"
      /\ pc # "written" /\ pc # "packet"
  BY HostTypes DEF ExchangeInv, Waiting, ResetPcs
<1>2. Starting => current = 0 /\ answer = {}
  BY DEF ExchangeInv, HostInv
<1>3. /\ waitRet = "init" => pc' = "setRdy"
      /\ waitRet = "write" => pc' = "room"
      /\ waitRet = "call" => pc' = IF fn = "send" THEN "packet" ELSE "read"
  BY <1>1 DEF AfterWait, Goto
<1>4. Request \in Nat \ {0} /\ Request' = Request
  BY <1>1, LastType DEF ExchangeInv, Request, This
<1>5. Sent = current /\ Sent' = current
  BY <1>1, <1>3 DEF Sent
<1>6. CASE waitRet = "write"
  BY <1>1, <1>3, <1>4, <1>5, <1>6
     DEF BeginsSend, SomeSent, AllSent, Awaits, Starting, Writing, Waiting, ResetPcs
<1>7. CASE waitRet # "write"
  <2>1. Starting
    BY <1>7 DEF Starting
  <2>2. current = 0 /\ answer = {}
    BY <1>2, <2>1
  <2> QED
    BY <1>1, <1>3, <1>4, <1>5, <1>7, <2>1, <2>2
       DEF BeginsSend, SomeSent, AllSent, Awaits, Starting, Writing, Waiting, ResetPcs
<1> QED
  BY <1>6, <1>7

\* The head of HeciSend and HeciReceive.
Heads == CheckForHeciReset \/ HeciInitialize \/ SetHostReady

LEMMA HeadsFramed == ASSUME ExchangeInv, Heads PROVE Framed'
<1> SUFFICES ASSUME "stale" \notin spoilt' PROVE TransitInv' /\ Before' /\ After' /\ Reading' /\ Done'
  BY DEF Framed
<1>1. Unmoved /\ UNCHANGED <<meRdy, fn, current, header>>
  BY DEF Heads, CheckForHeciReset, HeciInitialize, SetHostReady, registers, buffers, me,
     history, Unmoved
<1>2. TransitInv /\ Before /\ After /\ Reading /\ Done
  BY <1>1, FramedParts
<1>3. Starting /\ Starting' /\ pc' \in {"initialize", "setRdy", "waitMe"} /\ pc # "written"
  BY DEF Heads, CheckForHeciReset, HeciInitialize, SetHostReady, Goto, WaitFrom, Starting,
     Waiting
<1>4. (hRdy' = hRdy /\ hRst' = hRst) \/ hRdy'
  BY DEF Heads, CheckForHeciReset, HeciInitialize, SetHostReady, registers
<1>5. TransitInv'
  BY <1>1, <1>2, <1>3, <1>4, TransitKept
     DEF TransitInv, Heads, CheckForHeciReset, HeciInitialize, SetHostReady
<1>6. ~Writing'
  BY DEF Heads, CheckForHeciReset, HeciInitialize, SetHostReady, Goto, WaitFrom, Writing,
     Waiting, ResetPcs
<1>7. Before'
  BY <1>1, <1>2, <1>3, <1>6, BeforeKept DEF BeginsSend, SomeSent
<1>8. After'
  BY <1>1, <1>2, <1>3, AfterKept DEF AllSent, Awaits
<1>9. Reading' /\ Done'
  BY <1>3, NoReading, NotDone DEF Retrying, ResetPcs
<1> QED
  BY <1>5, <1>7, <1>8, <1>9

LEMMA WaitForMEReadyFramed == ASSUME ExchangeInv, WaitForMEReady PROVE Framed'
<1> SUFFICES ASSUME "stale" \notin spoilt' PROVE TransitInv' /\ Before' /\ After' /\ Reading' /\ Done'
  BY DEF Framed
<1>1. /\ Unmoved /\ UNCHANGED <<registers, fn, current, header, waitRet, command, answer>>
      /\ pc = "waitMe"
  BY DEF WaitForMEReady, buffers, me, history, Unmoved
<1>2. TransitInv /\ Before /\ After /\ Reading /\ Done
  BY <1>1, FramedParts
<1>3. Waiting
  BY <1>1 DEF Waiting
<1>4. TransitInv'
  BY <1>1, <1>2, TransitKept DEF TransitInv, registers
<1>5. CASE pc' = "assertReset" /\ resetRet' = "wait"
  <2>1. Waiting'
    BY <1>5 DEF Waiting, ResetPcs
  <2>2. Before' /\ After'
    BY <1>1, <1>2, <1>3, <2>1, WaitGoesOn, BeforeKept, AfterKept
  <2>3. Reading' /\ Done'
    BY <1>5, NoReading, NotDone DEF Retrying
  <2> QED
    BY <1>4, <2>2, <2>3
<1>6. CASE AfterWait(TRUE)
  <2>1. Before' /\ After'
    BY <1>1, <1>2, <1>3, <1>6, WaitEnds, BeforeKept, AfterKept DEF Before
  <2>2. pc' \in {"setRdy", "room", "packet", "read"} /\ (pc' = "read" => current = 0 /\ answer = {})
    BY <1>1, <1>3, <1>6, WaitEnds
  <2>3. Done'
    BY <2>2, NotDone DEF Retrying, ResetPcs
  <2>4. Reading'
    BY <1>1, <2>2 DEF Reading
  <2> QED
    BY <1>4, <2>1, <2>3, <2>4
<1>7. CASE pc' = "attempt" /\ status' \notin Answered
  <2>1. Before' /\ After'
    BY <1>1, <1>2, <1>7, BeforeKept, AfterKept
       DEF BeginsSend, SomeSent, AllSent, Awaits, Starting, Writing, Waiting, ResetPcs
  <2>2. Reading' /\ Done'
    BY <1>7, NoReading, NotDone DEF Retrying, ResetPcs
  <2> QED
    BY <1>4, <2>1, <2>2
<1>8. AfterWait(FALSE) => pc' = "attempt" /\ status' \notin Answered
  BY DEF AfterWait, AttemptEnds, Answered
<1> QED
  BY <1>5, <1>6, <1>7, <1>8 DEF WaitForMEReady, Goto

LEMMA AssertResetFramed == ASSUME ExchangeInv, AssertReset PROVE Framed'
<1> SUFFICES ASSUME "stale" \notin spoilt' PROVE TransitInv' /\ Before' /\ After' /\ Reading' /\ Done'
  BY DEF Framed
<1>1. /\ Unmoved /\ UNCHANGED <<hRdy, meRdy, fn, current, header, waitRet, resetRet, command, answer>>
      /\ pc = "assertReset" /\ pc' = "resetStarted" /\ ~hRst
  BY DEF AssertReset, Goto, buffers, me, Unmoved
<1>2. TransitInv /\ Before /\ After /\ Reading /\ Done
  BY <1>1, FramedParts
<1>3. TransitInv'
  BY <1>1, <1>2, TransitKept DEF TransitInv
<1>4. Reading'
  BY <1>1, NoReading
<1>5. CASE resetRet = "wait"
  <2>1. Waiting /\ Waiting' /\ ~Retrying'
    BY <1>1, <1>5 DEF Waiting, Retrying, ResetPcs
  <2>2. Before' /\ After'
    BY <1>1, <1>2, <2>1, WaitGoesOn, BeforeKept, AfterKept
  <2> QED
    BY <1>1, <1>3, <1>4, <2>1, <2>2, NotDone
<1>6. CASE resetRet = "retry"
  <2>1. ~hRdy => Empty
    BY <1>1, <1>2 DEF TransitInv, ExchangeInv, RegistersInv, Empty
  <2>2. Before' /\ After'
    BY <1>1, <1>2, <1>6, BeforeKept, AfterKept
       DEF BeginsSend, SomeSent, AllSent, Awaits, Starting, Writing, Waiting, ResetPcs
  <2>3. Done'
    BY <1>1, <2>1, EmptyKept DEF Done
  <2> QED
    BY <1>3, <1>4, <2>2, <2>3
<1> QED
  BY <1>5, <1>6, HostTypes DEF ExchangeInv

LEMMA ResetTimesOutFramed == ASSUME ExchangeInv, ResetTimesOut PROVE Framed'
<1> SUFFICES ASSUME "stale" \notin spoilt' PROVE TransitInv' /\ Before' /\ After' /\ Reading' /\ Done'
  BY DEF Framed
<1>1. /\ Unmoved /\ UNCHANGED registers /\ resetRet = "wait" /\ AfterWait(FALSE)
      /\ pc \in {"resetStarted", "meReady", "isSignalled"}
  BY DEF ResetTimesOut, buffers, me, Unmoved
<1>2. TransitInv /\ Before /\ After /\ Reading /\ Done
  BY <1>1, FramedParts
<1>3. pc' = "attempt" /\ status' \notin Answered
  BY <1>1 DEF AfterWait, AttemptEnds, Answered
<1>4. TransitInv'
  BY <1>1, <1>2, TransitKept DEF TransitInv, registers
<1>5. Before' /\ After'
  BY <1>1, <1>2, <1>3, BeforeKept, AfterKept
     DEF BeginsSend, SomeSent, AllSent, Awaits, Starting, Writing, Waiting, ResetPcs
<1>6. Reading' /\ Done'
  BY <1>3, NoReading, NotDone DEF Retrying, ResetPcs
<1> QED
  BY <1>4, <1>5, <1>6

LEMMA ResetAdvancesFramed == ASSUME ExchangeInv, ResetAdvances PROVE Framed'
<1> SUFFICES ASSUME "stale" \notin spoilt' PROVE TransitInv' /\ Before' /\ After' /\ Reading' /\ Done'
  BY DEF Framed
<1>1. /\ Unmoved /\ UNCHANGED <<registers, fn, current, header, waitRet, resetRet, command>>
      /\ \/ pc = "resetStarted" /\ ~hRdy /\ pc' = "meReady"
         \/ pc \in {"meReady", "isSignalled"} /\ pc' \in {"isSignalled", "enableHost"}
  BY DEF ResetAdvances, Goto, buffers, me, history, Unmoved
<1>2. TransitInv /\ Before /\ After /\ Reading /\ Done
  BY <1>1, FramedParts
<1>3. TransitInv'
  BY <1>1, <1>2, TransitKept DEF TransitInv, registers
<1>4. Reading'
  BY <1>1, NoReading
<1>5. CASE resetRet = "wait"
  <2>1. Waiting /\ Waiting' /\ ~Retrying'
    BY <1>1, <1>5 DEF Waiting, Retrying, ResetPcs
  <2>2. Before' /\ After'
    BY <1>1, <1>2, <2>1, WaitGoesOn, BeforeKept, AfterKept
  <2>3. pc' # "idle" /\ pc' # "attempt"
    BY <1>1
  <2> QED
    BY <1>3, <1>4, <2>1, <2>2, <2>3, NotDone
<1>6. CASE resetRet = "retry"
  <2>1. Empty /\ ~hRdy
    BY <1>1, <1>2, <1>6 DEF Done, Retrying, ResetPcs
  <2>2. Before' /\ After'
    BY <1>1, <1>2, <1>6, BeforeKept, AfterKept
       DEF BeginsSend, SomeSent, AllSent, Awaits, Starting, Writing, Waiting, ResetPcs
  <2>3. Empty' /\ ~hRdy' /\ pc' # "idle" /\ pc' # "attempt"
    BY <1>1, <2>1, EmptyKept DEF registers
  <2>4. Done'
    BY <2>3 DEF Done
  <2> QED
    BY <1>3, <1>4, <2>2, <2>4
<1> QED
  BY <1>5, <1>6, HostTypes DEF ExchangeInv

\* HeciSend begins once more, with nothing on its way.
LEMMA AgainFramed ==
  ASSUME ExchangeInv, Unmoved, "stale" \notin spoilt', Empty, pc' = "begin", fn' = "send"
  PROVE  TransitInv' /\ Before' /\ After' /\ Reading' /\ Done'
<1>1. TransitInv /\ Before /\ After
  BY FramedParts
<1>2. TransitInv'
  BY <1>1, TransitKept DEF Empty
<1>3. Before' /\ After'
  BY <1>1, BeforeKept, AfterKept DEF SomeSent, AllSent, Awaits, Writing, Waiting, ResetPcs
<1>4. Reading' /\ Done'
  BY NoReading, NotDone DEF Retrying, ResetPcs
<1> QED
  BY <1>2, <1>3, <1>4

LEMMA ResetEndsFramed == ASSUME ExchangeInv, ResetEnds PROVE Framed'
<1> SUFFICES ASSUME "stale" \notin spoilt' PROVE TransitInv' /\ Before' /\ After' /\ Reading' /\ Done'
  BY DEF Framed
<1>1. /\ Unmoved /\ UNCHANGED <<meRdy, header, waitRet, resetRet, command>>
      /\ pc = "enableHost" /\ hRdy'
  BY DEF ResetEnds, SendAgain, buffers, me, Unmoved
<1>2. TransitInv /\ Before /\ After /\ Reading /\ Done
  BY <1>1, FramedParts
<1>3. CASE resetRet = "wait"
  <2>1. Waiting /\ AfterWait(TRUE) /\ UNCHANGED <<fn, current, answer>>
    BY <1>1, <1>3 DEF ResetEnds, Waiting, ResetPcs
  <2>2. TransitInv'
    BY <1>1, <1>2, TransitKept DEF TransitInv
  <2>3. Before' /\ After'
    BY <1>1, <1>2, <2>1, WaitEnds, BeforeKept, AfterKept DEF Before
  <2>4. pc' \in {"setRdy", "room", "packet", "read"} /\ (pc' = "read" => current = 0 /\ answer = {})
    BY <1>1, <2>1, WaitEnds
  <2>5. Done'
    BY <2>4, NotDone DEF Retrying, ResetPcs
  <2>6. Reading'
    BY <2>1, <2>4 DEF Reading
  <2> QED
    BY <2>2, <2>3, <2>5, <2>6
<1>4. CASE resetRet = "retry"
  <2>1. Empty
    BY <1>1, <1>2, <1>4 DEF Done, Retrying, ResetPcs
  <2>2. pc' = "begin" /\ fn' = "send"
    BY <1>4 DEF ResetEnds, SendAgain, Goto
  <2> QED
    BY <1>1, <2>1, <2>2, AgainFramed
<1> QED
  BY <1>3, <1>4, HostTypes DEF ExchangeInv

LEMMA EndAttemptFramed == ASSUME ExchangeInv, EndAttempt PROVE Framed'
<1> SUFFICES ASSUME "stale" \notin spoilt' PROVE TransitInv' /\ Before' /\ After' /\ Reading' /\ Done'
  BY DEF Framed
<1>1. /\ Unmoved /\ UNCHANGED registers /\ pc = "attempt"
  BY DEF EndAttempt, SendAgain, Leftover, buffers, me, Unmoved
<1>2. TransitInv /\ Before /\ After /\ Reading /\ Done
  BY <1>1, FramedParts
<1>3. call.service \in {"retry", "plain"}
  BY <1>1 DEF ExchangeInv, HostInv
<1>4. CASE pc' = "idle" /\ spoilt' = Leftover
  <2>1. Empty /\ Empty'
    BY <1>1, <1>2, <1>4, EmptyKept DEF Leftover, Done, Answered
  <2>2. TransitInv'
    BY <1>1, <1>2, <2>1, TransitKept DEF Empty
  <2>3. Before' /\ After'
    BY <1>1, <1>2, <1>4, BeforeKept, AfterKept
       DEF BeginsSend, SomeSent, AllSent, Awaits, Starting, Writing, Waiting, ResetPcs
  <2>4. Reading' /\ Done'
    BY <1>4, <2>1, NoReading DEF Done, Retrying, ResetPcs
  <2> QED
    BY <2>2, <2>3, <2>4
<1>5. CASE pc' = "assertReset" /\ resetRet' = "retry" /\ status # "deviceError"
  <2>1. TransitInv'
    BY <1>1, <1>2, <1>5, TransitKept DEF TransitInv, registers
  <2>2. Before' /\ After'
    BY <1>1, <1>2, <1>5, BeforeKept, AfterKept
       DEF BeginsSend, SomeSent, AllSent, Awaits, Starting, Writing, Waiting, ResetPcs
  <2>3. Reading' /\ Done'
    BY <1>5, NoReading DEF Done
  <2> QED
    BY <2>1, <2>2, <2>3
<1>6. CASE pc' = "begin" /\ fn' = "send" /\ call.service = "plain" /\ Leftover \subseteq spoilt'
  <2>1. Empty
    BY <1>1, <1>2, <1>6 DEF Leftover, Done, Answered
  <2> QED
    BY <1>1, <1>6, <2>1, AgainFramed
<1>7. \/ pc' = "idle" /\ spoilt' = Leftover
      \/ pc' = "assertReset" /\ resetRet' = "retry" /\ status # "deviceError"
      \/ pc' = "begin" /\ fn' = "send" /\ call.service = "plain" /\ Leftover \subseteq spoilt'
  BY <1>3 DEF EndAttempt, Final, Return, SendAgain, ResetsBetween, Goto
<1> QED
  BY <1>4, <1>5, <1>6, <1>7

LEMMA CallFramed == ASSUME ExchangeInv, Call PROVE Framed'
<1> SUFFICES ASSUME "stale" \notin spoilt' PROVE TransitInv' /\ Before' /\ After' /\ Reading' /\ Done'
  BY DEF Framed
<1>1. /\ pc = "idle" /\ pc' = "begin" /\ fn' = "send" /\ "stale" \notin spoilt
      /\ UNCHANGED <<toMe, toHost, partial, job, out>>
  BY DEF Call, Goto, buffers, me
<1>2. Empty
  BY <1>1 DEF ExchangeInv, Framed, Done
<1>3. Empty' /\ Coming' = <<>>
  <2>1. Empty'
    BY <1>1, <1>2 DEF Empty, MeIdle
  <2>2. Coming = <<>> /\ Coming' = Coming
    BY <1>1, <1>2, ComingProps DEF ExchangeInv, Empty, Coming
  <2> QED
    BY <2>1, <2>2
<1>4. TransitInv'
  BY <1>3 DEF TransitInv, Empty, MeIdle, Nothing
<1>5. Before'
  BY <1>1, <1>3 DEF Before, SomeSent, Writing, Waiting, ResetPcs
<1>6. After'
  BY <1>3 DEF After, Empty
<1>7. Reading' /\ Done'
  BY <1>1, NoReading, NotDone DEF Retrying, ResetPcs
<1> QED
  BY <1>4, <1>5, <1>6, <1>7

LEMMA NextPacketFramed == ASSUME ExchangeInv, NextPacket PROVE Framed'
<1> SUFFICES ASSUME "stale" \notin spoilt' PROVE TransitInv' /\ Before' /\ After' /\ Reading' /\ Done'
  BY DEF Framed
<1>1. Unmoved /\ UNCHANGED <<registers, command>> /\ pc = "packet"
  BY DEF NextPacket, buffers, me, Unmoved
<1>2. TransitInv /\ Before /\ After /\ Reading /\ Done
  BY <1>1, FramedParts
<1>3. TransitInv'
  BY <1>1, <1>2, TransitKept DEF TransitInv, registers
<1>4. /\ fn = "send" /\ Request \in Nat \ {0} /\ current \in Nat /\ current <= Request
      /\ Rest = Request - current /\ Request' = Request /\ Sent = current
  <2>1. pc # "idle" /\ fn = "send" /\ Cut(current)
    BY <1>1 DEF ExchangeInv, SendInv
  <2> QED
    BY <1>1, <2>1, LastType, HostTypes DEF ExchangeInv, Cut, Rest, Request, Sent, This
<1>5. CASE Rest > 0
  <2>1. pc' = "waitMe" /\ waitRet' = "write" /\ UNCHANGED <<fn, current>>
    BY <1>5 DEF NextPacket, WaitFrom
  <2>2. Sent' = Sent /\ current # Request
    BY <1>4, <1>5, <2>1 DEF Sent
  <2>3. BeginsSend' => BeginsSend
    BY <1>1, <1>4, <2>1, <2>2 DEF BeginsSend, Starting, Writing, Waiting, ResetPcs
  <2>4. SomeSent
    BY <1>1, <1>4, <2>2 DEF SomeSent
  <2>5. Before'
    BY <1>1, <1>2, <2>2, <2>3, <2>4, BeforeKept
  <2>6. ~AllSent' /\ ~Awaits'
    BY <1>4, <2>1 DEF AllSent, Awaits
  <2>7. After'
    BY <1>1, <1>2, <2>6, AfterKept
  <2>8. Reading' /\ Done'
    BY <2>1, NoReading, NotDone DEF Retrying, ResetPcs
  <2> QED
    BY <1>3, <2>5, <2>7, <2>8
<1>6. CASE ~(Rest > 0)
  <2>1. pc' = "begin" /\ fn' = "receive"
    BY <1>6 DEF NextPacket, Goto
  <2>2. AllSent
    BY <1>1, <1>4, <1>6 DEF AllSent
  <2>3. Before'
    BY <1>1, <1>2, <2>1, BeforeKept DEF BeginsSend, SomeSent
  <2>4. After'
    BY <1>1, <1>2, <2>2, AfterKept
  <2>5. Reading' /\ Done'
    BY <2>1, NoReading, NotDone DEF Retrying, ResetPcs
  <2> QED
    BY <1>3, <2>3, <2>4, <2>5
<1> QED
  BY <1>5, <1>6

\* Once a packet that is not the last has been written the buffer is full.
LEMMA NoRoomLeft ==
  ASSUME ExchangeInv, TransitInv, toMe # <<>>, ~First.complete, header.length > 0
  PROVE  ~HasRoom(header)
<1>1. toMe = Packet(First) /\ First.length = Most /\ First \in Slots
  BY WholeTaken, BufferTypes DEF TransitInv, First, ExchangeInv, SafeInv
<1>2. Len(toMe) = Dwords(Most) + 1
  BY <1>1, PacketProps, Zenon
<1>3. Dwords(Most) + 1 = Depth /\ Depth \in Nat
  BY MostType, PtrModType
<1>4. FilledSlots(hRp, hWp) = Depth
  BY <1>2, <1>3, BufferTypes DEF ExchangeInv
<1>5. Dwords(header.length) \in Nat
  BY DwordsType, HostTypes DEF ExchangeInv
<1> QED
  BY <1>3, <1>4, <1>5 DEF HasRoom

LEMMA HeciPacketWriteFramed == ASSUME ExchangeInv, HeciPacketWrite PROVE Framed'
<1> SUFFICES ASSUME "stale" \notin spoilt' PROVE TransitInv' /\ Before' /\ After' /\ Reading' /\ Done'
  BY DEF Framed
<1>1. /\ UNCHANGED <<registers, toHost, partial, job, out, performed, command, spoilt>>
      /\ UNCHANGED <<fn, current, header, message>> /\ pc = "room"
  BY DEF HeciPacketWrite, me, history
<1>2. TransitInv /\ Before /\ After /\ Reading /\ Done
  BY <1>1 DEF ExchangeInv, Framed
<1>3. /\ Request \in Nat \ {0} /\ current \in Nat /\ header.length \in Nat /\ header.complete \in BOOLEAN
      /\ Rest = Request - current /\ Request' = Request /\ This' = This
      /\ header \in Slots /\ header.header
  BY <1>1, LastType, HostTypes DEF ExchangeInv, Rest, Request, This
<1>4. /\ fn = "send" /\ header.length > 0 /\ header.id = message
      /\ header.complete <=> header.length = Rest
      /\ ~header.complete => header.length = Most
      /\ Rest > 0
  <2>1. "cut" \notin spoilt
    BY <1>1 DEF ExchangeInv, CutInv, Cutting
  <2> QED
    BY <1>1, <2>1 DEF ExchangeInv, SendInv, Writing
<1>5. SomeSent /\ Sent = current
  BY <1>1, <1>3, <1>4 DEF SomeSent, Sent, Writing
<1>6. CASE HasRoom(header) /\ toMe' = toMe \o Packet(header) /\ pc' = "written"
  <2>1. toMe = <<>>
    BY <1>2, <1>4, <1>5, <1>6, NoRoomLeft DEF Before
  <2>2. toMe' = Packet(header) /\ toMe' # <<>> /\ First' = header
    <3>1. Packet(header) \in Seq(Slots) /\ Packet(header) # <<>> /\ Head(Packet(header)) = header
      BY <1>3, PacketProps
    <3>2. toMe' = Packet(header)
      BY <1>6, <2>1, <3>1, ConcatEmptySeq
    <3> QED
      BY <3>1, <3>2 DEF First
  <2>3. MeIdle /\ MeIdle' /\ Coming = <<>> /\ Coming' = <<>> /\ ~job'.live
    <3>1. MeIdle /\ MeIdle'
      BY <1>1, <1>2, <1>5 DEF Before, MeIdle
    <3>2. Coming = <<>> /\ Coming' = Coming
      BY <1>1, <3>1, ComingProps DEF ExchangeInv, Coming
    <3> QED
      BY <3>1, <3>2 DEF MeIdle
  <2>4. spoilt = {} => header.id = This /\ partial.bytes = current
    <3>1. fn = "send" /\ "clobbered" \notin spoilt => message = This
      BY <1>1 DEF ExchangeInv, HostInv
    <3>2. partial \in [ids : SUBSET Ids, bytes : Nat]
      BY DEF ExchangeInv, SafeInv, TypeOK
    <3> QED
      BY <1>2, <1>4, <1>5, <2>1, <3>1, <3>2 DEF Before
  <2>5. TransitInv'
    <3>1. spoilt' = {} => (header.complete => partial'.bytes + header.length = Request)
      BY <1>1, <1>3, <1>4, <2>4
    <3> HIDE DEF Coming
    <3> QED
      BY <1>1, <1>2, <1>3, <1>4, <1>6, <2>2, <2>3, <2>4, <3>1 DEF TransitInv
  <2>6. Sent' = current + header.length
    BY <1>1, <1>6 DEF Sent
  <2>7. ~BeginsSend'
    BY <1>3, <1>4, <1>6, <2>6 DEF BeginsSend, Starting, Waiting, ResetPcs
  <2>8. Sent' # Request' <=> ~header.complete
    BY <1>3, <1>4, <2>6
  <2>9. Before'
    BY <1>1, <2>2, <2>3, <2>4, <2>6, <2>7, <2>8 DEF Before, SomeSent
  <2>10. After'
    BY <1>1, <1>4, <2>2, <2>3, <2>8 DEF After, AllSent, Awaits
  <2>11. Reading' /\ Done'
    BY <1>6, NoReading, NotDone DEF Retrying, ResetPcs
  <2> QED
    BY <2>5, <2>9, <2>10, <2>11
<1>7. CASE AttemptEnds("timeout") /\ UNCHANGED toMe
  <2>1. Unmoved /\ pc' = "attempt" /\ status' \notin Answered
    BY <1>1, <1>7 DEF Unmoved, AttemptEnds, Answered
  <2>2. TransitInv'
    BY <1>1, <1>2, <2>1, TransitKept DEF TransitInv, registers
  <2>3. Before' /\ After'
    BY <1>2, <2>1, BeforeKept, AfterKept
       DEF BeginsSend, SomeSent, AllSent, Awaits, Starting, Writing, Waiting, ResetPcs
  <2>4. Reading' /\ Done'
    BY <2>1, NoReading, NotDone DEF Retrying, ResetPcs
  <2> QED
    BY <2>2, <2>3, <2>4
<1> QED
  BY <1>6, <1>7 DEF HeciPacketWrite, Goto

LEMMA PacketWrittenFramed == ASSUME ExchangeInv, PacketWritten PROVE Framed'
<1> SUFFICES ASSUME "stale" \notin spoilt' PROVE TransitInv' /\ Before' /\ After' /\ Reading' /\ Done'
  BY DEF Framed
<1>1. Unmoved /\ UNCHANGED <<registers, fn, header, command>> /\ pc = "written"
  BY DEF PacketWritten, buffers, me, history, Unmoved
<1>2. TransitInv /\ Before /\ After /\ Reading /\ Done
  BY <1>1, FramedParts
<1>3. CASE meRdy
  <2>1. pc' = "packet" /\ current' = current + header.length
    BY <1>3 DEF PacketWritten, Goto
  <2>2. Sent' = Sent /\ Request' = Request
    BY <1>1, <2>1 DEF Sent, Request, This
  <2>3. hRdy' \/ hRst'
    BY <1>1, <1>3 DEF ExchangeInv, RegistersInv, registers
  <2>4. TransitInv'
    BY <1>1, <1>2, <1>3, <2>3, TransitKept DEF registers
  <2>5. Before' /\ After'
    BY <1>1, <1>2, <2>1, <2>2, BeforeKept, AfterKept
       DEF BeginsSend, SomeSent, AllSent, Awaits, Starting, Writing, Waiting, ResetPcs
  <2>6. Reading' /\ Done'
    BY <2>1, NoReading, NotDone DEF Retrying, ResetPcs
  <2> QED
    BY <2>4, <2>5, <2>6
<1>4. CASE ~meRdy
  <2>1. pc' = "attempt" /\ status' = "deviceError"
    BY <1>4 DEF PacketWritten, AttemptEnds
  <2>2. TransitInv'
    BY <1>1, <1>2, <2>1, TransitKept
  <2>3. Before' /\ After'
    BY <1>1, <1>2, <2>1, BeforeKept, AfterKept
       DEF BeginsSend, SomeSent, AllSent, Awaits, Starting, Writing, Waiting, ResetPcs
  <2>4. Reading' /\ Done'
    BY <2>1, NoReading, NotDone DEF Retrying, ResetPcs, Answered
  <2> QED
    BY <2>2, <2>3, <2>4
<1> QED
  BY <1>3, <1>4

-----------------------------------------------------------------------------
(***************************************************************************)
(* HeciReceive                                                             *)
(***************************************************************************)

\* What the host finds when it reads a header.
LEMMA AtHeader ==
  ASSUME ExchangeInv, "stale" \notin spoilt, pc = "read", Coming # <<>>
  PROVE  /\ MeSilent /\ fn = "receive"
         /\ spoilt = {} => performed > 0 /\ answer \subseteq {This}
         /\ \E n \in Nat, id \in Ids :
              /\ Coming = Stream(id, n)
              /\ spoilt = {} => id = This /\ current + n = Answer
              /\ current > 0 => n > 0
<1>1. TransitInv /\ After /\ Reading
  BY DEF ExchangeInv, Framed
<1>2. fn = "receive" /\ current \in Nat /\ This > 0
  BY HostTypes DEF ExchangeInv, HostInv, SafeInv, Called
<1>3. spoilt = {} => performed > 0 /\ answer \subseteq {This}
  BY <1>1 DEF TransitInv, Reading
<1>4. CASE current > 0
  BY <1>1, <1>2, <1>3, <1>4 DEF Reading
<1>5. CASE current = 0
  <2>1. ~MeIdle
    BY ComingProps DEF ExchangeInv
  <2>2. MeSilent
    BY <1>1, <2>1 DEF TransitInv, MeSilent
  <2>3. PICK n \in Nat, id \in Ids : Coming = Stream(id, n) /\ (spoilt = {} => id = This /\ n = Answer)
    BY <1>1, <1>2, <1>5 DEF After, Awaits
  <2>4. current + n = n /\ ~(current > 0)
    BY <1>5
  <2> QED
    BY <1>2, <1>3, <2>2, <2>3, <2>4
<1> QED
  BY <1>2, <1>4, <1>5

LEMMA ReadHeaderFramed == ASSUME ExchangeInv, ReadHeader PROVE Framed'
<1> SUFFICES ASSUME "stale" \notin spoilt' PROVE TransitInv' /\ Before' /\ After' /\ Reading' /\ Done'
  BY DEF Framed
<1>1. /\ UNCHANGED <<registers, toMe, partial, job, out, performed, command, spoilt>>
      /\ UNCHANGED <<fn, current, call, resetRet, waitRet>> /\ pc = "read"
  BY DEF ReadHeader, me, history
<1>2. TransitInv /\ Before /\ After /\ Reading /\ Done
  BY <1>1 DEF ExchangeInv, Framed
<1>3. fn = "receive"
  BY <1>1 DEF ExchangeInv, HostInv
<1>4. CASE pc' = "attempt" /\ status' = "timeout" /\ UNCHANGED <<toHost, header, answer>>
  <2>1. Unmoved
    BY <1>1, <1>4 DEF Unmoved
  <2>2. TransitInv'
    BY <1>1, <1>2, <2>1, TransitKept DEF TransitInv, registers
  <2>3. Before' /\ After'
    BY <1>1, <1>2, <1>3, <1>4, <2>1, BeforeKept, AfterKept
       DEF BeginsSend, SomeSent, AllSent, Awaits, Starting, Waiting, ResetPcs
  <2>4. Reading' /\ Done'
    BY <1>4, NoReading, NotDone DEF Retrying, ResetPcs, Answered
  <2> QED
    BY <2>2, <2>3, <2>4
<1>5. CASE /\ toHost # <<>> /\ toHost' = Tail(toHost) /\ header' \in AsHeader(Head(toHost))
           /\ \/ /\ header'.length = 0 /\ pc' = "attempt" /\ answer' = answer \cup {header'.id}
                 /\ status' = IF current = 0 /\ header'.complete THEN "success" ELSE "noResponse"
              \/ header'.length + 4 > Depth * 4
              \/ header'.length > 0 /\ pc' = "body" /\ UNCHANGED <<status, answer>>
  <2>1. Coming \in Seq(Slots) /\ toHost \in Seq(Slots) /\ out \in Seq(Slots) /\ Coming # <<>>
    BY <1>5, ComingProps DEF ExchangeInv
  <2>2. /\ MeSilent /\ (spoilt = {} => performed > 0 /\ answer \subseteq {This})
        /\ \E n \in Nat, id \in Ids :
              /\ Coming = Stream(id, n)
              /\ spoilt = {} => id = This /\ current + n = Answer
              /\ current > 0 => n > 0
    BY <1>1, <2>1, AtHeader
  <2>3. PICK n \in Nat, id \in Ids :
          /\ Coming = Stream(id, n)
          /\ spoilt = {} => id = This /\ current + n = Answer
          /\ current > 0 => n > 0
    BY <2>2, Zenon
  <2>4. PICK h \in Slots, c \in Seq(Slots) :
          /\ h.header /\ h.id = id
          /\ Stream(id, n) = <<h>> \o (Bodies(h) \o c)
          /\ \/ h.complete /\ n <= Most /\ h.length = n /\ c = <<>>
             \/ /\ ~h.complete /\ h.length = Most
                /\ n - Most \in Nat \ {0} /\ c = Stream(id, n - Most)
    BY <2>3, StreamCut
  <2> DEFINE b == Bodies(h) \o c
  <2>5. b \in Seq(Slots)
    <3>1. Bodies(h) \in Seq(Slots)
      BY <2>4, BodiesProps
    <3> QED
      BY <2>4, <3>1, ConcatProperties
  <2>6. toHost \o out = <<h>> \o b
    BY <2>3, <2>4 DEF Coming
  <2> HIDE DEF b
  <2>7. Head(toHost) = h /\ Coming' = b
    <3>1. Head(toHost) = h /\ Tail(toHost) \o out = b
      <4>1. Leads(toHost, out, h, b)
        BY <1>5, <2>1, <2>5, <2>6 DEF Leads
      <4> QED
        BY <4>1, HeaderTaken
    <3>2. Coming' = Tail(toHost) \o out
      BY <1>1, <1>5 DEF Coming
    <3> QED
      BY <3>1, <3>2
  <2>8. header' = h
    BY <1>5, <2>4, <2>7 DEF AsHeader
  <2>9. current \in Nat /\ Most \in Nat \ {0} /\ (n > 0 => h.length > 0) /\ h.length <= Most
    BY <2>4, HostTypes, MostType DEF ExchangeInv
  <2>10. This' = This /\ Answer' = Answer /\ MeSilent' /\ current' = current
    BY <1>1, <2>2 DEF This, Answer, MeSilent
  <2>11. CASE /\ header'.length = 0 /\ pc' = "attempt" /\ answer' = answer \cup {header'.id}
              /\ status' = IF current = 0 /\ header'.complete THEN "success" ELSE "noResponse"
    <3>1. n = 0 /\ current = 0 /\ h.complete /\ h.length = 0
      <4>1. h.length = 0
        BY <2>8, <2>11
      <4> QED
        BY <2>3, <2>4, <2>9, <4>1
    <3>2. Bodies(h) = <<>>
      BY <3>1, <2>4, BodiesProps DEF Dwords
    <3>3. Coming' = <<>>
      <4>1. c = <<>> /\ <<>> \o <<>> = <<>>
        BY <2>4, <3>1
      <4> QED
        BY <2>7, <3>2, <4>1 DEF b
    <3>4. toHost' = <<>> /\ out' = <<>>
      <4>1. toHost' \in Seq(Slots)
        BY <1>5, <2>1
      <4> QED
        BY <1>1, <2>1, <3>3, <4>1, ConcatEqualIffEmpty DEF Coming
    <3>5. Empty' /\ MeIdle'
      BY <2>10, <3>4 DEF Empty, MeIdle, MeSilent
    <3>6. answer = {}
      BY <1>1, <3>1 DEF ExchangeInv, HostInv
    <3>7. TransitInv'
      BY <1>1, <1>2, <2>10, <3>3, <3>5 DEF TransitInv, Empty
    <3>8. Done'
      BY <1>1, <2>2, <2>3, <2>4, <2>8, <2>10, <2>11, <3>1, <3>5, <3>6 DEF Done, Retrying, ResetPcs
    <3>9. Before' /\ After' /\ Reading'
      BY <1>1, <1>3, <2>11, NoReading
         DEF Before, After, BeginsSend, SomeSent, AllSent, Awaits, Starting, Waiting, ResetPcs
    <3> QED
      BY <3>7, <3>8, <3>9
  <2>12. CASE header'.length + 4 > Depth * 4
    <3>1. h.length \in Nat
      BY <2>4 DEF Slots
    <3> QED
      BY <2>8, <2>9, <2>12, <3>1, PtrModType DEF Most
  <2>13. CASE header'.length > 0 /\ pc' = "body" /\ UNCHANGED <<status, answer>>
    <3>1. n > 0 /\ <<header'>> \o Coming' = Stream(id, n)
      <4>1. n > 0
        BY <2>3, <2>4, <2>8, <2>9, <2>13
      <4> QED
        BY <2>4, <2>7, <2>8, <4>1 DEF b
    <3>2. TransitInv'
      BY <1>1, <1>2, <2>2, <2>10 DEF TransitInv, MeSilent, Nothing
    <3>3. Reading'
      <4>1. /\ pc' = "body" /\ n \in Nat \ {0} /\ id \in Ids
            /\ UNCHANGED <<spoilt, performed, answer, current, out>>
            /\ ("body" \notin {"read", "copied", "copy"}) /\ "body" # "copy"
        BY <1>1, <2>3, <2>13, <3>1
      <4>2. MeSilent' /\ This' = This /\ Answer' = Answer
        BY <2>10
      <4>3. spoilt' = {} => id = This' /\ current' + n = Answer'
        BY <2>3, <4>1, <4>2
      <4>4. spoilt' = {} => answer' \subseteq {This'} /\ performed' > 0
        BY <2>2, <4>1, <4>2
      <4> QED
        BY <3>1, <4>1, <4>2, <4>3, <4>4 DEF Reading
    <3>4. Before' /\ After' /\ Done'
      BY <1>1, <1>3, <2>13, NotDone DEF Before, After, BeginsSend, SomeSent, AllSent, Awaits,
         Starting, Waiting, Retrying, ResetPcs
    <3> QED
      BY <3>2, <3>3, <3>4
  <2> QED
    BY <1>5, <2>11, <2>12, <2>13, Zenon
<1> QED
  BY <1>4, <1>5, ReadHeaderCases DEF ExchangeInv

\* The ME has had the request and, so far as nothing has spoilt it, performed it.
LEMMA SilentTransit ==
  ASSUME MeSilent', spoilt' = {} => performed' > 0
  PROVE  TransitInv'
BY DEF TransitInv, MeSilent, Nothing

\* Neither sends, nor awaits the first packet of an answer.
LEMMA NotBetween ==
  ASSUME fn' = "receive", pc' \in {"body", "copy", "copied", "attempt"} \/ (pc' = "read" /\ current' > 0)
  PROVE  Before' /\ After'
BY DEF Before, After, BeginsSend, SomeSent, AllSent, Awaits, Starting, Waiting, ResetPcs

LEMMA WaitForBodyFramed == ASSUME ExchangeInv, WaitForBody PROVE Framed'
<1> SUFFICES ASSUME "stale" \notin spoilt' PROVE TransitInv' /\ Before' /\ After' /\ Reading' /\ Done'
  BY DEF Framed
<1>1. /\ Unmoved /\ UNCHANGED <<fn, current, header, answer, spoilt>> /\ pc = "body"
  BY DEF WaitForBody, buffers, me, history, Unmoved
<1>2. Reading
  BY <1>1, FramedParts
<1>3. fn = "receive" /\ header.length > 0 /\ header.length \in Nat
  BY <1>1, HostTypes DEF ExchangeInv, HostInv
<1>4. /\ MeSilent' /\ Coming' = Coming /\ This' = This /\ Answer' = Answer /\ toHost' = toHost
      /\ performed' = performed
  BY <1>1, <1>2, EmptyKept DEF Reading, Unmoved
<1>5. TransitInv'
  BY <1>1, <1>2, <1>4, SilentTransit DEF Reading
<1>6. CASE HasBody(header) /\ pc' = "copy"
  <2>1. Dwords(header.length) > 0 /\ Dwords(header.length) <= Len(toHost) /\ Dwords(header.length) \in Nat
    BY <1>3, <1>6, DwordsType, BufferTypes DEF HasBody, ExchangeInv
  <2>2. Coming # <<>>
    <3>1. toHost # <<>>
      BY <2>1
    <3> QED
      BY <3>1, ComingProps DEF ExchangeInv
  <2>3. \E n \in Nat \ {0}, id \in Ids :
          <<header>> \o Coming = Stream(id, n) /\ (spoilt = {} => id = This /\ current + n = Answer)
    BY <1>1, <1>2, <2>2 DEF Reading
  <2>4. spoilt = {} => answer \subseteq {This} /\ performed > 0
    BY <1>1, <1>2 DEF Reading
  <2>5. Reading'
    BY <1>1, <1>4, <1>6, <2>1, <2>3, <2>4 DEF Reading
  <2>6. Before' /\ After' /\ Done'
    BY <1>1, <1>3, <1>6, NotBetween, NotDone DEF Retrying, ResetPcs
  <2> QED
    BY <1>5, <2>5, <2>6
<1>7. CASE pc' = "attempt" /\ status' = "timeout"
  BY <1>1, <1>3, <1>5, <1>7, NotBetween, NotDone, NoReading DEF Retrying, ResetPcs, Answered
<1> QED
  BY <1>6, <1>7 DEF WaitForBody, Goto, AttemptEnds

\* The host takes the body of a packet with header h, d dwords, from the front of
\* the buffer s.
Bears(s, t, h, c, d) ==
  /\ s \in Seq(Slots) /\ t \in Seq(Slots) /\ h \in Slots /\ c \in Seq(Slots)
  /\ d \in Nat /\ d = Dwords(h.length) /\ d > 0 /\ d <= Len(s)
  /\ s \o t = Bodies(h) \o c

LEMMA BodyTaken ==
  ASSUME NEW s, NEW t, NEW h, NEW c, NEW d, Bears(s, t, h, c, d)
  PROVE  /\ SubSeq(s, d + 1, Len(s)) \o t = c
         /\ {s[i].id : i \in 1 .. d} = {h.id}
<1>1. Bodies(h) \in Seq(Slots) /\ Len(Bodies(h)) = d
  BY BodiesProps DEF Bears
<1>2. /\ SubSeq(s, d + 1, Len(s)) \o t = c
      /\ \A i \in 1 .. d : s[i] = Bodies(h)[i]
  <2> DEFINE b == Bodies(h)
  <2>1. b \in Seq(Slots) /\ Len(b) = d /\ Len(b) <= Len(s) /\ s \o t = b \o c
    BY <1>1 DEF Bears
  <2> HIDE DEF b
  <2>2. /\ SubSeq(s, Len(b) + 1, Len(s)) \o t = c
        /\ \A i \in 1 .. Len(b) : s[i] = b[i]
    <3>1. s \in Seq(Slots) /\ t \in Seq(Slots) /\ c \in Seq(Slots)
      BY DEF Bears
    <3> QED
      BY <2>1, <3>1, DropPrefix
  <2>3. /\ SubSeq(s, d + 1, Len(s)) \o t = c
        /\ \A i \in 1 .. d : s[i] = b[i]
    BY <2>1, <2>2
  <2> QED
    BY <2>3 DEF b
<1>3. ASSUME NEW i \in 1 .. d PROVE s[i].id = h.id
  <2>1. Bodies(h)[i] = Body(h.id)
    BY <1>1, BodiesProps DEF Bears
  <2> QED
    BY <1>2, <2>1 DEF Body
<1>4. 1 \in 1 .. d
  BY DEF Bears
<1> QED
  BY <1>2, <1>3, <1>4

LEMMA CopyBodyFramed == ASSUME ExchangeInv, CopyBody PROVE Framed'
<1> SUFFICES ASSUME "stale" \notin spoilt' PROVE TransitInv' /\ Before' /\ After' /\ Reading' /\ Done'
  BY DEF Framed
<1> DEFINE d == Dwords(header.length)
           n == Least(d, Len(toHost))
<1>1. /\ UNCHANGED <<registers, toMe, partial, job, out, performed, command, spoilt>>
      /\ UNCHANGED <<fn, current, header>> /\ pc = "copy" /\ pc' = "copied"
      /\ toHost' = SubSeq(toHost, n + 1, Len(toHost))
      /\ answer' = answer \cup {toHost[i].id : i \in 1 .. n}
                          \cup (IF n < d THEN {Garbage} ELSE {})
  BY DEF CopyBody, me, history, Goto
<1>2. Reading
  BY <1>1 DEF ExchangeInv, Framed
<1>3. /\ fn = "receive" /\ header.length > 0 /\ header.length \in Nat /\ header \in Slots
      /\ current \in Nat
  BY <1>1, HostTypes DEF ExchangeInv, HostInv
<1>4. d \in Nat /\ d > 0
  BY <1>3, DwordsType
<1> HIDE DEF d
<1>5. MeSilent' /\ This' = This /\ Answer' = Answer /\ (meRdy' <=> meRdy)
  BY <1>1, <1>2 DEF Reading, MeSilent, This, Answer, registers
<1>6. spoilt = {} => performed > 0 /\ answer \subseteq {This}
  BY <1>1, <1>2 DEF Reading
<1>7. TransitInv'
  BY <1>1, <1>5, <1>6, SilentTransit
<1>8. Before' /\ After' /\ Done'
  BY <1>1, <1>3, NotBetween, NotDone DEF Retrying, ResetPcs
<1>9. CASE ~meRdy
  <2>1. Reading'
    BY <1>1, <1>5, <1>6, <1>9 DEF Reading
  <2> QED
    BY <1>7, <1>8, <2>1
<1>10. CASE meRdy
  <2>1. PICK m \in Nat \ {0}, id \in Ids :
          /\ <<header>> \o Coming = Stream(id, m)
          /\ spoilt = {} => id = This /\ current + m = Answer
          /\ d <= Len(toHost)
    BY <1>1, <1>2, <1>10 DEF Reading, d
  <2>2. Coming \in Seq(Slots) /\ toHost \in Seq(Slots) /\ out \in Seq(Slots) /\ Len(toHost) \in Nat
    <3>1. Coming \in Seq(Slots) /\ toHost \in Seq(Slots) /\ out \in Seq(Slots)
      BY ComingProps DEF ExchangeInv
    <3> QED
      BY <3>1
  <2>3. n = d /\ ~(n < d)
    BY <1>4, <2>1, <2>2 DEF Least
  <2> HIDE DEF n
  <2>4. PICK h \in Slots, c \in Seq(Slots) :
          /\ h.id = id
          /\ Stream(id, m) = <<h>> \o (Bodies(h) \o c)
          /\ \/ h.complete /\ m <= Most /\ h.length = m /\ c = <<>>
             \/ /\ ~h.complete /\ h.length = Most
                /\ m - Most \in Nat \ {0} /\ c = Stream(id, m - Most)
    <3>1. m \in Nat
      BY <2>1
    <3>2. \E h \in Slots, c \in Seq(Slots) :
            /\ h.header /\ h.id = id
            /\ Stream(id, m) = <<h>> \o (Bodies(h) \o c)
            /\ \/ h.complete /\ m <= Most /\ h.length = m /\ c = <<>>
               \/ /\ ~h.complete /\ h.length = Most
                  /\ m - Most \in Nat \ {0} /\ c = Stream(id, m - Most)
      BY <3>1, StreamCut
    <3> QED
      BY <3>2, Zenon
  <2> DEFINE b == Bodies(h) \o c
  <2>5. b \in Seq(Slots) /\ <<header>> \o Coming = <<h>> \o b
    <3>1. Bodies(h) \in Seq(Slots)
      BY <2>4, BodiesProps
    <3> QED
      BY <2>1, <2>4, <3>1, ConcatProperties
  <2> HIDE DEF b
  <2>6. header = h /\ Coming = b
    BY <1>3, <2>2, <2>4, <2>5, SameHead
  <2>7. Coming' = c /\ answer' = answer \cup {id}
    <3>1. toHost \o out = Bodies(header) \o c
      BY <2>6 DEF Coming, b
    <3>2. d = Dwords(header.length)
      BY DEF d
    <3>3. /\ SubSeq(toHost, d + 1, Len(toHost)) \o out = c
          /\ {toHost[i].id : i \in 1 .. d} = {header.id}
      <4>1. Bears(toHost, out, header, c, d)
        BY <1>3, <1>4, <2>1, <2>2, <3>1, <3>2 DEF Bears
      <4> QED
        BY <4>1, BodyTaken
    <3>4. Coming' = c
      BY <1>1, <2>3, <3>3 DEF Coming
    <3>5. answer' = answer \cup {id}
      BY <1>1, <2>3, <2>4, <2>6, <3>3
    <3> QED
      BY <3>4, <3>5
  <2>8. current' = current /\ header' = header /\ Most \in Nat
    BY <1>1, MostType
  <2>9. spoilt' = {} => answer' = {This'} /\ id = This' /\ current' + m = Answer'
    BY <1>1, <1>5, <1>6, <2>1, <2>7
  <2>10. ASSUME h.complete /\ m <= Most /\ h.length = m /\ c = <<>> PROVE Reading'
    BY <1>1, <1>5, <1>6, <2>6, <2>7, <2>8, <2>9, <2>10 DEF Reading
  <2>11. ASSUME /\ ~h.complete /\ h.length = Most
                /\ m - Most \in Nat \ {0} /\ c = Stream(id, m - Most)
         PROVE Reading'
    <3> DEFINE k == m - Most
    <3>1. k \in Nat \ {0} /\ current' + header'.length + k = current' + m
      BY <1>3, <2>1, <2>6, <2>8, <2>11
    <3>2. Coming' = Stream(id, k)
      BY <2>7, <2>11
    <3> HIDE DEF k
    <3>3. spoilt' = {} => answer' = {This'} /\ id = This' /\ current' + header'.length + k = Answer'
      BY <2>9, <3>1
    <3> QED
      BY <1>1, <1>5, <1>6, <2>1, <2>6, <2>8, <2>11, <3>1, <3>2, <3>3 DEF Reading
  <2>12. Reading'
    BY <2>4, <2>10, <2>11
  <2> QED
    BY <1>7, <1>8, <2>12
<1> QED
  BY <1>9, <1>10

LEMMA PacketReadFramed == ASSUME ExchangeInv, PacketRead PROVE Framed'
<1> SUFFICES ASSUME "stale" \notin spoilt' PROVE TransitInv' /\ Before' /\ After' /\ Reading' /\ Done'
  BY DEF Framed
<1>1. /\ Unmoved /\ UNCHANGED <<registers, fn, header, answer, spoilt, call>> /\ pc = "copied"
  BY DEF PacketRead, buffers, me, history, Unmoved
<1>2. Reading
  BY <1>1, FramedParts
<1>3. /\ fn = "receive" /\ header.length > 0 /\ header.length \in Nat /\ current \in Nat
      /\ answer # {} /\ call.recLength \in Nat
  <2>1. call \in [service : Services \cup {"none"}, recLength : Nat]
    BY DEF ExchangeInv, SafeInv, TypeOK
  <2> QED
    BY <1>1, <2>1, HostTypes DEF ExchangeInv, HostInv
<1>4. /\ MeSilent' /\ MeSilent /\ Coming' = Coming /\ This' = This /\ Answer' = Answer
      /\ performed' = performed
  BY <1>1, <1>2, EmptyKept DEF Reading, Unmoved
<1>5. spoilt = {} => performed > 0
  BY <1>1, <1>2 DEF Reading
<1>6. TransitInv'
  BY <1>1, <1>4, <1>5, SilentTransit
<1>7. CASE ~meRdy
  <2>1. pc' = "attempt" /\ status' = "deviceError"
    BY <1>7 DEF PacketRead, AttemptEnds
  <2> QED
    BY <1>1, <1>3, <1>6, <2>1, NotBetween, NotDone, NoReading DEF Retrying, ResetPcs, Answered
<1>8. CASE meRdy /\ header.complete
  <2>1. Coming = <<>> /\ (spoilt = {} => answer = {This} /\ current + header.length = Answer)
    BY <1>1, <1>2, <1>8 DEF Reading
  <2>2. pc' = "attempt"
    BY <1>8 DEF PacketRead, AttemptEnds
  <2>3. status' = "success" /\ call.recLength > 0 => current' = current + header.length
    BY <1>3, <1>8 DEF PacketRead, AttemptEnds, Space
  <2>4. Empty'
    <3>1. Coming' = <<>>
      BY <1>4, <2>1
    <3>2. toHost' = <<>> /\ out' = <<>>
      <4>1. toHost = <<>> /\ out = <<>>
        BY <2>1, ComingProps DEF ExchangeInv
      <4> QED
        BY <1>1, <4>1 DEF Unmoved
    <3> QED
      BY <1>4, <3>2 DEF Empty, MeIdle, MeSilent
  <2>5. Done'
    BY <1>1, <1>4, <1>5, <2>1, <2>2, <2>3, <2>4 DEF Done, Retrying, ResetPcs
  <2> QED
    BY <1>1, <1>3, <1>6, <2>2, <2>5, NotBetween, NoReading
<1>9. CASE meRdy /\ ~header.complete
  <2>1. PICK n \in Nat \ {0}, id \in Ids :
          /\ Coming = Stream(id, n)
          /\ spoilt = {} => answer = {This} /\ id = This /\ current + header.length + n = Answer
    BY <1>1, <1>2, <1>9 DEF Reading
  <2>2. pc' = "read" /\ current' = current + header.length /\ current' > 0
    BY <1>3, <1>9 DEF PacketRead, Goto
  <2>3. spoilt' = {} => id = This' /\ current' + n = Answer'
    BY <1>1, <1>4, <2>1, <2>2
  <2>4. spoilt' = {} => answer' \subseteq {This'} /\ performed' > 0
    BY <1>1, <1>4, <1>5, <2>1
  <2>5. Reading'
    BY <1>4, <2>1, <2>2, <2>3, <2>4 DEF Reading
  <2> QED
    BY <1>1, <1>3, <1>6, <2>2, <2>5, NotBetween, NotDone DEF Retrying, ResetPcs
<1> QED
  BY <1>7, <1>8, <1>9

-----------------------------------------------------------------------------
(***************************************************************************)
(* Steps of the ME and of the interface                                    *)
(***************************************************************************)
LEMMA HostStill ==
  ASSUME UNCHANGED <<host, command>>
  PROVE  /\ BeginsSend' <=> BeginsSend
         /\ SomeSent' <=> SomeSent
         /\ AllSent' \/ Awaits' <=> AllSent \/ Awaits
         /\ Retrying' <=> Retrying
         /\ Sent' = Sent /\ This' = This /\ Request' = Request /\ Answer' = Answer
         /\ UNCHANGED <<pc, fn, call, current, header, status, answer, message>>
BY DEF BeginsSend, SomeSent, AllSent, Awaits, Retrying, ResetPcs, Sent, This, Request, Answer,
       Starting, Waiting, Writing, host

\* A flush that hits a request of which something has been written tears it.
LEMMA FlushTears == ASSUME ExchangeInv, SomeSent, Sent # 0 PROVE Torn
<1>1. fn = "send" /\ (pc = "packet" \/ Writing) /\ Sent # Request
  BY DEF SomeSent
<1>2. pc # "idle" /\ pc # "attempt"
  BY <1>1 DEF Writing, Waiting, ResetPcs
<1>3. ~(pc \in ResetPcs /\ resetRet = "retry")
  BY <1>1 DEF Writing, Waiting, ResetPcs
<1>4. current \in Nat /\ header.length \in Nat /\ Request \in Nat
  BY <1>2, HostTypes, LastType DEF ExchangeInv, Request, This
<1>5. current > 0 \/ pc = "written"
  BY <1>4 DEF Sent
<1>6. Rest > 0
  <2>1. CASE Writing
    BY <2>1 DEF ExchangeInv, SendInv
  <2>2. CASE pc = "packet"
    BY <1>1, <1>4, <2>2 DEF ExchangeInv, SendInv, Cut, Sent, Rest, Request
  <2> QED
    BY <1>1, <2>1, <2>2
<1> QED
  BY <1>1, <1>2, <1>3, <1>5, <1>6 DEF Torn, ResetPcs

LEMMA FlushFramed ==
  ASSUME ExchangeInv, Flush, UNCHANGED <<host, command, performed>>
  PROVE  Framed'
<1> SUFFICES ASSUME "stale" \notin spoilt' PROVE TransitInv' /\ Before' /\ After' /\ Reading' /\ Done'
  BY DEF Framed
<1>1. /\ Empty' /\ MeSilent' /\ MeIdle' /\ Coming' = <<>> /\ toMe' = <<>> /\ partial' = Nothing
      /\ ~job'.live
  <2>1. toMe' = <<>> /\ toHost' = <<>> /\ out' = <<>> /\ partial' = Nothing /\ job' = NoJob
    BY DEF Flush, Clear
  <2>2. Coming' = <<>>
    BY <2>1 DEF Coming
  <2> QED
    BY <2>1, <2>2 DEF Empty, MeSilent, MeIdle, NoJob
<1>2. ~meRdy' /\ ~hRdy'
  BY DEF Flush
<1>3. Torn => spoilt' # {}
  BY DEF Flush
<1>4. Begun => Framed /\ TransitInv /\ Reading /\ Done /\ (spoilt' = {} => spoilt = {})
  BY DEF Flush, ExchangeInv, Framed
<1>5. TransitInv'
  BY <1>1 DEF TransitInv, Nothing
<1>6. Before'
  <2>1. Nothing.bytes = 0 /\ 0 + 0 = 0
    BY DEF Nothing
  <2>2. SomeSent /\ Sent # 0 => spoilt' # {}
    BY <1>3, FlushTears
  <2>3. (BeginsSend' => Empty') /\ (toMe' # <<>> => ~First'.complete)
    BY <1>1
  <2> QED
    BY <1>1, <2>1, <2>2, <2>3, HostStill DEF Before
<1>7. After'
  BY <1>1 DEF After
<1>8. Reading'
  <2>1. pc \in {"body", "copy", "copied"} => Begun
    BY DEF ExchangeInv, HostInv, Begun
  <2>2. pc \in {"read", "body", "copy", "copied"} /\ answer # {} => Begun
    BY DEF ExchangeInv, HostInv, Begun
  <2>3. pc \in {"read", "body", "copy"} /\ spoilt' = {} =>
           answer' \subseteq {This'} /\ (answer' # {} \/ pc' # "read" => performed' > 0)
    BY <1>4, <2>1, <2>2, HostStill DEF Reading
  <2>4. pc = "copied" /\ spoilt' = {} => performed' > 0
    BY <1>4, <2>1 DEF Reading
  <2> QED
    BY <1>1, <1>2, <2>3, <2>4, HostStill DEF Reading
<1>9. Done'
  <2>1. pc = "attempt" /\ status \in Answered => Begun
    BY DEF ExchangeInv, HostInv, Begun
  <2>2. pc = "attempt" /\ status \in Answered /\ spoilt' = {} =>
           /\ answer' = {This'} /\ performed' > 0
           /\ status = "success" /\ call.recLength > 0 => current' = Answer'
    BY <1>4, <2>1, HostStill DEF Done
  <2> QED
    BY <1>1, <1>2, <2>2, HostStill DEF Done
<1> QED
  BY <1>5, <1>6, <1>7, <1>8, <1>9

LEMMA MeResetsFramed == ASSUME ExchangeInv, MeResets PROVE Framed'
BY FlushFramed DEF MeResets

LEMMA MeSeesResetFramed == ASSUME ExchangeInv, MeSeesReset PROVE Framed'
BY FlushFramed DEF MeSeesReset

LEMMA MeReadyFramed == ASSUME ExchangeInv, MeReady PROVE Framed'
<1> SUFFICES ASSUME "stale" \notin spoilt' PROVE TransitInv' /\ Before' /\ After' /\ Reading' /\ Done'
  BY DEF Framed
<1>1. /\ UNCHANGED <<hRdy, partial, job, out, spoilt, performed, host, command>>
      /\ ~meRdy /\ pc \notin {"copy", "copied", "written"}
      /\ toMe' = <<>> /\ toHost' = <<>>
  BY DEF MeReady, Clear, me, history
<1>2. TransitInv /\ Before /\ After /\ Reading /\ Done
  BY <1>1 DEF ExchangeInv, Framed
<1>3. MeIdle /\ partial = Nothing
  BY <1>1 DEF ExchangeInv, RegistersInv
<1>4. Empty' /\ MeSilent' /\ MeIdle' /\ Coming' = <<>> /\ ~job'.live /\ partial' = Nothing
  <2>1. out' = <<>> /\ ~job'.live /\ toHost' = <<>> /\ toMe' = <<>> /\ partial' = Nothing
    BY <1>1, <1>3 DEF MeIdle
  <2>2. Coming' = <<>>
    BY <2>1 DEF Coming
  <2> QED
    BY <2>1, <2>2 DEF Empty, MeSilent, MeIdle
<1>5. TransitInv'
  BY <1>1, <1>4 DEF TransitInv, Nothing
<1>6. Before'
  <2>1. SomeSent => toMe = <<>>
    BY <1>1, <1>2 DEF SomeSent, TransitInv, Writing, Waiting, ResetPcs
  <2> QED
    BY <1>1, <1>2, <1>4, <2>1, HostStill DEF Before
<1>7. After'
  BY <1>4, <1>1 DEF After
<1>8. Reading'
  <2>1. pc \in {"read", "body", "copy"} /\ spoilt = {} =>
          answer \subseteq {This} /\ (answer # {} \/ pc # "read" => performed > 0)
    BY <1>2 DEF Reading
  <2> QED
    BY <1>1, <1>4, <2>1, HostStill DEF Reading
<1>9. Done'
  BY <1>1, <1>2, <1>4, HostStill DEF Done
<1> QED
  BY <1>5, <1>6, <1>7, <1>8, <1>9

\* While the ME has something to do the host waits for it or has still to send.
LEMMA MeAtWork ==
  ASSUME ExchangeInv, "stale" \notin spoilt, toMe # <<>> \/ job.live \/ Coming # <<>>
  PROVE  /\ TransitInv /\ Before /\ After /\ Reading /\ Done
         /\ ~BeginsSend
         /\ pc # "idle"
         /\ pc = "attempt" => status \notin Answered
         /\ Retrying => ~(pc = "resetStarted" /\ ~hRdy) /\ pc \notin {"meReady", "isSignalled", "enableHost"}
<1>1. TransitInv /\ Before /\ After /\ Reading /\ Done
  BY DEF ExchangeInv, Framed
<1>2. ~Empty
  BY ComingProps DEF Empty, ExchangeInv
<1> QED
  BY <1>1, <1>2 DEF Before, Done

LEMMA MeStepNotDone ==
  ASSUME UNCHANGED <<host, command, hRdy>>, pc # "idle", pc = "attempt" => status \notin Answered,
         Retrying => ~(pc = "resetStarted" /\ ~hRdy) /\ pc \notin {"meReady", "isSignalled", "enableHost"}
  PROVE  Done'
BY HostStill DEF Done

\* The ME takes the one packet there is.
LEMMA TakesFirst ==
  ASSUME ExchangeInv, MeTakes, "stale" \notin spoilt
  PROVE  /\ First.length \in Nat /\ toMe # <<>> /\ toMe' = <<>>
         /\ IF First.complete
            THEN /\ partial' = Nothing /\ job'.live
                 /\ spoilt = {} => job'.id = This
            ELSE /\ job' = job
                 /\ partial'.bytes = partial.bytes + First.length
                 /\ spoilt = {} => partial'.ids \subseteq {This}
<1> DEFINE d == Dwords(First.length)
           got == [ids |-> partial.ids \cup {toMe[i].id : i \in 1 .. d + 1},
                   bytes |-> partial.bytes + First.length]
           intact(i) == got.ids = {i} /\ got.bytes = ReqLength[command[i]]
<1>1. /\ toMe # <<>> /\ toMe' = SubSeq(toMe, d + 2, Len(toMe))
      /\ IF First.complete
         THEN /\ job' = [id |-> IF \E i \in 1 .. This : intact(i)
                                THEN CHOOSE i \in got.ids : TRUE ELSE Garbage,
                         live |-> TRUE]
              /\ partial' = Nothing
         ELSE partial' = got /\ UNCHANGED job
  BY DEF MeTakes, First
<1>2. TransitInv
  BY DEF ExchangeInv, Framed
<1>3. First \in Slots /\ First.length \in Nat /\ d \in Nat
  <2>1. First \in Slots
    BY <1>1, BufferTypes, HeadTailProperties DEF First, ExchangeInv
  <2> QED
    BY <2>1, DwordsType DEF Slots
<1>4. toMe = Packet(First)
  BY <1>1, <1>2 DEF TransitInv
<1>5. Len(toMe) = d + 1 /\ \A i \in 1 .. d + 1 : toMe[i].id = First.id
  <2>1. Len(Packet(First)) = d + 1 /\ Packet(First)[1] = First
        /\ \A i \in 2 .. Len(Packet(First)) : Packet(First)[i] = Body(First.id)
    BY <1>3, PacketProps
  <2>2. Body(First.id).id = First.id
    BY DEF Body
  <2> HIDE DEF d
  <2>3. ASSUME NEW i \in 1 .. d + 1 PROVE toMe[i].id = First.id
    <3>1. CASE i = 1
      BY <1>4, <2>1, <3>1
    <3>2. CASE i # 1
      <4>1. i \in 2 .. Len(Packet(First))
        BY <1>3, <2>1, <2>3, <3>2
      <4> QED
        BY <1>4, <2>1, <2>2, <4>1, Zenon
    <3> QED
      BY <3>1, <3>2
  <2> QED
    BY <1>4, <2>1, <2>3
<1>6. toMe' = <<>>
  <2>1. toMe \in Seq(Slots) /\ d + 1 \in 0 .. Len(toMe) /\ d + 2 = (d + 1) + 1
    BY <1>3, <1>5, BufferTypes DEF ExchangeInv
  <2>2. SubSeq(toMe, d + 2, Len(toMe)) \in Seq(Slots) /\ Len(SubSeq(toMe, d + 2, Len(toMe))) = 0
    <3> HIDE DEF d
    <3>1. SubSeq(toMe, (d + 1) + 1, Len(toMe)) \in Seq(Slots)
          /\ Len(SubSeq(toMe, (d + 1) + 1, Len(toMe))) = Len(toMe) - (d + 1)
      BY <2>1, Dropped, Zenon
    <3>2. Len(toMe) - (d + 1) = 0
      BY <1>3, <1>5
    <3> QED
      BY <2>1, <3>1, <3>2, Zenon
  <2> HIDE DEF d
  <2> QED
    BY <1>1, <2>2, EmptySeq
<1>7. {toMe[i].id : i \in 1 .. d + 1} = {First.id}
  <2> HIDE DEF d
  <2>1. 1 \in 1 .. d + 1
    BY <1>3
  <2> QED
    BY <1>5, <2>1
<1> HIDE DEF d
<1>8. got.ids = partial.ids \cup {First.id} /\ got.bytes = partial.bytes + First.length
  BY <1>7
<1>9. spoilt = {} => /\ First.id = This /\ partial.ids \subseteq {This}
                     /\ First.complete => partial.bytes + First.length = Request
  BY <1>1, <1>2 DEF TransitInv
<1> HIDE DEF got
<1>10. CASE First.complete
  <2>1. partial' = Nothing /\ job'.live
    BY <1>1, <1>10
  <2>2. ASSUME spoilt = {} PROVE job'.id = This
    <3>1. got.ids = {This} /\ got.bytes = ReqLength[command[This]]
      BY <1>8, <1>9, <1>10, <2>2 DEF Request
    <3>2. This \in 1 .. This
      <4>1. This # 0 /\ This \in Nat
        BY <1>1, ThisType DEF ExchangeInv, HostInv
      <4> HIDE DEF This
      <4> QED
        BY <4>1
    <3>3. (CHOOSE i \in got.ids : TRUE) = This
      BY <3>1
    <3>4. job' = [id |-> This, live |-> TRUE]
      BY <1>1, <1>10, <3>1, <3>2, <3>3, Zenon
    <3> QED
      BY <3>4
  <2> QED
    BY <1>1, <1>3, <1>6, <1>10, <2>1, <2>2
<1>11. CASE ~First.complete
  BY <1>1, <1>3, <1>6, <1>8, <1>9, <1>11
<1> QED
  BY <1>10, <1>11

LEMMA MeTakesFramed == ASSUME ExchangeInv, MeTakes PROVE Framed'
<1> SUFFICES ASSUME "stale" \notin spoilt' PROVE TransitInv' /\ Before' /\ After' /\ Reading' /\ Done'
  BY DEF Framed
<1>1. UNCHANGED <<registers, toHost, out, host, command, performed, spoilt>> /\ toMe # <<>>
  BY DEF MeTakes, history
<1>2. "stale" \notin spoilt
  BY <1>1
<1>3. /\ First.length \in Nat /\ toMe' = <<>>
      /\ IF First.complete
         THEN /\ partial' = Nothing /\ job'.live
              /\ spoilt = {} => job'.id = This
         ELSE /\ job' = job
              /\ partial'.bytes = partial.bytes + First.length
              /\ spoilt = {} => partial'.ids \subseteq {This}
  BY <1>2, TakesFirst
<1>4. /\ TransitInv /\ Before /\ After /\ Reading /\ ~BeginsSend /\ pc # "idle"
      /\ pc = "attempt" => status \notin Answered
      /\ Retrying => ~(pc = "resetStarted" /\ ~hRdy) /\ pc \notin {"meReady", "isSignalled", "enableHost"}
  BY <1>1, <1>2, MeAtWork
<1>5. MeIdle /\ Coming = <<>> /\ Coming' = <<>> /\ toHost' = <<>> /\ out' = <<>>
  <2>1. MeIdle
    BY <1>1, <1>4 DEF TransitInv
  <2>2. Coming = <<>> /\ Coming' = Coming
    BY <1>1, <2>1, ComingProps DEF ExchangeInv, Coming
  <2> QED
    BY <1>1, <2>1, <2>2 DEF MeIdle
<1>6. Nothing.ids = {} /\ (spoilt = {} => partial.ids \subseteq {This})
  BY <1>4 DEF Nothing, TransitInv
<1>7. TransitInv'
  <2>1. partial' # Nothing => ~First.complete
    BY <1>3
  <2>2. ~First.complete => MeIdle'
    BY <1>3, <1>5 DEF MeIdle
  <2>3. spoilt = {} => partial'.ids \subseteq {This}
    BY <1>3, <1>6
  <2>4. spoilt = {} /\ job'.live => job'.id = This
    BY <1>3, <1>5 DEF MeIdle
  <2> QED
    BY <1>1, <1>3, <1>5, <2>1, <2>2, <2>3, <2>4, HostStill DEF TransitInv
<1>8. Before'
  <2>1. ASSUME SomeSent PROVE ~First.complete /\ MeIdle'
    BY <1>1, <1>3, <1>4, <1>5, <2>1 DEF Before, MeIdle
  <2>2. SomeSent /\ spoilt = {} => partial.bytes + First.length = Sent
    BY <1>1, <1>4 DEF Before
  <2>3. partial'.bytes = partial.bytes + First.length => partial'.bytes \in Nat /\ partial'.bytes + 0 = partial'.bytes
    <3>1. partial \in [ids : SUBSET Ids, bytes : Nat]
      BY DEF ExchangeInv, SafeInv, TypeOK
    <3> QED
      BY <1>3, <3>1
  <2>4. SomeSent /\ spoilt = {} => partial'.bytes + 0 = Sent
    BY <1>3, <2>1, <2>2, <2>3
  <2>5. (BeginsSend' <=> BeginsSend) /\ (SomeSent' <=> SomeSent) /\ Sent' = Sent /\ spoilt' = spoilt
    BY <1>1, HostStill
  <2> QED
    BY <1>3, <1>4, <2>1, <2>4, <2>5 DEF Before
<1>9. After'
  <2>1. AllSent \/ Awaits => First.complete
    BY <1>1, <1>4 DEF After
  <2> QED
    BY <1>1, <1>3, <1>5, <2>1, HostStill DEF After
<1>10. Reading'
  <2>1. ~MeSilent
    BY <1>1 DEF MeSilent
  <2>2. /\ ~(pc = "read" /\ current > 0) /\ pc \notin {"body", "copy", "copied"}
        /\ pc \in {"read", "body", "copy"} /\ spoilt = {} =>
             answer \subseteq {This} /\ (answer # {} \/ pc # "read" => performed > 0)
    BY <1>4, <2>1 DEF Reading
  <2> QED
    BY <1>1, <2>2, HostStill DEF Reading
<1>11. Done'
  BY <1>1, <1>4, MeStepNotDone DEF registers
<1> QED
  BY <1>7, <1>8, <1>9, <1>10, <1>11

\* The ME ends its job, and has an answer to write or has none.
LEMMA JobEnds ==
  ASSUME ExchangeInv, job.live, job' = NoJob, "stale" \notin spoilt, performed > 0 => performed' > 0,
         UNCHANGED <<registers, buffers, partial, host, command, spoilt>>,
         Coming' # <<>> =>
           /\ spoilt = {} => performed' > 0
           /\ \E n \in Nat, id \in Ids : Coming' = Stream(id, n) /\ (spoilt = {} => id = This /\ n = Answer)
  PROVE  TransitInv' /\ Before' /\ After' /\ Reading' /\ Done'
<1>1. /\ TransitInv /\ Before /\ After /\ Reading /\ ~BeginsSend /\ pc # "idle"
      /\ pc = "attempt" => status \notin Answered
      /\ Retrying => ~(pc = "resetStarted" /\ ~hRdy) /\ pc \notin {"meReady", "isSignalled", "enableHost"}
  BY MeAtWork
<1>2. toMe = <<>> /\ partial = Nothing /\ ~MeIdle /\ ~MeSilent
  BY <1>1 DEF TransitInv, MeIdle, MeSilent
<1>3. toMe' = <<>> /\ partial' = Nothing /\ ~job'.live /\ Nothing.ids = {}
  BY <1>2 DEF buffers, NoJob, Nothing
<1>4. TransitInv'
  BY <1>3 DEF TransitInv
<1>5. Before'
  BY <1>1, <1>2, HostStill DEF Before
<1>6. After'
  BY <1>3, HostStill DEF After
<1>7. Reading'
  <2>1. /\ ~(pc = "read" /\ current > 0) /\ pc \notin {"body", "copy", "copied"}
        /\ pc \in {"read", "body", "copy"} /\ spoilt = {} =>
             answer \subseteq {This} /\ (answer # {} \/ pc # "read" => performed > 0)
    BY <1>1, <1>2 DEF Reading
  <2> QED
    BY <2>1, HostStill DEF Reading
<1>8. Done'
  BY <1>1, MeStepNotDone DEF registers
<1> QED
  BY <1>4, <1>5, <1>6, <1>7, <1>8

LEMMA MePerformsFramed == ASSUME ExchangeInv, MePerforms PROVE Framed'
<1> SUFFICES ASSUME "stale" \notin spoilt' PROVE TransitInv' /\ Before' /\ After' /\ Reading' /\ Done'
  BY DEF Framed
<1>1. /\ job.live /\ job' = NoJob /\ out' = AnswerTo(job.id)
      /\ performed' = IF job.id = This THEN performed + 1 ELSE performed
      /\ UNCHANGED <<registers, buffers, partial, host, command, spoilt>>
  BY DEF MePerforms
<1>2. TransitInv /\ toHost = <<>>
  <2>1. TransitInv
    BY <1>1 DEF ExchangeInv, Framed
  <2> QED
    BY <1>1, <2>1, ComingProps DEF TransitInv, ExchangeInv
<1>3. spoilt = {} => job.id = This
  BY <1>1, <1>2 DEF TransitInv
<1>4. performed' > 0 \/ job.id # This
  BY <1>1, HostTypes DEF ExchangeInv
<1>5. performed > 0 => performed' > 0
  BY <1>1, HostTypes DEF ExchangeInv
<1>6. This \in Nat \ {0} /\ job.id \in 0 .. This /\ job.id \in Ids
  <2>1. This # 0 /\ job.id \in Ids /\ job.id <= This /\ This \in Nat
    BY <1>1, ThisType DEF ExchangeInv, HostInv, SafeInv, TypeOK, Called
  <2> HIDE DEF This
  <2> QED
    BY <2>1 DEF Ids
<1>7. Coming' = AnswerTo(job.id)
  <2>1. AnswerTo(job.id) \in Seq(Slots)
    BY <1>6, AnswerToType DEF ExchangeInv
  <2>2. toHost' = <<>>
    BY <1>1, <1>2 DEF buffers
  <2> QED
    BY <1>1, <2>1, <2>2, ConcatEmptySeq DEF Coming
<1> DEFINE n == IF job.id = Garbage THEN 4 ELSE AckLength[command[job.id]]
<1>8. n \in Nat
  <2>1. job.id # 0 => job.id \in 1 .. Len(command)
    BY <1>6 DEF This
  <2>2. command \in Seq(Commands) /\ AckLength \in [Commands -> Nat]
    BY ThisType, HeciAssumption DEF ExchangeInv
  <2> QED
    BY <2>1, <2>2 DEF Garbage
<1>9. Coming' = Stream(job.id, n) /\ (spoilt = {} => n = Answer)
  BY <1>3, <1>6, <1>7, Zenon DEF AnswerTo, Answer, Garbage
<1> HIDE DEF n
<1>10. \E m \in Nat, id \in Ids :
         Coming' = Stream(id, m) /\ (spoilt = {} => id = This /\ m = Answer)
  BY <1>3, <1>6, <1>8, <1>9
<1>11. "stale" \notin spoilt
  BY <1>1
<1> QED
  BY <1>1, <1>3, <1>4, <1>5, <1>10, <1>11, JobEnds

LEMMA MeIgnoresFramed == ASSUME ExchangeInv, MeIgnores PROVE Framed'
<1> SUFFICES ASSUME "stale" \notin spoilt' PROVE TransitInv' /\ Before' /\ After' /\ Reading' /\ Done'
  BY DEF Framed
<1>1. /\ job.live /\ job' = NoJob /\ performed' = performed
      /\ UNCHANGED <<registers, buffers, partial, host, command, spoilt, out, toHost>>
  BY DEF MeIgnores, history, buffers
<1>2. TransitInv
  BY <1>1 DEF ExchangeInv, Framed
<1>3. Coming' = <<>>
  BY <1>1, <1>2 DEF TransitInv, Coming
<1> QED
  BY <1>1, <1>3, JobEnds

LEMMA MeWritesFramed == ASSUME ExchangeInv, MeWrites PROVE Framed'
<1> SUFFICES ASSUME "stale" \notin spoilt' PROVE TransitInv' /\ Before' /\ After' /\ Reading' /\ Done'
  BY DEF Framed
<1>1. /\ meRdy /\ hRdy /\ out # <<>>
      /\ toHost' = Append(toHost, Head(out)) /\ out' = Tail(out)
      /\ UNCHANGED <<registers, toMe, partial, job, host, command, performed, spoilt>>
  BY DEF MeWrites, history
<1>2. Coming' = Coming /\ Coming # <<>> /\ ~MeIdle
  <2>1. toHost \in Seq(Slots) /\ out \in Seq(Slots)
    BY BufferTypes DEF ExchangeInv
  <2>2. Coming' = Coming
    BY <1>1, <2>1, Moved DEF Coming
  <2> QED
    BY <1>1, <2>2, ComingProps DEF ExchangeInv, MeIdle
<1>3. /\ TransitInv /\ Before /\ After /\ Reading /\ ~BeginsSend /\ pc # "idle"
      /\ pc = "attempt" => status \notin Answered
      /\ Retrying => ~(pc = "resetStarted" /\ ~hRdy) /\ pc \notin {"meReady", "isSignalled", "enableHost"}
  BY <1>1, <1>2, MeAtWork
<1>4. toMe = <<>> /\ partial = Nothing /\ ~job.live /\ Nothing.ids = {}
  BY <1>2, <1>3 DEF TransitInv, Nothing
<1>5. UNCHANGED <<toMe, partial, job, performed, spoilt, meRdy>>
  BY <1>1 DEF registers
<1>6. TransitInv'
  BY <1>2, <1>3, <1>4, <1>5 DEF TransitInv
<1>7. Before'
  BY <1>1, <1>2, <1>3, HostStill DEF Before
<1>8. After'
  BY <1>1, <1>2, <1>3, <1>4, <1>5, HostStill DEF After
<1>9. Reading'
  <2>1. Len(toHost) \in Nat /\ Len(toHost') = Len(toHost) + 1 /\ Dwords(header.length) \in Nat
    <3>1. toHost \in Seq(Slots) /\ Head(out) \in Slots /\ header.length \in Nat
      BY <1>1, BufferTypes, HostTypes, HeadTailProperties DEF ExchangeInv
    <3>2. Len(Append(toHost, Head(out))) = Len(toHost) + 1 /\ Len(toHost) \in Nat
      BY <3>1
    <3>3. Dwords(header.length) \in Nat
      BY <3>1, DwordsType
    <3> QED
      BY <1>1, <3>2, <3>3, Zenon
  <2>2. Dwords(header.length) <= Len(toHost) => Dwords(header.length) <= Len(toHost')
    BY <2>1
  <2>3. MeSilent' <=> MeSilent
    BY <1>5 DEF MeSilent
  <2>4. /\ UNCHANGED <<pc, current, header, answer, meRdy, performed, spoilt>>
        /\ This' = This /\ Answer' = Answer /\ Dwords(header.length)' = Dwords(header.length)
    BY <1>1, <1>5, HostStill
  <2> QED
    BY <1>2, <1>3, <2>2, <2>3, <2>4 DEF Reading
<1>10. Done'
  BY <1>1, <1>3, MeStepNotDone DEF registers
<1> QED
  BY <1>6, <1>7, <1>8, <1>9, <1>10

-----------------------------------------------------------------------------
(***************************************************************************)
(* The invariant of the exchange                                           *)
(***************************************************************************)
LEMMA InitFramed == Init => Framed
<1> SUFFICES ASSUME Init PROVE TransitInv /\ Before /\ After /\ Reading /\ Done
  BY DEF Framed
<1>1. /\ toMe = <<>> /\ toHost = <<>> /\ out = <<>> /\ partial = Nothing /\ ~job.live
      /\ pc = "idle" /\ fn = "send"
  BY DEF Init, NoJob
<1>2. Coming = <<>>
  BY <1>1 DEF Coming
<1>3. Empty
  BY <1>1 DEF Empty, MeIdle
<1> QED
  BY <1>1, <1>2, <1>3 DEF TransitInv, Before, After, Reading, Done, Nothing, BeginsSend, SomeSent,
     AllSent, Awaits, Starting, Writing, Waiting, Retrying, ResetPcs

LEMMA StutterFramed == ASSUME ExchangeInv, UNCHANGED vars PROVE Framed'
<1> SUFFICES ASSUME "stale" \notin spoilt' PROVE TransitInv' /\ Before' /\ After' /\ Reading' /\ Done'
  BY DEF Framed
<1>1. /\ Unmoved /\ UNCHANGED <<host, command, registers, spoilt>>
  BY DEF vars, buffers, me, history, Unmoved
<1>2. TransitInv /\ Before /\ After /\ Reading /\ Done
  BY <1>1, FramedParts
<1>3. TransitInv'
  BY <1>1, <1>2, TransitKept DEF TransitInv, registers, host
<1>4. Before' /\ After'
  BY <1>1, <1>2, HostStill, BeforeKept, AfterKept
<1>5. Reading'
  BY <1>1, <1>2, HostStill, EmptyKept DEF Reading, Unmoved, registers
<1>6. Done'
  BY <1>1, <1>2, HostStill, EmptyKept DEF Done, Unmoved, registers
<1> QED
  BY <1>3, <1>4, <1>5, <1>6

LEMMA NextFramed == ASSUME ExchangeInv, [Next]_vars PROVE Framed'
<1>1. CASE HostStep
  BY <1>1, HeadsFramed, WaitForMEReadyFramed, NextPacketFramed, HeciPacketWriteFramed,
     PacketWrittenFramed, ReadHeaderFramed, WaitForBodyFramed, CopyBodyFramed, PacketReadFramed,
     EndAttemptFramed, AssertResetFramed, ResetTimesOutFramed, ResetAdvancesFramed,
     ResetEndsFramed, Zenon DEF HostStep, Heads
<1>2. CASE MeStep
  BY <1>2, MeResetsFramed, MeSeesResetFramed, MeReadyFramed, MeTakesFramed, MePerformsFramed,
     MeIgnoresFramed, MeWritesFramed, Zenon DEF MeStep
<1> QED
  BY <1>1, <1>2, CallFramed, StutterFramed, Zenon DEF Next

LEMMA InitExchange == Init => ExchangeInv
BY InitSafe, InitRegisters, InitHost, InitSend, InitFramed DEF ExchangeInv

LEMMA NextExchange == ExchangeInv /\ [Next]_vars => ExchangeInv'
<1> SUFFICES ASSUME ExchangeInv, [Next]_vars PROVE ExchangeInv'
  OBVIOUS
<1>1. SafeInv /\ RegistersInv /\ HostInv /\ SendInv /\ CutInv
  BY DEF ExchangeInv
<1>2. SafeInv'
  BY <1>1, NextSafe
<1>3. RegistersInv' /\ HostInv' /\ SendInv' /\ CutInv'
  BY <1>1, NextRegisters, NextHost, NextSend, NextCut
<1>4. Framed'
  BY NextFramed
<1> QED
  BY <1>2, <1>3, <1>4 DEF ExchangeInv

\* The whole invariant of the exchange between HeciSend, HeciReceive and the
\* firmware holds, for requests and answers of any length. What it says of dwords on
\* their way it says while nothing is left of an earlier attempt, or of a request that
\* HeciSend has cut in two (HeciCore.c:1106).
THEOREM AlwaysExchange == Spec => []ExchangeInv
<1>1. ExchangeInv /\ [Next]_vars => ExchangeInv'
  BY NextExchange
<1> QED
  BY <1>1, InitExchange, PTL DEF Spec

\* An exchange that nothing has spoilt goes through Framed.
LEMMA NothingSpoilt == ASSUME ExchangeInv, spoilt = {} PROVE TransitInv /\ Done
BY DEF ExchangeInv, Framed

LEMMA ExchangeIntact == ExchangeInv => CommandIntact /\ AnswerWhole
<1> SUFFICES ASSUME ExchangeInv PROVE CommandIntact /\ AnswerWhole
  OBVIOUS
<1>1. job.live => This # 0
  BY DEF ExchangeInv, HostInv
<1>2. CommandIntact
  BY <1>1, NothingSpoilt DEF CommandIntact, TransitInv, Garbage
<1>3. AnswerWhole
  BY NothingSpoilt DEF AnswerWhole, Done, Answer, Answered
<1> QED
  BY <1>2, <1>3

\* The ME gets a request as the caller wrote it or something named in spoilt has
\* spoilt it, for commands of any length: HeciSend cuts it into packets and
\* HeciPacketWrite writes each of them into the room it has waited for. A length one
\* byte above a number of full packets is such a spoiler (HeciCore.c:1106).
THEOREM RequestsIntact == Spec => []CommandIntact
BY AlwaysExchange, ExchangeIntact, PTL

\* EFI_SUCCESS of HeciReceive is the whole answer, however many packets it takes,
\* and that of the command which was sent.
THEOREM AnswersWhole == Spec => []AnswerWhole
BY AlwaysExchange, ExchangeIntact, PTL

\* The caller sees nothing but what spoils the exchange.
LEMMA ServiceStill ==
  ASSUME UNCHANGED <<command, performed, result>>, pc' = "idle" <=> pc = "idle"
  PROVE  [Service!Next]_(Service!vars)
<1>1. CASE spoilt' = {} <=> spoilt = {}
  BY <1>1 DEF Service!vars
<1>2. CASE ~(spoilt' = {} <=> spoilt = {})
  BY <1>2 DEF Service!Next, Service!Change
<1> QED
  BY <1>1, <1>2

LEMMA CallIssues == ASSUME ExchangeInv, Call PROVE Service!Issue
<1>1. /\ pc = "idle" /\ pc' = "begin" /\ Len(command) < MaxCalls /\ performed' = 0
      /\ result' = result /\ \E c \in Commands : command' = Append(command, c)
  BY DEF Call, Goto
<1>2. Len(command') = Len(command) + 1
  BY <1>1, ThisType DEF ExchangeInv
<1>3. ~(performed' > 0)
  BY <1>1
<1> QED
  BY <1>1, <1>2, <1>3 DEF Service!Issue

\* A call returns the answer of an attempt that has one, or an error.
LEMMA ReturnServes ==
  ASSUME ExchangeInv, pc = "attempt", Return(status), spoilt' = Leftover,
         UNCHANGED <<command, performed>>
  PROVE  Service!Next
<1>1. pc' = "idle" /\ result' = [status |-> status, answer |-> answer] /\ status \in Statuses
  BY HostTypes DEF Return, Goto, ExchangeInv
<1>2. CASE status \in Answered
  <2>1. spoilt' = spoilt
    BY <1>2 DEF Leftover, Answered
  <2>2. spoilt = {} => performed > 0 /\ answer = {Len(command)}
    BY <1>2, NothingSpoilt DEF Done, This
  <2> QED
    BY <1>1, <1>2, <2>1, <2>2 DEF Service!Next, Service!Succeed, Service!Answered, Answered
<1>3. CASE status \notin Answered
  <2>1. result'.status \in Service!Failures
    BY <1>1, <1>3 DEF Service!Failures, Statuses, Answered
  <2> QED
    BY <1>1, <2>1 DEF Service!Next, Service!Fail
<1> QED
  BY <1>2, <1>3

LEMMA EndAttemptServes == ASSUME ExchangeInv, EndAttempt PROVE [Service!Next]_(Service!vars)
<1>1. pc = "attempt" /\ UNCHANGED <<command, performed>>
  BY DEF EndAttempt
<1>2. CASE Return(status) /\ spoilt' = Leftover
  BY <1>1, <1>2, ReturnServes
<1>3. CASE pc' # "idle" /\ result' = result
  BY <1>1, <1>3, ServiceStill
<1>4. \/ Return(status) /\ spoilt' = Leftover
      \/ pc' # "idle" /\ result' = result
  BY DEF EndAttempt, SendAgain, Goto
<1> QED
  BY <1>2, <1>3, <1>4

LEMMA ResetTimesOutServes ==
  ASSUME ExchangeInv, ResetTimesOut PROVE [Service!Next]_(Service!vars)
<1>1. pc # "idle" /\ UNCHANGED <<command, performed>>
  BY DEF ResetTimesOut
<1>2. CASE Return("timeout")
  BY <1>1, <1>2 DEF Return, Goto, Service!Next, Service!Fail, Service!Failures
<1>3. CASE AfterWait(FALSE) /\ result' = result
  BY <1>1, <1>3, ServiceStill DEF AfterWait, AttemptEnds, Goto
<1> QED
  BY <1>2, <1>3 DEF ResetTimesOut

LEMMA MePerformsServes == ASSUME ExchangeInv, MePerforms PROVE [Service!Next]_(Service!vars)
<1>1. /\ job.live /\ performed' = (IF job.id = This THEN performed + 1 ELSE performed)
      /\ UNCHANGED <<pc, command, spoilt, result>> /\ performed \in Nat
  BY HostTypes DEF MePerforms, host, ExchangeInv
<1>2. Len(command) > 0
  BY <1>1, ThisType DEF ExchangeInv, HostInv, This
<1>3. CASE job.id = This
  <2>1. performed' > 0
    BY <1>1, <1>3
  <2> QED
    BY <1>1, <1>2, <2>1 DEF Service!Next, Service!Perform
<1>4. CASE job.id # This
  BY <1>1, <1>4, ServiceStill
<1> QED
  BY <1>3, <1>4

LEMMA OthersStill ==
  ASSUME ExchangeInv,
         \/ CheckForHeciReset \/ HeciInitialize \/ SetHostReady \/ WaitForMEReady
         \/ NextPacket \/ HeciPacketWrite \/ PacketWritten
         \/ ReadHeader \/ WaitForBody \/ CopyBody \/ PacketRead
         \/ AssertReset \/ ResetAdvances \/ ResetEnds
         \/ MeResets \/ MeSeesReset \/ MeReady \/ MeTakes \/ MeIgnores \/ MeWrites
  PROVE  [Service!Next]_(Service!vars)
<1>1. CASE MeResets \/ MeSeesReset \/ MeReady \/ MeTakes \/ MeIgnores \/ MeWrites
  BY <1>1, ServiceStill DEF MeResets, MeSeesReset, MeReady, MeTakes, MeIgnores, MeWrites, host, history
<1>2. CASE CheckForHeciReset \/ HeciInitialize \/ SetHostReady \/ WaitForMEReady
  BY <1>2, ServiceStill
     DEF CheckForHeciReset, HeciInitialize, SetHostReady, WaitForMEReady, WaitFrom, Goto, AfterWait,
         AttemptEnds, history
<1>3. CASE NextPacket \/ HeciPacketWrite \/ PacketWritten
  BY <1>3, ServiceStill
     DEF NextPacket, HeciPacketWrite, PacketWritten, WaitFrom, Goto, AttemptEnds, history
<1>4. CASE ReadHeader
  <2>1. pc = "read" /\ UNCHANGED <<command, performed, result>>
    BY <1>4 DEF ReadHeader, history
  <2>2. pc' # "idle"
    BY <1>4, ReadHeaderCases DEF ExchangeInv
  <2> QED
    BY <2>1, <2>2, ServiceStill
<1>5. CASE WaitForBody \/ CopyBody \/ PacketRead
  BY <1>5, ServiceStill DEF WaitForBody, CopyBody, PacketRead, Goto, AttemptEnds, history
<1>6. CASE AssertReset \/ ResetAdvances \/ ResetEnds
  BY <1>6, ServiceStill
     DEF AssertReset, ResetAdvances, ResetEnds, Goto, AfterWait, SendAgain, AttemptEnds, history
<1> QED
  BY <1>1, <1>2, <1>3, <1>4, <1>5, <1>6

\* HeciSendwAck and HeciSendwAckWithRetry do what their comments promise, but for
\* that they return, which is liveness: every step is one of HeciService or none
\* of its caller's business.
THEOREM ServesCallers == Spec => Service!Init /\ [][Service!Next]_(Service!vars)
<1>1. Init => Service!Init
  <2> SUFFICES ASSUME Init PROVE Service!Init
    OBVIOUS
  <2>1. Len(command) = 0 /\ pc = "idle" /\ ~(performed > 0) /\ spoilt = {}
        /\ result = [status |-> "none", answer |-> {}]
    BY DEF Init
  <2> QED
    BY <2>1 DEF Service!Init, Service!NoResult
<1>2. ExchangeInv /\ [Next]_vars => [Service!Next]_(Service!vars)
  <2> SUFFICES ASSUME ExchangeInv, [Next]_vars PROVE [Service!Next]_(Service!vars)
    OBVIOUS
  <2>1. CASE Call
    BY <2>1, CallIssues DEF Service!Next
  <2>2. CASE HostStep
    BY <2>2, OthersStill, EndAttemptServes, ResetTimesOutServes, Zenon DEF HostStep
  <2>3. CASE MeStep
    BY <2>3, OthersStill, MePerformsServes, Zenon DEF MeStep
  <2>4. CASE UNCHANGED vars
    BY <2>4, ServiceStill DEF vars, host, history
  <2> QED
    BY <2>1, <2>2, <2>3, <2>4 DEF Next
<1> QED
  BY <1>1, <1>2, AlwaysExchange, PTL DEF Spec

===============================================================================
