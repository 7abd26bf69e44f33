----------------------------- MODULE TsSyncProofs -----------------------------
(* Theorems about TsSync, for every value of its constants.                *)
EXTENDS TsSync, SequenceTheorems, WellFoundedInduction, TLAPS

-----------------------------------------------------------------------------
(* Numbers *)

\* A set of natural numbers has a least member.
LEMMA Least ==
  ASSUME NEW T, T \subseteq Nat, T # {}
  PROVE  Min(T) \in T /\ \A m \in T : Min(T) <= m
<1>1. PICK n \in T : \A m \in T : <<m, n>> \notin OpToRel(<, Nat)
  BY NatLessThanWellFounded, WFMin
<1>2. \A m \in T : ~(m < n)
  BY <1>1, Zenon DEF OpToRel
<1>3. \E x \in T : \A y \in T : x <= y
  BY <1>2
<1> QED
  BY <1>3 DEF Min

\* The greater of 0 and n.
LEMMA Greater ==
  ASSUME NEW n \in Int
  PROVE  Max({0, n}) = IF n > 0 THEN n ELSE 0
<1>1. \E x \in {0, n} : \A y \in {0, n} : x >= y
  OBVIOUS
<1>2. Max({0, n}) \in {0, n} /\ \A y \in {0, n} : Max({0, n}) >= y
  BY <1>1 DEF Max
<1> QED
  BY <1>2

\* Division, as the provers need it.
LEMMA Quotient ==
  ASSUME NEW a \in Nat, NEW b \in Nat \ {0}
  PROVE  /\ a \div b \in Nat /\ a % b \in 0..(b - 1)
         /\ (a \div b) * b \in Nat /\ a = (a \div b) * b + (a % b)
OBVIOUS

\* Multiples of a number.
LEMMA Multiples ==
  ASSUME NEW i \in Nat, NEW j \in Nat, NEW b \in Nat
  PROVE  /\ i * b \in Nat /\ j * b \in Nat
         /\ i < j => i * b + b <= j * b
         /\ (i + j) * b = i * b + j * b
<1>1. i * b \in Nat /\ j * b \in Nat
  OBVIOUS
<1>2. i < j => i * b + b <= j * b
  OBVIOUS
<1>3. (i + j) * b = i * b + j * b
  OBVIOUS
<1> QED
  BY <1>1, <1>2, <1>3

\* A quotient and its remainder, from a sum.
LEMMA Divided ==
  ASSUME NEW q \in Nat, NEW b \in Nat \ {0}, NEW r \in 0..(b - 1), NEW a, a = q * b + r
  PROVE  a \div b = q /\ a % b = r
<1> DEFINE w == a \div b
           s == a % b
           wb == w * b
           qb == q * b
<1>1. a \in Nat /\ b \in Nat
  BY Multiples
<1>2. w \in Nat /\ s \in 0..(b - 1) /\ a = wb + s
  BY <1>1, Quotient
<1>3. wb \in Nat /\ qb \in Nat /\ (w < q => wb + b <= qb) /\ (q < w => qb + b <= wb)
  <2> HIDE DEF w
  <2> QED
    BY <1>1, <1>2, Multiples
<1>4. a = qb + r
  OBVIOUS
<1> HIDE DEF w, s, wb, qb
<1>5. w = q
  BY <1>1, <1>2, <1>3, <1>4
<1>6. wb = qb
  BY <1>5 DEF wb, qb
<1>7. s = r
  BY <1>1, <1>2, <1>3, <1>4, <1>6
<1> QED
  BY <1>5, <1>7 DEF w, s

\* A number may be reduced before one is added to it.
LEMMA Reduced ==
  ASSUME NEW x \in Nat, NEW y \in Nat, NEW b \in Nat \ {0}
  PROVE  /\ ((x % b) + y) % b = (x + y) % b
         /\ x \div b + ((x % b) + y) \div b = (x + y) \div b
<1> DEFINE q == x \div b
           r == x % b
           p == (r + y) \div b
           s == (r + y) % b
<1>1. q \in Nat /\ r \in 0..(b - 1) /\ q * b \in Nat /\ x = q * b + r
  BY Quotient
<1>2. r + y \in Nat
  BY <1>1
<1>3. p \in Nat /\ s \in 0..(b - 1) /\ p * b \in Nat /\ r + y = p * b + s
  <2> HIDE DEF r
  <2> QED
    BY <1>2, Quotient
<1> HIDE DEF q, r, p, s
<1>4. (q + p) * b = q * b + p * b
  BY <1>1, <1>3, Multiples
<1>5. x + y = (q + p) * b + s
  <2> DEFINE qb == q * b
             pb == p * b
             all == (q + p) * b
  <2>1. qb \in Nat /\ pb \in Nat /\ all = qb + pb /\ x = qb + r /\ r + y = pb + s
    BY <1>1, <1>3, <1>4
  <2>2. r \in Nat /\ s \in Nat
    BY <1>1, <1>3
  <2> HIDE DEF qb, pb, all
  <2>3. x + y = all + s
    BY <2>1, <2>2
  <2> QED
    BY <2>3 DEF all
<1>6. q + p \in Nat
  BY <1>1, <1>3
<1> DEFINE t == q + p
           z == x + y
<1>7. z = t * b + s
  BY <1>5
<1>8. z \div b = t /\ z % b = s
  <2> HIDE DEF t, z
  <2> QED
    BY <1>3, <1>6, <1>7, Divided DEF t
<1> QED
  BY <1>8 DEF q, r, p, s

-----------------------------------------------------------------------------
(* The constants *)

\* The sizes of a unit: none is zero, none smaller than a packet or larger than
\* the carry, and all but a size itself fall short of its double.
LEMMA Sizes ==
  /\ TS_PKTSIZE \in Nat \ {0} /\ SyncBufSize \in Nat
  /\ \A t \in 1..4 : /\ UnitSizes[t] \in Nat \ {0} /\ TS_PKTSIZE <= UnitSizes[t]
                     /\ UnitSizes[t] < SyncBufSize
  /\ SyncBufSize < 2 * TS_PKTSIZE
<1>1. \A t \in 1..4 : UnitSizes[t] \in Nat \ {0}
  BY UnitAssumption, ElementOfSeq
<1>2. /\ UnitSizes[1] < UnitSizes[2] /\ UnitSizes[2] < UnitSizes[3] /\ UnitSizes[3] < UnitSizes[4]
  <2>1. \A t \in 1..3 : UnitSizes[t] < UnitSizes[t + 1]
    BY UnitAssumption
  <2>2. 1 \in 1..3 /\ 2 \in 1..3 /\ 3 \in 1..3 /\ 1 + 1 = 2 /\ 2 + 1 = 3 /\ 3 + 1 = 4
    OBVIOUS
  <2> QED
    BY <2>1, <2>2
<1>3. /\ UnitSizes[1] \in Nat \ {0} /\ UnitSizes[2] \in Nat /\ UnitSizes[3] \in Nat /\ UnitSizes[4] \in Nat
  BY <1>1
<1>4. UnitSizes[4] < SyncBufSize /\ SyncBufSize < 2 * UnitSizes[1] /\ SyncBufSize \in Nat
  BY UnitAssumption
<1>5. \A t \in 1..4 : t = 1 \/ t = 2 \/ t = 3 \/ t = 4
  OBVIOUS
<1>6. \A t \in 1..4 : UnitSizes[1] <= UnitSizes[t] /\ UnitSizes[t] < SyncBufSize
  BY <1>2, <1>3, <1>4, <1>5
<1> QED
  BY <1>1, <1>4, <1>6 DEF TS_PKTSIZE

UnitKnown == unit \in {UnitSizes[t] : t \in 1..4}

LEMMA UnitIs ==
  ASSUME UnitKnown
  PROVE  unit \in Nat \ {0} /\ TS_PKTSIZE <= unit /\ unit < SyncBufSize
BY Sizes DEF UnitKnown

-----------------------------------------------------------------------------
(* The stream *)

\* The places behind a byte are bytes, and come one after the other.
LEMMA AfterIs ==
  ASSUME UnitKnown, NEW b \in AllBytes, NEW m \in Nat, NEW n \in Nat
  PROVE  /\ After(b, 0) = b /\ After(b, m) \in AllBytes
         /\ After(After(b, m), n) = After(b, m + n)
<1> DEFINE p == b[1]
           i == b[2]
           q == (i + m) \div unit
           r == (i + m) % unit
<1>1. unit \in Nat \ {0} /\ Wrap \in Nat \ {0}
  BY UnitIs, SizeAssumption
<1>2. /\ p \in 0..(Wrap - 1) /\ i \in 0..(unit - 1) /\ b = <<p, i>>
      /\ p \in Nat /\ i \in Nat /\ i + m \in Nat /\ p < Wrap /\ i < unit
  BY <1>1 DEF AllBytes
<1> HIDE DEF p, i
<1>3. After(b, 0) = b
  <2>1. (i + 0) \div unit = 0 /\ (i + 0) % unit = i /\ (p + 0) % Wrap = p
    BY <1>1, <1>2
  <2> QED
    BY <1>2, <2>1 DEF After, p, i
<1>4. q \in Nat /\ r \in 0..(unit - 1)
  BY <1>1, <1>2, Quotient
<1>5. After(b, m) = <<(p + q) % Wrap, r>>
  BY DEF After, p, i
<1> DEFINE e == (r + n) \div unit
           z == (r + n) % unit
<1>6. z = (i + m + n) % unit /\ q + e = (i + m + n) \div unit
  <2>1. /\ (((i + m) % unit) + n) % unit = ((i + m) + n) % unit
        /\ (i + m) \div unit + (((i + m) % unit) + n) \div unit = ((i + m) + n) \div unit
    BY <1>1, <1>2, Reduced
  <2> QED
    BY <2>1
<1>7. e \in Nat
  <2>1. r + n \in Nat
    BY <1>4
  <2> HIDE DEF r
  <2> QED
    BY <1>1, <2>1, Quotient
<1> HIDE DEF q, r
<1>8. (p + q) % Wrap \in 0..(Wrap - 1)
  <2>1. p + q \in Nat
    BY <1>2, <1>4
  <2> QED
    BY <1>1, <2>1, Quotient
<1>9. After(b, m) \in AllBytes
  BY <1>4, <1>5, <1>8 DEF AllBytes
<1>10. After(After(b, m), n) = <<(((p + q) % Wrap) + e) % Wrap, z>>
  BY <1>5 DEF After
<1>11. (((p + q) % Wrap) + e) % Wrap = (p + q + e) % Wrap
  <2>1. p + q \in Nat
    BY <1>2, <1>4
  <2> HIDE DEF e
  <2>2. (((p + q) % Wrap) + e) % Wrap = ((p + q) + e) % Wrap
    BY <1>1, <1>7, <2>1, Reduced
  <2> QED
    BY <2>2
<1>12. After(b, m + n) = <<(p + (i + m + n) \div unit) % Wrap, (i + m + n) % unit>>
  <2>1. i + (m + n) = i + m + n
    BY <1>2
  <2> QED
    BY <2>1 DEF After, p, i
<1>13. p + q + e = p + (i + m + n) \div unit
  <2> HIDE DEF e
  <2>1. p + q + e = p + (q + e)
    BY <1>2, <1>4, <1>7
  <2> QED
    BY <1>6, <2>1
<1>14. After(After(b, m), n) = After(b, m + n)
  BY <1>6, <1>10, <1>11, <1>12, <1>13
<1> QED
  BY <1>3, <1>9, <1>14

\* From the first byte of a packet on: the k-th packet behind it and its bytes.
LEMMA PacketAfter ==
  ASSUME UnitKnown, NEW p \in 0..(Wrap - 1), NEW k \in Nat, NEW i \in 0..(unit - 1), NEW n, n = k * unit + i
  PROVE  After(<<p, 0>>, n) = <<(p + k) % Wrap, i>>
<1>1. unit \in Nat \ {0}
  BY UnitIs
<1>2. n \div unit = k
  BY <1>1, Divided
<1>3. k * unit \in Nat
  BY <1>1, Multiples
<1>4. n \in Nat /\ 0 + n = n
  BY <1>1, <1>3
<1>5. n % unit = i
  <2>1. n = (n \div unit) * unit + (n % unit) /\ n % unit \in 0..(unit - 1)
    BY <1>1, <1>4, Quotient
  <2>2. n = k * unit + (n % unit)
    BY <1>2, <2>1
  <2> DEFINE e == k * unit
             r == n % unit
  <2>3. e \in Nat /\ n = e + r /\ n = e + i /\ r \in Nat /\ i \in Nat
    BY <1>1, <1>3, <2>1, <2>2
  <2> HIDE DEF e, r
  <2>4. r = i
    BY <2>3
  <2> QED
    BY <2>4 DEF r
<1> QED
  BY <1>2, <1>4, <1>5 DEF After

\* What is left of a line from an offset on.
LEMMA FromIs ==
  ASSUME NEW S, NEW line \in Seq(S), NEW off \in Nat, off <= Len(line)
  PROVE  /\ From(line, off) \in Seq(S) /\ Len(From(line, off)) = Len(line) - off
         /\ \A k \in 1..(Len(line) - off) : From(line, off)[k] = line[off + k]
<1> DEFINE n == Len(line)
           m == off + 1
           f == SubSeq(line, m, n)
<1>1. n \in Nat /\ m \in Nat \ {0} /\ From(line, off) = f
  BY LenProperties DEF From
<1>2. \A i \in m..n : line[i] \in S
  BY <1>1, ElementOfSeq
<1> HIDE DEF n, m
<1>3. /\ f \in Seq(S) /\ Len(f) = IF m <= n THEN n - m + 1 ELSE 0
      /\ \A i \in 1..(n - m + 1) : f[i] = line[m + i - 1]
  BY <1>1, <1>2, SubSeqProperties
<1>4. n - m + 1 = n - off /\ off <= n
  BY <1>1 DEF m, n
<1>5. \A i \in 1..(n - off) : m + i - 1 = off + i
  BY DEF m
<1>6. Len(f) = n - off
  BY <1>1, <1>3, <1>4
<1>7. \A k \in 1..(n - off) : f[k] = line[off + k]
  BY <1>3, <1>4, <1>5
<1> HIDE DEF f
<1> QED
  BY <1>1, <1>3, <1>6, <1>7 DEF n

\* The bytes from b on.
Contiguous(line, b) == \A k \in 1..Len(line) : line[k] = After(b, k - 1)

LEMMA BytesAre ==
  ASSUME UnitKnown, NEW b \in AllBytes, NEW n \in Nat
  PROVE  Bytes(b, n) \in Seq(AllBytes) /\ Len(Bytes(b, n)) = n /\ Contiguous(Bytes(b, n), b)
<1>1. \A k \in 1..n : After(b, k - 1) \in AllBytes
  <2> TAKE k \in 1..n
  <2>1. k - 1 \in Nat
    OBVIOUS
  <2> QED
    BY <2>1, AfterIs
<1>2. Bytes(b, n) \in [1..n -> AllBytes]
  BY <1>1 DEF Bytes
<1>3. Bytes(b, n) \in Seq(AllBytes) /\ Len(Bytes(b, n)) = n
  BY <1>2, IsASeq, LenProperties
<1>4. \A k \in 1..n : Bytes(b, n)[k] = After(b, k - 1)
  BY DEF Bytes
<1> QED
  BY <1>3, <1>4 DEF Contiguous

\* A line that runs on can be cut anywhere,
LEMMA CutOff ==
  ASSUME UnitKnown, NEW b \in AllBytes, NEW line \in Seq(AllBytes), Contiguous(line, b),
         NEW off \in Nat, off <= Len(line)
  PROVE  /\ Contiguous(From(line, off), After(b, off)) /\ After(b, off) \in AllBytes
         /\ After(After(b, off), Len(From(line, off))) = After(b, Len(line))
<1>1. /\ Len(From(line, off)) = Len(line) - off /\ Len(line) \in Nat
      /\ \A k \in 1..(Len(line) - off) : From(line, off)[k] = line[off + k]
  BY FromIs, LenProperties
<1>2. ASSUME NEW k \in 1..(Len(line) - off) PROVE From(line, off)[k] = After(After(b, off), k - 1)
  <2>1. off + k \in 1..Len(line) /\ k - 1 \in Nat /\ (off + k) - 1 = off + (k - 1)
    BY <1>1
  <2>2. line[off + k] = After(b, off + (k - 1))
    BY <2>1 DEF Contiguous
  <2>3. After(After(b, off), k - 1) = After(b, off + (k - 1))
    BY <2>1, AfterIs
  <2> QED
    BY <1>1, <2>2, <2>3
<1>3. Contiguous(From(line, off), After(b, off))
  BY <1>1, <1>2 DEF Contiguous
<1>4. Len(line) - off \in Nat /\ off + (Len(line) - off) = Len(line)
  BY <1>1
<1>5. After(After(b, off), Len(line) - off) = After(b, Len(line)) /\ After(b, off) \in AllBytes
  <2>1. After(After(b, off), Len(line) - off) = After(b, off + (Len(line) - off)) /\ After(b, off) \in AllBytes
    BY <1>4, AfterIs
  <2> QED
    BY <1>4, <2>1
<1> QED
  BY <1>1, <1>3, <1>5

\* and goes on with the bytes that come next.
LEMMA GoesOn ==
  ASSUME UnitKnown, NEW b \in AllBytes, NEW line \in Seq(AllBytes), Contiguous(line, b), NEW n \in Nat
  PROVE  LET next == After(b, Len(line))
             all == line \o Bytes(next, n)
         IN  Contiguous(all, b) /\ After(next, n) = After(b, Len(all))
<1> DEFINE m == Len(line)
           next == After(b, m)
           new == Bytes(next, n)
           all == line \o new
<1>1. m \in Nat /\ next \in AllBytes
  BY LenProperties, AfterIs
<1>2. new \in Seq(AllBytes) /\ Len(new) = n /\ Contiguous(new, next)
  BY <1>1, BytesAre
<1> HIDE DEF new, next
<1>3. /\ Len(all) = m + n
      /\ \A k \in 1..(m + n) : all[k] = IF k <= m THEN line[k] ELSE new[k - m]
  BY <1>2, ConcatProperties
<1>4. ASSUME NEW k \in 1..(m + n) PROVE all[k] = After(b, k - 1)
  <2>1. CASE k <= m
    <3>1. k \in 1..m
      BY <1>1, <2>1
    <3>2. line[k] = After(b, k - 1)
      BY <3>1 DEF Contiguous
    <3> QED
      BY <1>3, <2>1, <3>2
  <2>2. CASE ~(k <= m)
    <3>1. k - m \in 1..n /\ (k - m) - 1 \in Nat /\ m + ((k - m) - 1) = k - 1
      BY <1>1, <2>2
    <3>2. new[k - m] = After(next, (k - m) - 1)
      BY <1>2, <3>1 DEF Contiguous
    <3>3. After(next, (k - m) - 1) = After(b, m + ((k - m) - 1))
      BY <1>1, <3>1, AfterIs DEF next
    <3> QED
      BY <1>3, <2>2, <3>1, <3>2, <3>3
  <2> QED
    BY <2>1, <2>2
<1>5. After(next, n) = After(b, m + n)
  BY <1>1, AfterIs DEF next
<1> HIDE DEF all
<1>6. Contiguous(all, b) /\ After(next, n) = After(b, Len(all))
  BY <1>3, <1>4, <1>5 DEF Contiguous
<1> QED
  BY <1>6 DEF all, new, next

-----------------------------------------------------------------------------
(* The invariant *)

\* From a first byte on, nothing is missing on the line, and the stream goes on
\* behind it; in sync the line begins where a packet does, the one due next.
OnTrack(line, next, size, done) ==
  \E b \in AllBytes :
    /\ Contiguous(line, b) /\ next = After(b, Len(line))
    /\ size # 0 => /\ size = unit /\ b[2] = 0
                   /\ done # NoPacket => b[1] = (done + 1) % Wrap

\* Between calls nothing is left of a chunk.
Taken == pc # "call" => pSrc = << >>

\* As long as no byte is lost.
Unbroken == jumps = 0 /\ pc # "wild" => OnTrack(Line, cursor, m_dwUnitSize, last)
NoneYet == jumps = 0 /\ m_dwUnitSize = 0 => last = NoPacket

IInv == TypeOK /\ Taken /\ Unbroken /\ NoneYet

LEMMA TypesUse ==
  ASSUME TypeOK
  PROVE  /\ UnitKnown /\ unit \in Nat \ {0} /\ TS_PKTSIZE <= unit /\ unit < SyncBufSize
         /\ m_SyncBuf \in Seq(AllBytes) /\ pSrc \in Seq(AllBytes) /\ Line \in Seq(AllBytes)
         /\ Len(m_SyncBuf) \in Nat /\ Len(pSrc) \in Nat /\ Len(Line) = Len(m_SyncBuf) + Len(pSrc)
         /\ cursor \in AllBytes /\ g_TsPacketBufSize \in Nat \ {0}
         /\ m_dwUnitSize # 0 => m_dwUnitSize \in Nat \ {0} /\ TS_PKTSIZE <= m_dwUnitSize /\ m_dwUnitSize < SyncBufSize
         /\ m_dwUnitSize \in Nat /\ jumps \in Nat
<1>1. UnitKnown
  BY DEF TypeOK, UnitKnown
<1>2. m_SyncBuf \in Seq(AllBytes) /\ pSrc \in Seq(AllBytes)
  BY DEF TypeOK
<1>3. Line \in Seq(AllBytes) /\ Len(Line) = Len(m_SyncBuf) + Len(pSrc)
  BY <1>2, ConcatProperties DEF Line
<1>4. m_dwUnitSize = 0 \/ \E t \in 1..4 : m_dwUnitSize = UnitSizes[t]
  BY DEF TypeOK
<1>5. /\ m_dwUnitSize # 0 => m_dwUnitSize \in Nat \ {0} /\ TS_PKTSIZE <= m_dwUnitSize /\ m_dwUnitSize < SyncBufSize
      /\ m_dwUnitSize \in Nat
  BY <1>4, Sizes
<1>6. g_TsPacketBufSize \in Nat \ {0} /\ cursor \in AllBytes /\ jumps \in Nat
  BY SizeAssumption DEF TypeOK
<1> QED
  BY <1>1, <1>2, <1>3, <1>5, <1>6, UnitIs, LenProperties

\* The types of the variables a call works on, and of the others.
FieldTypes(chunk, carry, size, pos) ==
  /\ chunk \in Seq(AllBytes) /\ carry \in Seq(AllBytes) /\ Len(carry) <= SyncBufSize
  /\ size \in {UnitSizes[t] : t \in 1..4} \cup {0} /\ pos \in Nat

LEMMA TypesNext ==
  ASSUME TypeOK, UNCHANGED given, pc' \in {"idle", "call", "wild"}, cursor' \in AllBytes,
         FieldTypes(pSrc', m_SyncBuf', m_dwUnitSize', dwCheckStartPos'),
         out' \in Seq(Seq(AllBytes)), \A k \in 1..Len(out') : Len(out'[k]) = TS_PKTSIZE,
         jumps' \in 0..MaxJumps, last' \in NoPacket..(Wrap - 1)
  PROVE  TypeOK'
<1>1. unit' = unit /\ g_TsPacketBufSize' = g_TsPacketBufSize
  BY DEF given
<1>2. AllBytes' = AllBytes
  BY <1>1 DEF AllBytes
<1>3. unit' \in {UnitSizes[t] : t \in 1..4} /\ g_TsPacketBufSize' \in ChunkSizes
  BY <1>1 DEF TypeOK
<1> QED
  BY <1>2, <1>3 DEF TypeOK, FieldTypes

\* The empty sequence, as the provers need it.
LEMMA EmptyOut == << >> \in Seq(Seq(AllBytes)) /\ Len(<< >>) = 0 /\ << >> \in Seq(AllBytes)
OBVIOUS

LEMMA TypesInit == Init => TypeOK
<1> SUFFICES ASSUME Init PROVE TypeOK
  OBVIOUS
<1>1. unit \in {UnitSizes[t] : t \in 1..4}
  BY DEF Init
<1>2. unit \in Nat \ {0} /\ Wrap \in Nat \ {0} /\ MaxJumps \in Nat /\ SyncBufSize \in Nat
  BY <1>1, UnitIs, SizeAssumption, Sizes DEF UnitKnown
<1>3. cursor \in AllBytes
  <2>1. 0 \in 0..(Wrap - 1)
    BY <1>2
  <2> QED
    BY <2>1 DEF Init, AllBytes
<1>4. jumps \in 0..MaxJumps /\ last \in NoPacket..(Wrap - 1)
  BY <1>2 DEF Init, NoPacket
<1>5. pc \in {"idle", "call", "wild"} /\ g_TsPacketBufSize \in ChunkSizes /\ m_dwUnitSize = 0
  BY DEF Init
<1>6. pSrc = << >> /\ m_SyncBuf = << >> /\ out = << >> /\ dwCheckStartPos = 0
  BY DEF Init
<1>7. /\ pSrc \in Seq(AllBytes) /\ m_SyncBuf \in Seq(AllBytes) /\ Len(m_SyncBuf) <= SyncBufSize
      /\ out \in Seq(Seq(AllBytes)) /\ \A k \in 1..Len(out) : Len(out[k]) = TS_PKTSIZE
  BY <1>2, <1>6, EmptyOut
<1> QED
  BY <1>1, <1>3, <1>4, <1>5, <1>6, <1>7 DEF TypeOK

LEMMA InvInit == Init => IInv
<1> SUFFICES ASSUME Init PROVE IInv
  OBVIOUS
<1>1. TypeOK
  BY TypesInit
<1>2. UnitKnown /\ cursor \in AllBytes
  BY <1>1, TypesUse
<1>3. Line = << >> /\ Len(Line) = 0
  <2>1. m_SyncBuf = << >> /\ pSrc = << >> /\ << >> \o << >> = << >>
    BY DEF Init
  <2> QED
    BY <2>1, EmptyOut DEF Line
<1>4. Contiguous(Line, cursor) /\ cursor = After(cursor, Len(Line))
  BY <1>2, <1>3, AfterIs DEF Contiguous
<1>5. OnTrack(Line, cursor, m_dwUnitSize, last)
  BY <1>2, <1>4 DEF OnTrack, Init
<1> QED
  BY <1>1, <1>5 DEF IInv, Taken, Unbroken, NoneYet, Init

\* A chunk arrives.
LEMMA TypesCall ==
  ASSUME TypeOK, UNCHANGED <<given, fields, last>>, NEW bytes \in Seq(AllBytes), NEW next \in AllBytes,
         Call(bytes, next), jumps' \in 0..MaxJumps
  PROVE  TypeOK'
<1>1. pc' = "call" /\ pSrc' = bytes /\ cursor' = next /\ dwCheckStartPos' = 0 /\ out' = << >>
  BY DEF Call
<1>2. m_dwUnitSize' = m_dwUnitSize /\ m_SyncBuf' = m_SyncBuf /\ last' = last
  BY DEF fields
<1>3. FieldTypes(pSrc', m_SyncBuf', m_dwUnitSize', dwCheckStartPos')
  BY <1>1, <1>2 DEF TypeOK, FieldTypes
<1>4. out' \in Seq(Seq(AllBytes)) /\ \A k \in 1..Len(out') : Len(out'[k]) = TS_PKTSIZE
  BY <1>1, EmptyOut
<1>5. last' \in NoPacket..(Wrap - 1)
  BY <1>2 DEF TypeOK
<1> QED
  BY <1>1, <1>3, <1>4, <1>5, TypesNext

LEMMA TypesChunk ==
  ASSUME TypeOK, Chunk
  PROVE  TypeOK'
<1> DEFINE n == g_TsPacketBufSize
<1>1. UnitKnown /\ cursor \in AllBytes /\ n \in Nat /\ n \in Nat \ {0}
  BY TypesUse
<1>2. Bytes(cursor, n) \in Seq(AllBytes) /\ After(cursor, n) \in AllBytes
  BY <1>1, BytesAre, AfterIs
<1>3. Call(Bytes(cursor, n), After(cursor, n)) /\ UNCHANGED <<given, fields, last>> /\ jumps' = jumps
  BY DEF Chunk
<1>4. jumps' \in 0..MaxJumps
  BY <1>3 DEF TypeOK
<1> QED
  BY <1>2, <1>3, <1>4, TypesCall

LEMMA TypesGap ==
  ASSUME TypeOK, NEW k \in 0..g_TsPacketBufSize, ChunkWithGap(k)
  PROVE  TypeOK'
<1> DEFINE m == g_TsPacketBufSize
           n == m - k
           new(i) == <<(After(cursor, k)[1] + 1) % Wrap, i>>
<1>1. UnitKnown /\ cursor \in AllBytes /\ m \in Nat /\ Wrap \in Nat \ {0} /\ jumps \in Nat /\ MaxJumps \in Nat
  BY TypesUse, SizeAssumption
<1>2. k \in Nat /\ n \in Nat
  BY <1>1
<1>3. PICK i \in (0..(unit - 1)) \ {After(cursor, k)[2]} :
        Call(Bytes(cursor, k) \o Bytes(new(i), n), After(new(i), n))
  BY DEF ChunkWithGap
<1> DEFINE b == new(i)
<1> HIDE DEF n, m
<1>4. b \in AllBytes
  <2>1. After(cursor, k) \in AllBytes
    BY <1>1, <1>2, AfterIs
  <2>2. After(cursor, k)[1] \in 0..(Wrap - 1)
    BY <2>1 DEF AllBytes
  <2>3. After(cursor, k)[1] + 1 \in Nat
    BY <1>1, <2>2
  <2>4. (After(cursor, k)[1] + 1) % Wrap \in 0..(Wrap - 1)
    BY <1>1, <2>3, Quotient
  <2> QED
    BY <2>4 DEF AllBytes
<1> HIDE DEF b
<1>5. Bytes(cursor, k) \in Seq(AllBytes) /\ Bytes(b, n) \in Seq(AllBytes) /\ After(b, n) \in AllBytes
  BY <1>1, <1>2, <1>4, BytesAre, AfterIs
<1>6. Bytes(cursor, k) \o Bytes(b, n) \in Seq(AllBytes)
  BY <1>5, ConcatProperties
<1>7. Call(Bytes(cursor, k) \o Bytes(b, n), After(b, n))
  BY <1>3 DEF b
<1>8. UNCHANGED <<given, fields, last>> /\ jumps' \in 0..MaxJumps
  BY <1>1 DEF ChunkWithGap
<1> QED
  BY <1>5, <1>6, <1>7, <1>8, TypesCall

\* The line of a chunk that follows without a gap.
LEMMA InvChunk ==
  ASSUME IInv, Chunk
  PROVE  IInv'
<1> DEFINE n == g_TsPacketBufSize
<1>1. TypeOK /\ TypeOK' /\ pc' = "call" /\ unit' = unit /\ pc = "idle" /\ pSrc = << >>
  BY TypesChunk DEF IInv, Taken, Chunk, Call, given
<1>2. UnitKnown /\ cursor \in AllBytes /\ n \in Nat /\ m_SyncBuf \in Seq(AllBytes) /\ Line \in Seq(AllBytes)
  BY <1>1, TypesUse
<1>3. pSrc' = Bytes(cursor, n) /\ cursor' = After(cursor, n) /\ m_SyncBuf' = m_SyncBuf
  BY DEF Chunk, Call, fields
<1>4. m_dwUnitSize' = m_dwUnitSize /\ last' = last /\ jumps' = jumps
  BY DEF Chunk, Call, fields
<1>5. Line = m_SyncBuf
  BY <1>1, <1>2, ConcatEmptySeq DEF Line
<1>6. Line' = Line \o Bytes(cursor, n)
  BY <1>3, <1>5 DEF Line
<1>7. Unbroken'
  <2> SUFFICES ASSUME jumps' = 0 PROVE OnTrack(Line, cursor, m_dwUnitSize, last)'
    BY DEF Unbroken
  <2>1. PICK b \in AllBytes :
          /\ Contiguous(Line, b) /\ cursor = After(b, Len(Line))
          /\ m_dwUnitSize # 0 => /\ m_dwUnitSize = unit /\ b[2] = 0
                                 /\ last # NoPacket => b[1] = (last + 1) % Wrap
    BY <1>1, <1>4 DEF IInv, Unbroken, OnTrack
  <2>2. /\ Contiguous(Line \o Bytes(cursor, n), b)
        /\ After(cursor, n) = After(b, Len(Line \o Bytes(cursor, n)))
    BY <1>2, <2>1, GoesOn
  <2>3. Contiguous(Line', b) /\ cursor' = After(b, Len(Line'))
    BY <1>3, <1>6, <2>2
  <2>4. AllBytes' = AllBytes /\ \A k : After(b, k)' = After(b, k)
    BY <1>1 DEF AllBytes, After
  <2>5. Contiguous(Line, b)' /\ cursor' = After(b, Len(Line))'
    BY <2>3, <2>4 DEF Contiguous
  <2> QED
    BY <1>1, <1>4, <2>1, <2>4, <2>5 DEF OnTrack
<1>8. Taken' /\ NoneYet'
  BY <1>1, <1>4 DEF Taken, NoneYet, IInv
<1> QED
  BY <1>1, <1>7, <1>8 DEF IInv

-----------------------------------------------------------------------------
(* The steps in sync *)

\* The packets that are whole end before the line does, and less than one is left.
LEMMA WholeIs ==
  ASSUME TypeOK, m_dwUnitSize # 0, Whole \in Nat
  PROVE  /\ Whole * m_dwUnitSize \in Nat /\ Whole * m_dwUnitSize < Len(Line)
         /\ Len(Line) <= Whole * m_dwUnitSize + m_dwUnitSize
<1> DEFINE n == Len(Line)
           u == m_dwUnitSize
           a == n - 1
           w == a \div u
<1>1. n \in Nat /\ u \in Nat \ {0} /\ w \in Nat /\ Whole = w
  BY TypesUse DEF Whole
<1> HIDE DEF n, u
<1>2. n # 0
  <2> SUFFICES ASSUME n = 0 PROVE FALSE
    OBVIOUS
  <2>1. w = (-1) \div u
    OBVIOUS
  <2>2. (-1) \div u = -1
    BY <1>1
  <2> QED
    BY <1>1, <2>1, <2>2
<1>3. a \in Nat
  BY <1>1, <1>2
<1>4. w * u \in Nat /\ w * u <= a /\ a < w * u + u
  <2> DEFINE e == w * u
             r == a % u
  <2>1. e \in Nat /\ r \in 0..(u - 1) /\ a = e + r
    <3> HIDE DEF a
    <3> QED
      BY <1>1, <1>3, Quotient
  <2> HIDE DEF e, r, a
  <2>2. e \in Nat /\ e <= a /\ a < e + u
    BY <1>1, <2>1
  <2> QED
    BY <2>2 DEF e
<1> DEFINE e == w * u
<1>5. e \in Nat /\ e < n /\ n <= e + u
  <2>1. e \in Nat /\ e <= a /\ a < e + u
    BY <1>4
  <2> HIDE DEF e
  <2> QED
    BY <1>1, <2>1
<1> QED
  BY <1>1, <1>5 DEF n, u

\* A packet cut from a line.
LEMMA CutIs ==
  ASSUME NEW S, NEW line \in Seq(S), NEW off \in Nat, NEW n \in Nat \ {0}, off + n <= Len(line),
         NEW p, p = SubSeq(From(line, off), 1, n)
  PROVE  p \in Seq(S) /\ Len(p) = n /\ \A j \in 1..n : p[j] = line[off + j]
<1> DEFINE f == From(line, off)
           m == Len(line) - off
<1>1. Len(line) \in Nat /\ off <= Len(line) /\ m \in Nat /\ n <= m
  BY LenProperties
<1>2. f \in Seq(S) /\ Len(f) = m /\ \A k \in 1..m : f[k] = line[off + k]
  BY <1>1, FromIs
<1> HIDE DEF f, m
<1>3. \A i \in 1..n : f[i] \in S
  BY <1>1, <1>2, ElementOfSeq
<1>4. p = SubSeq(f, 1, n) /\ n \in Nat /\ 1 \in Nat /\ 1 <= n /\ n - 1 + 1 = n
  BY DEF f
<1>5. p \in Seq(S) /\ Len(p) = n /\ \A i \in 1..n : p[i] = f[i]
  <2>1. /\ SubSeq(f, 1, n) \in Seq(S)
        /\ Len(SubSeq(f, 1, n)) = IF 1 <= n THEN n - 1 + 1 ELSE 0
        /\ \A i \in 1..(n - 1 + 1) : SubSeq(f, 1, n)[i] = f[1 + i - 1]
    BY <1>3, <1>4, SubSeqProperties
  <2>2. \A i \in 1..n : 1 + i - 1 = i
    OBVIOUS
  <2> QED
    BY <1>4, <2>1, <2>2
<1> QED
  BY <1>1, <1>2, <1>5

\* The packets delivered.
LEMMA OutIs ==
  ASSUME TypeOK, SyncedPackets
  PROVE  /\ Whole \in Nat \ {0} /\ out' \in Seq(Seq(AllBytes)) /\ Len(out') = Whole
         /\ \A k \in 1..Whole :
              /\ (k - 1) * m_dwUnitSize \in Nat
              /\ (k - 1) * m_dwUnitSize + TS_PKTSIZE <= Len(Line)
              /\ Len(out'[k]) = TS_PKTSIZE
              /\ \A j \in 1..TS_PKTSIZE : out'[k][j] = Line[(k - 1) * m_dwUnitSize + j]
<1> DEFINE u == m_dwUnitSize
           P == TS_PKTSIZE
           w == Whole
           p(k) == SubSeq(From(Line, (k - 1) * u), 1, P)
<1>1. /\ u \in Nat \ {0} /\ P <= u /\ P \in Nat \ {0} /\ Line \in Seq(AllBytes) /\ Len(Line) \in Nat
      /\ Len(Line) - 1 \in Int
  <2>1. m_dwUnitSize # 0
    BY DEF SyncedPackets, InSync
  <2> QED
    BY <2>1, TypesUse, Sizes, LenProperties
<1>2. w \in Nat \ {0} /\ out' = [k \in 1..w |-> p(k)]
  <2>1. (Len(Line) - 1) \div u \in Int
    <3> DEFINE a == Len(Line) - 1
    <3>1. a \in Int
      BY <1>1
    <3> HIDE DEF a
    <3>2. a \div u \in Int
      BY <1>1, <3>1
    <3> QED
      BY <3>2 DEF a
  <2>2. w > 0 /\ out' = [k \in 1..w |-> p(k)]
    BY DEF SyncedPackets
  <2> QED
    BY <2>1, <2>2 DEF Whole
<1>3. w * u \in Nat /\ w * u < Len(Line)
  BY <1>1, <1>2, WholeIs
<1>4. ASSUME NEW k \in 1..w
      PROVE  /\ (k - 1) * u \in Nat /\ (k - 1) * u + P <= Len(Line)
             /\ p(k) \in Seq(AllBytes) /\ Len(p(k)) = P /\ \A j \in 1..P : p(k)[j] = Line[(k - 1) * u + j]
  <2> HIDE DEF w
  <2>1. k \in Nat /\ k - 1 \in Nat /\ k - 1 < w
    BY <1>2
  <2> DEFINE off == (k - 1) * u
             end == w * u
  <2>2. off \in Nat /\ off + u <= end
    <3> DEFINE i == k - 1
    <3>1. i \in Nat /\ i < w /\ w \in Nat /\ u \in Nat
      BY <1>1, <1>2, <2>1
    <3> HIDE DEF i
    <3>2. i * u \in Nat /\ i * u + u <= w * u
      BY <3>1, Multiples
    <3> QED
      BY <3>2 DEF i
  <2>3. end \in Nat /\ end < Len(Line)
    BY <1>3
  <2> HIDE DEF off, end, u
  <2>4. off + P <= Len(Line)
    BY <1>1, <2>2, <2>3
  <2>5. p(k) = SubSeq(From(Line, off), 1, P)
    BY DEF off
  <2>6. p(k) \in Seq(AllBytes) /\ Len(p(k)) = P /\ \A j \in 1..P : p(k)[j] = Line[off + j]
    <3> HIDE DEF p
    <3> QED
      BY <1>1, <2>2, <2>4, <2>5, CutIs
  <2> QED
    BY <2>2, <2>4, <2>6 DEF off
<1> HIDE DEF p, w
<1>5. out' \in [1..w -> Seq(AllBytes)]
  BY <1>2, <1>4
<1>6. out' \in Seq(Seq(AllBytes)) /\ Len(out') = w
  BY <1>2, <1>5, IsASeq, LenProperties
<1> QED
  BY <1>2, <1>4, <1>6 DEF w

LEMMA TypesStay ==
  ASSUME TypeOK, UNCHANGED <<given, cursor, jumps>>, pc' \in {"idle", "call", "wild"},
         FieldTypes(pSrc', m_SyncBuf', m_dwUnitSize', dwCheckStartPos'),
         out' = out, last' = last
  PROVE  TypeOK'
<1>1. /\ out' \in Seq(Seq(AllBytes)) /\ \A k \in 1..Len(out') : Len(out'[k]) = TS_PKTSIZE
      /\ jumps' \in 0..MaxJumps /\ last' \in NoPacket..(Wrap - 1) /\ cursor' \in AllBytes
  BY DEF TypeOK
<1> QED
  BY <1>1, TypesNext

LEMMA TypesLost ==
  ASSUME TypeOK, SyncLost
  PROVE  TypeOK'
<1>1. Broken \subseteq Nat /\ Broken # {}
  BY TypesUse DEF Broken, SyncLost
<1>2. Min(Broken) \in Nat
  BY <1>1, Least
<1>3. FieldTypes(pSrc', m_SyncBuf', m_dwUnitSize', dwCheckStartPos')
  BY <1>2 DEF SyncLost, FieldTypes, TypeOK
<1>4. UNCHANGED <<given, cursor, jumps>> /\ pc' \in {"idle", "call", "wild"} /\ out' = out /\ last' = last
  BY DEF SyncLost, TypeOK
<1> QED
  BY <1>3, <1>4, TypesStay

LEMMA TypesShort ==
  ASSUME TypeOK, SyncedShort
  PROVE  TypeOK'
<1>1. /\ m_dwUnitSize \in Nat \ {0} /\ m_dwUnitSize < SyncBufSize /\ SyncBufSize \in Nat
      /\ Line \in Seq(AllBytes) /\ Len(Line) \in Nat
  BY TypesUse, Sizes, LenProperties DEF SyncedShort, InSync
<1>2. Whole = 0
  BY DEF SyncedShort
<1>3. Len(Line) <= SyncBufSize
  <2>1. Len(Line) <= Whole * m_dwUnitSize + m_dwUnitSize
    BY <1>1, <1>2, WholeIs
  <2> QED
    BY <1>1, <1>2, <2>1
<1>4. FieldTypes(pSrc', m_SyncBuf', m_dwUnitSize', dwCheckStartPos')
  BY <1>1, <1>3, EmptyOut DEF SyncedShort, FieldTypes, TypeOK
<1>5. UNCHANGED <<given, cursor, jumps>> /\ pc' \in {"idle", "call", "wild"} /\ out' = out /\ last' = last
  BY DEF SyncedShort
<1> QED
  BY <1>4, <1>5, TypesStay

LEMMA TypesPackets ==
  ASSUME TypeOK, SyncedPackets
  PROVE  TypeOK'
<1> DEFINE u == m_dwUnitSize
           w == Whole
           e == w * u
<1>1. /\ u \in Nat \ {0} /\ u < SyncBufSize /\ SyncBufSize \in Nat /\ TS_PKTSIZE \in Nat \ {0}
      /\ Line \in Seq(AllBytes) /\ Len(Line) \in Nat
  BY TypesUse, Sizes, LenProperties DEF SyncedPackets, InSync
<1>2. /\ w \in Nat \ {0} /\ out' \in Seq(Seq(AllBytes)) /\ Len(out') = w
      /\ \A k \in 1..w : Len(out'[k]) = TS_PKTSIZE
  BY OutIs
<1>3. e \in Nat /\ e < Len(Line) /\ Len(Line) <= e + u
  BY <1>1, <1>2, WholeIs
<1>4. m_SyncBuf' = From(Line, e) /\ pSrc' = << >> /\ last' = out'[w][1][1]
  BY DEF SyncedPackets
<1> HIDE DEF e, w, u
<1>5. m_SyncBuf' \in Seq(AllBytes) /\ Len(m_SyncBuf') = Len(Line) - e
  BY <1>1, <1>3, <1>4, FromIs
<1>6. Len(m_SyncBuf') <= SyncBufSize
  BY <1>1, <1>3, <1>5
<1>7. FieldTypes(pSrc', m_SyncBuf', m_dwUnitSize', dwCheckStartPos')
  BY <1>4, <1>5, <1>6, EmptyOut DEF SyncedPackets, FieldTypes, TypeOK
<1>8. last' \in 0..(Wrap - 1)
  <2>1. w \in 1..Len(out') /\ 1 \in 1..TS_PKTSIZE
    BY <1>1, <1>2
  <2>2. out'[w] \in Seq(AllBytes) /\ Len(out'[w]) = TS_PKTSIZE
    BY <1>2, <2>1, ElementOfSeq
  <2>3. out'[w][1] \in AllBytes
    BY <2>1, <2>2, ElementOfSeq
  <2> QED
    BY <1>4, <2>3 DEF AllBytes
<1>9. last' \in NoPacket..(Wrap - 1)
  BY <1>8, SizeAssumption DEF NoPacket
<1>10. UNCHANGED given /\ pc' \in {"idle", "call", "wild"} /\ cursor' \in AllBytes /\ jumps' \in 0..MaxJumps
  BY DEF SyncedPackets, TypeOK
<1> QED
  BY <1>2, <1>7, <1>9, <1>10, TypesNext

LEMMA TypesOverrun ==
  ASSUME TypeOK, SyncedOverrun
  PROVE  TypeOK'
<1>1. FieldTypes(pSrc', m_SyncBuf', m_dwUnitSize', dwCheckStartPos')
  BY EmptyOut DEF SyncedOverrun, fields, FieldTypes, TypeOK
<1>2. out' \in Seq(Seq(AllBytes)) /\ \A k \in 1..Len(out') : Len(out'[k]) = TS_PKTSIZE
  BY EmptyOut DEF SyncedOverrun
<1>3. /\ UNCHANGED given /\ pc' \in {"idle", "call", "wild"} /\ cursor' \in AllBytes
      /\ jumps' \in 0..MaxJumps /\ last' \in NoPacket..(Wrap - 1)
  BY DEF SyncedOverrun, TypeOK
<1> QED
  BY <1>1, <1>2, <1>3, TypesNext

-----------------------------------------------------------------------------
(* The steps that resynchronise *)

\* Where sync is found, and with which unit.
LEMMA FoundIs ==
  ASSUME TypeOK, SyncFound
  PROVE  \E off \in Nat, t \in 1..4 :
           /\ off < Len(Line) /\ IsSync(Line[off + 1]) /\ Follow(off, UnitSizes[t])
           /\ m_dwUnitSize' = UnitSizes[t]
           /\ IF off < Len(m_SyncBuf)
              THEN m_SyncBuf' = From(m_SyncBuf, off) /\ UNCHANGED pSrc
              ELSE m_SyncBuf' = << >> /\ pSrc' = From(pSrc, off - Len(m_SyncBuf))
<1> DEFINE off == Min(Places)
           T == {t \in 1..4 : Follow(off, UnitSizes[t])}
<1>1. dwCheckStartPos \in Nat /\ Len(Line) \in Nat /\ TS_PKTSIZE \in Nat \ {0}
  BY TypesUse, Sizes, LenProperties DEF TypeOK
<1>2. Places \subseteq Nat /\ Places # {}
  BY <1>1 DEF Places, SyncFound
<1>3. off \in Places
  BY <1>2, Least
<1> HIDE DEF off
<1>4. /\ off \in dwCheckStartPos..(Len(Line) - TS_PKTSIZE - 1) /\ IsSync(Line[off + 1])
      /\ T # {} /\ T \subseteq Nat
  BY <1>3 DEF Places
<1>5. Min(T) \in T
  BY <1>4, Least
<1>6. off \in Nat /\ off < Len(Line)
  BY <1>1, <1>4
<1>7. /\ m_dwUnitSize' = UnitSizes[Min(T)]
      /\ IF off < Len(m_SyncBuf)
         THEN m_SyncBuf' = From(m_SyncBuf, off) /\ UNCHANGED pSrc
         ELSE m_SyncBuf' = << >> /\ pSrc' = From(pSrc, off - Len(m_SyncBuf))
  BY DEF SyncFound, off
<1>8. Min(T) \in 1..4 /\ Follow(off, UnitSizes[Min(T)])
  BY <1>5
<1> HIDE DEF T
<1> QED
  BY <1>4, <1>6, <1>7, <1>8

\* Dropping the beginning of both drops it from the line.
LEMMA Dropped ==
  ASSUME NEW S, NEW f \in Seq(S), NEW g \in Seq(S), NEW off \in Nat, off <= Len(f) + Len(g), NEW h,
         off < Len(f) => h = From(f, off) \o g,
         ~(off < Len(f)) => h = << >> \o From(g, off - Len(f))
  PROVE  h = From(f \o g, off)
<1> DEFINE m == Len(f)
           n == Len(g)
           all == f \o g
           r == From(all, off)
<1>1. /\ m \in Nat /\ n \in Nat /\ all \in Seq(S) /\ Len(all) = m + n
      /\ \A k \in 1..(m + n) : all[k] = IF k <= m THEN f[k] ELSE g[k - m]
  BY ConcatProperties, LenProperties
<1>5. off <= m + n
  OBVIOUS
<1> HIDE DEF all, m, n
<1>2. r \in Seq(S) /\ Len(r) = m + n - off /\ \A k \in 1..(m + n - off) : r[k] = all[off + k]
  <2>1. off <= Len(all) /\ all \in Seq(S)
    BY <1>1, <1>5
  <2>2. r \in Seq(S) /\ Len(r) = Len(all) - off /\ \A k \in 1..(Len(all) - off) : r[k] = all[off + k]
    BY <2>1, FromIs
  <2> QED
    BY <1>1, <2>2
<1> HIDE DEF r
<1>3. CASE off < m
  <2> DEFINE x == From(f, off)
             l == m - off
  <2>7. off <= Len(f) /\ Len(f) = m /\ Len(g) = n
    BY <1>1, <1>3 DEF m, n
  <2>1. x \in Seq(S) /\ Len(x) = l /\ \A k \in 1..l : x[k] = f[off + k]
    <3>1. x \in Seq(S) /\ Len(x) = Len(f) - off /\ \A k \in 1..(Len(f) - off) : x[k] = f[off + k]
      BY <2>7, FromIs
    <3> QED
      BY <2>7, <3>1
  <2> HIDE DEF x
  <2>2. /\ x \o g \in Seq(S) /\ Len(x \o g) = l + n
        /\ \A k \in 1..(l + n) : (x \o g)[k] = IF k <= l THEN x[k] ELSE g[k - l]
    <3>1. /\ x \o g \in Seq(S) /\ Len(x \o g) = Len(x) + Len(g)
          /\ \A k \in 1..(Len(x) + Len(g)) : (x \o g)[k] = IF k <= Len(x) THEN x[k] ELSE g[k - Len(x)]
      BY <2>1, ConcatProperties
    <3> QED
      BY <2>1, <2>7, <3>1
  <2>3. h = x \o g
    BY <1>3 DEF x, m
  <2>4. l + n = m + n - off /\ l \in Nat
    BY <1>1, <1>3
  <2>5. ASSUME NEW k \in 1..(m + n - off) PROVE h[k] = r[k]
    <3>1. off + k \in 1..(m + n)
      BY <1>1
    <3>2. CASE k <= l
      <4>1. off + k <= m /\ k \in 1..l /\ k \in 1..(l + n)
        BY <1>1, <2>4, <3>2
      <4>2. r[k] = f[off + k]
        BY <1>1, <1>2, <3>1, <4>1
      <4>3. (x \o g)[k] = x[k] /\ x[k] = f[off + k]
        BY <2>1, <2>2, <4>1, <3>2
      <4> QED
        BY <2>3, <4>2, <4>3
    <3>3. CASE ~(k <= l)
      <4>1. k - l = (off + k) - m /\ ~(off + k <= m)
        BY <1>1, <3>3
      <4> QED
        BY <1>1, <1>2, <2>2, <2>3, <2>4, <3>1, <3>3, <4>1
    <3> QED
      BY <3>2, <3>3
  <2>6. h \in Seq(S) /\ Len(h) = m + n - off
    BY <2>2, <2>3, <2>4
  <2> QED
    BY <1>2, <2>5, <2>6, SeqEqual DEF r, all
<1>4. CASE ~(off < m)
  <2> DEFINE c == off - m
             x == From(g, c)
  <2>1. c \in Nat /\ c <= n /\ n - c = m + n - off
    BY <1>1, <1>4 DEF m, n
  <2> HIDE DEF c
  <2>2. x \in Seq(S) /\ Len(x) = n - c /\ \A k \in 1..(n - c) : x[k] = g[c + k]
    BY <2>1, FromIs DEF n
  <2> HIDE DEF x
  <2>3. h = x
    <3>1. h = << >> \o From(g, off - Len(f))
      BY <1>4 DEF m
    <3>2. h = << >> \o x
      BY <3>1 DEF x, c, m
    <3> QED
      BY <2>2, <3>2, ConcatEmptySeq
  <2>4. ASSUME NEW k \in 1..(m + n - off) PROVE h[k] = r[k]
    <3>1. off + k \in 1..(m + n) /\ ~(off + k <= m) /\ (off + k) - m = c + k
      BY <1>1, <1>4 DEF c
    <3> QED
      BY <1>1, <1>2, <2>1, <2>2, <2>3, <3>1
  <2> QED
    BY <1>2, <2>1, <2>2, <2>3, <2>4, SeqEqual DEF r, all
<1> QED
  BY <1>3, <1>4

\* The line from there on is what the call begins again with.
LEMMA FoundLine ==
  ASSUME TypeOK, NEW off \in Nat, off < Len(Line),
         IF off < Len(m_SyncBuf)
         THEN m_SyncBuf' = From(m_SyncBuf, off) /\ UNCHANGED pSrc
         ELSE m_SyncBuf' = << >> /\ pSrc' = From(pSrc, off - Len(m_SyncBuf))
  PROVE  /\ m_SyncBuf' \in Seq(AllBytes) /\ pSrc' \in Seq(AllBytes)
         /\ Len(m_SyncBuf') <= SyncBufSize /\ Line' = From(Line, off)
<1> DEFINE m == Len(m_SyncBuf)
           n == Len(pSrc)
<1>1. /\ m_SyncBuf \in Seq(AllBytes) /\ pSrc \in Seq(AllBytes) /\ m \in Nat /\ n \in Nat
      /\ Len(Line) = m + n /\ m <= SyncBufSize /\ SyncBufSize \in Nat
  BY TypesUse, Sizes DEF TypeOK
<1>2. CASE off < m
  <2>1. m_SyncBuf' = From(m_SyncBuf, off) /\ pSrc' = pSrc
    BY <1>2
  <2>2. m_SyncBuf' \in Seq(AllBytes) /\ Len(m_SyncBuf') = m - off
    BY <1>1, <1>2, <2>1, FromIs
  <2>3. Line' = From(m_SyncBuf, off) \o pSrc
    BY <2>1 DEF Line
  <2> DEFINE h == From(m_SyncBuf, off) \o pSrc
  <2>5. h = From(m_SyncBuf \o pSrc, off)
    <3>1. /\ off <= Len(m_SyncBuf) + Len(pSrc)
          /\ off < Len(m_SyncBuf) => h = From(m_SyncBuf, off) \o pSrc
          /\ ~(off < Len(m_SyncBuf)) => h = << >> \o From(pSrc, off - Len(m_SyncBuf))
      BY <1>1, <1>2
    <3>2. m_SyncBuf \in Seq(AllBytes) /\ pSrc \in Seq(AllBytes)
      BY <1>1
    <3> HIDE DEF h
    <3> QED
      BY <3>1, <3>2, Dropped
  <2>4. Line' = From(m_SyncBuf \o pSrc, off)
    BY <2>3, <2>5
  <2> QED
    BY <1>1, <1>2, <2>1, <2>2, <2>4 DEF Line
<1>3. CASE ~(off < m)
  <2>1. m_SyncBuf' = << >> /\ pSrc' = From(pSrc, off - m)
    BY <1>3
  <2>2. off - m \in Nat /\ off - m <= n
    BY <1>1, <1>3
  <2>3. pSrc' \in Seq(AllBytes)
    BY <1>1, <2>1, <2>2, FromIs
  <2>4. Line' = << >> \o From(pSrc, off - m)
    BY <2>1 DEF Line
  <2> DEFINE h == << >> \o From(pSrc, off - m)
  <2>6. h = From(m_SyncBuf \o pSrc, off)
    <3>1. /\ off <= Len(m_SyncBuf) + Len(pSrc)
          /\ off < Len(m_SyncBuf) => h = From(m_SyncBuf, off) \o pSrc
          /\ ~(off < Len(m_SyncBuf)) => h = << >> \o From(pSrc, off - Len(m_SyncBuf))
      BY <1>1, <1>3
    <3>2. m_SyncBuf \in Seq(AllBytes) /\ pSrc \in Seq(AllBytes)
      BY <1>1
    <3> HIDE DEF h
    <3> QED
      BY <3>1, <3>2, Dropped
  <2>5. Line' = From(m_SyncBuf \o pSrc, off)
    BY <2>4, <2>6
  <2> QED
    BY <1>1, <2>1, <2>3, <2>5, EmptyOut DEF Line
<1> QED
  BY <1>2, <1>3

LEMMA TypesFound ==
  ASSUME TypeOK, SyncFound
  PROVE  TypeOK'
<1>1. PICK off \in Nat, t \in 1..4 :
           /\ off < Len(Line) /\ m_dwUnitSize' = UnitSizes[t]
           /\ IF off < Len(m_SyncBuf)
              THEN m_SyncBuf' = From(m_SyncBuf, off) /\ UNCHANGED pSrc
              ELSE m_SyncBuf' = << >> /\ pSrc' = From(pSrc, off - Len(m_SyncBuf))
  BY FoundIs
<1>2. m_SyncBuf' \in Seq(AllBytes) /\ pSrc' \in Seq(AllBytes) /\ Len(m_SyncBuf') <= SyncBufSize
  BY <1>1, FoundLine
<1>3. FieldTypes(pSrc', m_SyncBuf', m_dwUnitSize', dwCheckStartPos')
  BY <1>1, <1>2 DEF SyncFound, FieldTypes
<1>4. UNCHANGED <<given, cursor, jumps>> /\ pc' \in {"idle", "call", "wild"} /\ out' = out /\ last' = last
  BY DEF SyncFound, TypeOK
<1> QED
  BY <1>3, <1>4, TypesStay

\* What is kept when it is not found.
LEMMA KeptIs ==
  ASSUME TypeOK
  PROVE  \E off \in Nat : /\ off <= Len(Line) /\ Kept = From(Line, off)
                          /\ Kept \in Seq(AllBytes) /\ Len(Kept) <= SyncBufSize
<1> DEFINE n == Len(Line)
           d == n - SyncBufSize
           off == Max({0, d})
<1>1. Line \in Seq(AllBytes) /\ n \in Nat /\ SyncBufSize \in Nat /\ d \in Int
  BY TypesUse, Sizes, LenProperties
<1>2. off = IF d > 0 THEN d ELSE 0
  <2> HIDE DEF d
  <2> QED
    BY <1>1, Greater
<1>3. Kept = From(Line, off)
  BY DEF Kept
<1> HIDE DEF off
<1>4. off \in Nat /\ off <= n /\ n - off <= SyncBufSize
  BY <1>1, <1>2
<1>5. From(Line, off) \in Seq(AllBytes) /\ Len(From(Line, off)) = n - off
  BY <1>1, <1>4, FromIs
<1> QED
  BY <1>3, <1>4, <1>5

LEMMA TypesNotFound ==
  ASSUME TypeOK, SyncNotFound
  PROVE  TypeOK'
<1>1. m_SyncBuf' \in Seq(AllBytes) /\ Len(m_SyncBuf') <= SyncBufSize
  BY KeptIs DEF SyncNotFound
<1>2. FieldTypes(pSrc', m_SyncBuf', m_dwUnitSize', dwCheckStartPos')
  BY <1>1, EmptyOut DEF SyncNotFound, FieldTypes, TypeOK
<1>3. UNCHANGED <<given, cursor, jumps>> /\ pc' \in {"idle", "call", "wild"} /\ out' = out /\ last' = last
  BY DEF SyncNotFound
<1> QED
  BY <1>2, <1>3, TypesStay

-----------------------------------------------------------------------------
(* The stream through a call *)

LEMMA OnTrackNext ==
  ASSUME unit' = unit, OnTrack(Line', cursor', m_dwUnitSize', last')
  PROVE  OnTrack(Line, cursor, m_dwUnitSize, last)'
<1>1. AllBytes' = AllBytes /\ \A b, k : After(b, k)' = After(b, k)
  BY DEF AllBytes, After
<1>2. PICK b \in AllBytes :
        /\ \A k \in 1..Len(Line') : Line'[k] = After(b, k - 1)
        /\ cursor' = After(b, Len(Line'))
        /\ m_dwUnitSize' # 0 => /\ m_dwUnitSize' = unit /\ b[2] = 0
                                /\ last' # NoPacket => b[1] = (last' + 1) % Wrap
  BY DEF OnTrack, Contiguous
<1>3. Contiguous(Line, b)' /\ cursor' = After(b, Len(Line))'
  BY <1>1, <1>2 DEF Contiguous
<1> QED
  BY <1>1, <1>2, <1>3 DEF OnTrack

\* A step of a call that loses no byte finds the line on track.
LEMMA Tracked ==
  ASSUME IInv, pc = "call", jumps = 0
  PROVE  \E b \in AllBytes :
           /\ Contiguous(Line, b) /\ cursor = After(b, Len(Line))
           /\ m_dwUnitSize # 0 => /\ m_dwUnitSize = unit /\ b[2] = 0 /\ b = <<b[1], 0>> /\ b[1] \in 0..(Wrap - 1)
                                  /\ last # NoPacket => b[1] = (last + 1) % Wrap
BY DEF IInv, Unbroken, OnTrack, AllBytes

\* Then no sync byte is missing.
LEMMA NoneBroken ==
  ASSUME IInv, InSync, jumps = 0
  PROVE  Broken = {}
<1>1. /\ UnitKnown /\ unit \in Nat \ {0} /\ Len(m_SyncBuf) \in Nat /\ Len(pSrc) \in Nat
      /\ Len(Line) = Len(m_SyncBuf) + Len(pSrc) /\ m_SyncBuf \in Seq(AllBytes) /\ pSrc \in Seq(AllBytes)
  BY TypesUse DEF IInv
<1>2. PICK b \in AllBytes : Contiguous(Line, b) /\ m_dwUnitSize = unit /\ b[2] = 0
  BY Tracked DEF InSync
<1> SUFFICES ASSUME NEW pos \in 0..(Len(pSrc) - 1), (pos + Len(m_SyncBuf)) % unit = 0
             PROVE  IsSync(pSrc[pos + 1])
  BY <1>2 DEF Broken
<1> DEFINE k == Len(m_SyncBuf) + pos + 1
<1>3. k \in 1..Len(Line) /\ k - 1 = pos + Len(m_SyncBuf) /\ k - Len(m_SyncBuf) = pos + 1
  BY <1>1
<1>4. Line[k] = pSrc[pos + 1]
  <2>1. ~(k <= Len(m_SyncBuf)) /\ k \in 1..(Len(m_SyncBuf) + Len(pSrc))
    BY <1>1, <1>3
  <2> HIDE DEF k
  <2>2. (m_SyncBuf \o pSrc)[k] = pSrc[k - Len(m_SyncBuf)]
    BY <1>1, <2>1, ConcatProperties
  <2> QED
    BY <1>3, <2>2 DEF Line
<1>5. Line[k] = After(b, pos + Len(m_SyncBuf))
  BY <1>2, <1>3 DEF Contiguous
<1>6. 0 + (pos + Len(m_SyncBuf)) = pos + Len(m_SyncBuf)
  BY <1>1
<1>7. After(b, pos + Len(m_SyncBuf))[2] = 0
  BY <1>2, <1>6 DEF After
<1> QED
  BY <1>4, <1>5, <1>7 DEF IsSync

LEMMA InvGap ==
  ASSUME IInv, NEW k \in 0..g_TsPacketBufSize, ChunkWithGap(k)
  PROVE  IInv'
<1>1. TypeOK' /\ pc' = "call" /\ jumps' = jumps + 1 /\ jumps \in Nat
  BY TypesGap, TypesUse DEF IInv, ChunkWithGap, Call
<1> QED
  BY <1>1 DEF IInv, Taken, Unbroken, NoneYet

LEMMA InvLost ==
  ASSUME IInv, SyncLost
  PROVE  IInv'
<1>1. TypeOK'
  BY TypesLost DEF IInv
<1>2. jumps # 0 /\ jumps' = jumps /\ pc' = "call"
  BY NoneBroken DEF SyncLost, InSync
<1> QED
  BY <1>1, <1>2 DEF IInv, Taken, Unbroken, NoneYet

LEMMA InvShort ==
  ASSUME IInv, SyncedShort
  PROVE  IInv'
<1>1. TypeOK' /\ Line \in Seq(AllBytes)
  BY TypesShort, TypesUse DEF IInv
<1>2. /\ pc = "call" /\ pc' = "idle" /\ pSrc' = << >> /\ m_SyncBuf' = Line /\ unit' = unit /\ cursor' = cursor
      /\ m_dwUnitSize' = m_dwUnitSize /\ m_dwUnitSize # 0 /\ last' = last /\ jumps' = jumps
  BY DEF SyncedShort, InSync, given
<1>3. Line' = Line
  <2>1. Line' = Line \o << >>
    BY <1>2 DEF Line
  <2> QED
    BY <1>1, <2>1, ConcatEmptySeq
<1>4. jumps = 0 => OnTrack(Line', cursor', m_dwUnitSize', last')
  BY <1>2, <1>3 DEF IInv, Unbroken
<1>5. Unbroken'
  BY <1>2, <1>4, OnTrackNext DEF Unbroken
<1> QED
  BY <1>1, <1>2, <1>5 DEF IInv, Taken, NoneYet

LEMMA InvOverrun ==
  ASSUME IInv, SyncedOverrun
  PROVE  IInv'
<1>1. TypeOK'
  BY TypesOverrun DEF IInv
<1>2. pc' = "wild" /\ pSrc' = << >> /\ m_dwUnitSize' = m_dwUnitSize /\ last' = last /\ jumps' = jumps
  BY DEF SyncedOverrun, fields
<1> QED
  BY <1>1, <1>2 DEF IInv, Taken, Unbroken, NoneYet

\* The packets are the next ones of the stream, each of them whole.
LEMMA PacketsAre ==
  ASSUME IInv, SyncedPackets, NEW b \in AllBytes, Contiguous(Line, b), b = <<b[1], 0>>,
         b[1] \in 0..(Wrap - 1), m_dwUnitSize = unit
  PROVE  \A k \in 1..Whole, j \in 1..TS_PKTSIZE :
           out'[k][j] = <<(b[1] + (k - 1)) % Wrap, j - 1>>
<1>1. /\ UnitKnown /\ unit \in Nat \ {0} /\ TS_PKTSIZE <= unit /\ TS_PKTSIZE \in Nat \ {0}
      /\ Len(Line) \in Nat /\ TypeOK /\ m_dwUnitSize # 0
  BY TypesUse, Sizes, LenProperties DEF IInv
<1> TAKE k \in 1..Whole, j \in 1..TS_PKTSIZE
<1> DEFINE off == (k - 1) * unit
           i == j - 1
           n == off + i
<1>2. /\ Whole \in Nat \ {0} /\ off \in Nat /\ off + TS_PKTSIZE <= Len(Line)
      /\ out'[k][j] = Line[off + j]
  BY <1>1, OutIs
<1>3. k - 1 \in Nat /\ i \in 0..(unit - 1)
  <2>1. Whole \in Nat
    BY <1>2
  <2>2. j \in Nat /\ 1 <= j /\ j <= unit
    BY <1>1
  <2> HIDE DEF off
  <2> QED
    BY <1>1, <2>1, <2>2
<1> HIDE DEF off
<1>4. off + j \in 1..Len(Line) /\ (off + j) - 1 = n
  <2>1. j \in Nat /\ 1 <= j /\ j <= TS_PKTSIZE
    BY <1>1
  <2>2. off \in Nat /\ off + TS_PKTSIZE <= Len(Line)
    BY <1>2
  <2> QED
    BY <1>1, <2>1, <2>2
<1>5. Line[off + j] = After(b, n)
  <2> DEFINE m == off + j
  <2>1. m \in 1..Len(Line) /\ m - 1 = n
    BY <1>4
  <2> HIDE DEF m, n
  <2>2. Line[m] = After(b, m - 1)
    BY <2>1 DEF Contiguous
  <2> QED
    BY <2>1, <2>2 DEF m
<1>6. After(<<b[1], 0>>, n) = <<(b[1] + (k - 1)) % Wrap, i>>
  <2>1. n = (k - 1) * unit + i
    BY DEF off
  <2> DEFINE h == k - 1
  <2>2. h \in Nat /\ n = h * unit + i
    BY <1>3, <2>1
  <2> HIDE DEF h, n, i
  <2>3. After(<<b[1], 0>>, n) = <<(b[1] + h) % Wrap, i>>
    BY <1>1, <1>3, <2>2, PacketAfter
  <2> QED
    BY <2>3 DEF h
<1> QED
  BY <1>2, <1>5, <1>6

LEMMA InvPackets ==
  ASSUME IInv, SyncedPackets
  PROVE  IInv'
<1> DEFINE w == Whole
           e == w * unit
           rest == From(Line, e)
<1>1. TypeOK /\ TypeOK' /\ Line \in Seq(AllBytes) /\ Wrap \in Nat \ {0}
  BY TypesPackets, TypesUse, SizeAssumption DEF IInv
<1>2. /\ pc = "call" /\ pc' = "idle" /\ pSrc' = << >> /\ m_SyncBuf' = From(Line, Whole * m_dwUnitSize)
      /\ unit' = unit /\ cursor' = cursor /\ m_dwUnitSize' = m_dwUnitSize /\ m_dwUnitSize # 0
      /\ jumps' = jumps /\ last' = out'[w][1][1]
  BY DEF SyncedPackets, InSync, given
<1>3. Unbroken'
  <2> SUFFICES ASSUME jumps = 0 PROVE OnTrack(Line', cursor', m_dwUnitSize', last')
    BY <1>2, OnTrackNext DEF Unbroken
  <2>1. PICK b \in AllBytes :
          /\ Contiguous(Line, b) /\ cursor = After(b, Len(Line))
          /\ m_dwUnitSize = unit /\ b[2] = 0 /\ b = <<b[1], 0>> /\ b[1] \in 0..(Wrap - 1)
    BY <1>2, Tracked
  <2>2. UnitKnown /\ unit \in Nat \ {0} /\ TS_PKTSIZE \in Nat \ {0}
    BY <1>1, TypesUse, Sizes
  <2>3. w \in Nat \ {0} /\ w \in Nat /\ w - 1 \in Nat /\ w \in 1..w /\ 1 \in 1..TS_PKTSIZE
    <3>1. w \in Nat \ {0}
      BY <1>1, OutIs
    <3> HIDE DEF w
    <3> QED
      BY <2>2, <3>1
  <2>4. e \in Nat /\ e < Len(Line) /\ Len(Line) \in Nat
    <3>1. Whole * m_dwUnitSize \in Nat /\ Whole * m_dwUnitSize < Len(Line)
      BY <1>1, <1>2, <2>3, WholeIs
    <3> QED
      BY <1>1, <2>1, <3>1, LenProperties
  <2>5. m_SyncBuf' = rest
    BY <1>2, <2>1
  <2> HIDE DEF e
  <2>6. rest \in Seq(AllBytes)
    BY <1>1, <2>4, FromIs
  <2>7. Line' = rest
    <3>1. Line' = rest \o << >>
      BY <1>2, <2>5 DEF Line
    <3> HIDE DEF rest
    <3> QED
      BY <2>6, <3>1, ConcatEmptySeq
  <2>8. /\ Contiguous(rest, After(b, e)) /\ After(b, e) \in AllBytes
        /\ After(After(b, e), Len(rest)) = cursor
    BY <1>1, <2>1, <2>2, <2>4, CutOff
  <2>9. After(b, e) = <<(b[1] + w) % Wrap, 0>>
    <3>1. 0 \in 0..(unit - 1)
      BY <2>2
    <3>2. e = w * unit + 0
      BY <2>4 DEF e
    <3> HIDE DEF w
    <3>3. After(<<b[1], 0>>, e) = <<(b[1] + w) % Wrap, 0>>
      BY <2>1, <2>2, <2>3, <3>1, <3>2, PacketAfter
    <3> QED
      BY <2>1, <3>3
  <2>10. last' = (b[1] + (w - 1)) % Wrap
    <3>1. out'[w][1] = <<(b[1] + (w - 1)) % Wrap, 1 - 1>>
      BY <2>1, <2>3, PacketsAre
    <3> QED
      BY <1>2, <3>1
  <2>11. (last' + 1) % Wrap = (b[1] + w) % Wrap
    <3> HIDE DEF w
    <3> DEFINE p == b[1]
    <3>1. p + (w - 1) \in Nat /\ (p + (w - 1)) + 1 = p + w
      BY <1>1, <2>1, <2>3
    <3> HIDE DEF p
    <3> DEFINE x == p + (w - 1)
    <3>2. x \in Nat /\ x + 1 = p + w
      BY <3>1
    <3> HIDE DEF x
    <3>3. ((x % Wrap) + 1) % Wrap = (x + 1) % Wrap
      BY <1>1, <3>2, Reduced
    <3> QED
      BY <2>10, <3>2, <3>3 DEF x, p
  <2> HIDE DEF rest, w
  <2> DEFINE d == After(b, e)
  <2>12. d[2] = 0 /\ d[1] = (last' + 1) % Wrap
    BY <2>9, <2>11
  <2> HIDE DEF d
  <2>13. d \in AllBytes /\ Contiguous(rest, d) /\ cursor = After(d, Len(rest))
    BY <2>8 DEF d
  <2> QED
    BY <1>2, <2>1, <2>7, <2>12, <2>13 DEF OnTrack
<1> QED
  BY <1>1, <1>2, <1>3 DEF IInv, Taken, NoneYet

\* A size of a unit that two sync bytes show to be a multiple of the stream's is
\* the stream's.
LEMMA OnlyUnit ==
  ASSUME UnitKnown, NEW t \in 1..4, UnitSizes[t] % unit = 0
  PROVE  UnitSizes[t] = unit
<1> DEFINE u == UnitSizes[t]
           q == u \div unit
           e == q * unit
<1>1. u \in Nat \ {0} /\ u < 2 * unit /\ unit \in Nat \ {0}
  BY Sizes, UnitIs
<1>2. q \in Nat /\ e \in Nat /\ u = e
  <2>1. /\ u \div unit \in Nat /\ (u \div unit) * unit \in Nat
        /\ u = (u \div unit) * unit + (u % unit)
    BY <1>1, Quotient
  <2> QED
    BY <2>1
<1> HIDE DEF q
<1>3. q = 0 => e = 0
  BY <1>1
<1>4. q > 1 => 1 * unit + unit <= e
  BY <1>1, <1>2, Multiples
<1>5. q = 1 => e = unit
  BY <1>1
<1> HIDE DEF e, u
<1>6. u = unit
  BY <1>1, <1>2, <1>3, <1>4, <1>5
<1> QED
  BY <1>6 DEF u

LEMMA InvFound ==
  ASSUME IInv, SyncFound
  PROVE  IInv'
<1>1. TypeOK /\ TypeOK' /\ UnitKnown /\ unit \in Nat \ {0} /\ Line \in Seq(AllBytes) /\ Len(Line) \in Nat
  BY TypesFound, TypesUse, LenProperties DEF IInv
<1>2. PICK off \in Nat, t \in 1..4 :
           /\ off < Len(Line) /\ IsSync(Line[off + 1]) /\ Follow(off, UnitSizes[t])
           /\ m_dwUnitSize' = UnitSizes[t]
           /\ IF off < Len(m_SyncBuf)
              THEN m_SyncBuf' = From(m_SyncBuf, off) /\ UNCHANGED pSrc
              ELSE m_SyncBuf' = << >> /\ pSrc' = From(pSrc, off - Len(m_SyncBuf))
  BY <1>1, FoundIs
<1> DEFINE rest == From(Line, off)
           u == UnitSizes[t]
<1>3. Line' = rest
  BY <1>1, <1>2, FoundLine
<1>4. /\ pc = "call" /\ pc' = "call" /\ m_dwUnitSize = 0 /\ m_dwUnitSize' = u /\ u \in Nat \ {0}
      /\ jumps' = jumps /\ last' = last /\ cursor' = cursor /\ unit' = unit
  BY <1>2, Sizes DEF SyncFound, Resync, given
<1>5. jumps = 0 => last = NoPacket
  BY <1>4 DEF IInv, NoneYet
<1>6. jumps = 0 => OnTrack(Line', cursor', m_dwUnitSize', last')
  <2> SUFFICES ASSUME jumps = 0 PROVE OnTrack(Line', cursor', m_dwUnitSize', last')
    OBVIOUS
  <2>1. PICK b \in AllBytes : Contiguous(Line, b) /\ cursor = After(b, Len(Line))
    BY <1>4, Tracked
  <2> DEFINE d == After(b, off)
  <2>2. d \in AllBytes /\ Contiguous(rest, d) /\ cursor = After(d, Len(rest))
    BY <1>1, <1>2, <2>1, CutOff
  <2> HIDE DEF rest
  <2>3. d[2] = 0
    <3>1. off + 1 \in 1..Len(Line) /\ (off + 1) - 1 = off
      BY <1>1, <1>2
    <3>2. Line[off + 1] = After(b, off)
      BY <2>1, <3>1 DEF Contiguous
    <3> QED
      BY <1>2, <3>2 DEF IsSync
  <2>4. u % unit = 0
    <3>1. off + u < Len(Line) /\ 1 \in 1..CheckCount /\ 1 * u = u
      BY <1>2, <1>4, SizeAssumption DEF Follow
    <3>2. IsSync(Line[off + u + 1])
      <4>1. off + 1 * u < Len(Line) => IsSync(Line[off + 1 * u + 1])
        BY <1>2, <3>1 DEF Follow
      <4> QED
        BY <3>1, <4>1
    <3> HIDE DEF u
    <3>3. off + u \in Nat /\ off + u + 1 \in 1..Len(Line) /\ (off + u + 1) - 1 = off + u
      BY <1>1, <1>4, <3>1
    <3>4. Line[off + u + 1] = After(b, off + u)
      <4> DEFINE m == off + u + 1
      <4>1. m \in 1..Len(Line) /\ m - 1 = off + u
        BY <3>3
      <4> HIDE DEF m
      <4>2. Line[m] = After(b, m - 1)
        BY <2>1, <4>1 DEF Contiguous
      <4> QED
        BY <4>1, <4>2 DEF m
    <3>5. After(b, off + u) = After(d, u)
      BY <1>1, <1>4, AfterIs
    <3> HIDE DEF d
    <3>6. After(d, u)[2] = (0 + u) % unit /\ 0 + u = u
      BY <1>4, <2>3 DEF After
    <3> QED
      BY <3>2, <3>4, <3>5, <3>6 DEF IsSync
  <2>5. u = unit
    BY <1>1, <2>4, OnlyUnit
  <2> HIDE DEF d, u
  <2> QED
    BY <1>3, <1>4, <1>5, <2>2, <2>3, <2>5 DEF OnTrack
<1>7. Unbroken'
  BY <1>4, <1>6, OnTrackNext DEF Unbroken
<1>8. Taken' /\ NoneYet'
  BY <1>4 DEF Taken, NoneYet
<1> QED
  BY <1>1, <1>7, <1>8 DEF IInv

LEMMA InvNotFound ==
  ASSUME IInv, SyncNotFound
  PROVE  IInv'
<1>1. TypeOK /\ TypeOK' /\ UnitKnown /\ Line \in Seq(AllBytes)
  BY TypesNotFound, TypesUse DEF IInv
<1>2. /\ pc = "call" /\ pc' = "idle" /\ pSrc' = << >> /\ m_SyncBuf' = Kept /\ unit' = unit /\ cursor' = cursor
      /\ m_dwUnitSize' = m_dwUnitSize /\ m_dwUnitSize = 0 /\ last' = last /\ jumps' = jumps
  BY DEF SyncNotFound, Resync, given
<1>3. PICK off \in Nat : off <= Len(Line) /\ Kept = From(Line, off) /\ Kept \in Seq(AllBytes)
  BY <1>1, KeptIs
<1>4. Line' = Kept
  <2>1. Line' = Kept \o << >>
    BY <1>2 DEF Line
  <2> QED
    BY <1>3, <2>1, ConcatEmptySeq
<1>5. jumps = 0 => OnTrack(Line', cursor', m_dwUnitSize', last')
  <2> SUFFICES ASSUME jumps = 0 PROVE OnTrack(Line', cursor', m_dwUnitSize', last')
    OBVIOUS
  <2>1. PICK b \in AllBytes : Contiguous(Line, b) /\ cursor = After(b, Len(Line))
    BY <1>2, Tracked
  <2>2. /\ Contiguous(From(Line, off), After(b, off)) /\ After(b, off) \in AllBytes
        /\ After(After(b, off), Len(From(Line, off))) = After(b, Len(Line))
    BY <1>1, <1>3, <2>1, CutOff
  <2> QED
    BY <1>2, <1>3, <1>4, <2>1, <2>2 DEF OnTrack
<1>6. Unbroken'
  BY <1>2, <1>5, OnTrackNext DEF Unbroken
<1> QED
  BY <1>1, <1>2, <1>6 DEF IInv, Taken, NoneYet

LEMMA Stutter ==
  ASSUME IInv, UNCHANGED vars
  PROVE  IInv'
<1>1. /\ unit' = unit /\ g_TsPacketBufSize' = g_TsPacketBufSize /\ cursor' = cursor /\ pc' = pc
      /\ pSrc' = pSrc /\ dwCheckStartPos' = dwCheckStartPos /\ m_dwUnitSize' = m_dwUnitSize
      /\ m_SyncBuf' = m_SyncBuf /\ out' = out /\ jumps' = jumps /\ last' = last
  BY DEF vars, given, fields
<1>2. Line' = Line
  BY <1>1 DEF Line
<1>3. TypeOK'
  BY <1>1 DEF IInv, TypeOK, AllBytes
<1>4. Unbroken'
  BY <1>1, <1>2, OnTrackNext DEF IInv, Unbroken
<1> QED
  BY <1>1, <1>3, <1>4 DEF IInv, Taken, NoneYet

LEMMA InvStep == IInv /\ [Next]_vars => IInv'
<1> SUFFICES ASSUME IInv, [Next]_vars PROVE IInv'
  OBVIOUS
<1>1. CASE Stream
  BY <1>1, InvChunk, InvGap DEF Stream
<1>2. CASE Step
  BY <1>2, InvLost, InvShort, InvPackets, InvOverrun, InvFound, InvNotFound DEF Step
<1>3. CASE UNCHANGED vars
  BY <1>3, Stutter
<1> QED
  BY <1>1, <1>2, <1>3 DEF Next, Wild

LEMMA Inductive == Spec => []IInv
BY InvInit, InvStep, PTL DEF Spec

\* Every variable has its type, and the carry never outgrows m_SyncBuf: what a
\* call leaves in sync is at most a unit (1350-1356 and 1390-1394), and what it
\* keeps out of sync is cut to fit (1515-1531).
THEOREM TypesCorrect == Spec => []TypeOK
<1>1. IInv => TypeOK
  BY DEF IInv
<1> QED
  BY <1>1, Inductive, PTL

-----------------------------------------------------------------------------
(* The packets delivered *)

\* What PacketsInOrder says of a step.
InOrder ==
  /\ jumps' = 0 /\ out' # out =>
       /\ \A k \in 1..Len(out') : Intact(out'[k])
       /\ \A k \in 1..(Len(out') - 1) : out'[k + 1][1][1] = (out'[k][1][1] + 1) % Wrap
       /\ out' # << >> /\ last # NoPacket => out'[1][1][1] = (last + 1) % Wrap
  /\ jumps' = 0 /\ m_dwUnitSize # 0 => m_dwUnitSize' = unit

\* Of one that delivers nothing.
LEMMA NothingOut ==
  ASSUME out' = out \/ out' = << >>, jumps' = 0 /\ m_dwUnitSize # 0 => m_dwUnitSize' = unit
  PROVE  InOrder
<1>1. out' = << >> => 1..Len(out') = {} /\ 1..(Len(out') - 1) = {}
  BY EmptyOut
<1> QED
  BY <1>1 DEF InOrder

\* In sync, the unit is the stream's.
LEMMA RightUnit ==
  ASSUME IInv, jumps = 0, pc # "wild", m_dwUnitSize # 0
  PROVE  m_dwUnitSize = unit
BY DEF IInv, Unbroken, OnTrack

LEMMA OrderPackets ==
  ASSUME IInv, SyncedPackets
  PROVE  InOrder
<1>1. /\ pc = "call" /\ jumps' = jumps /\ m_dwUnitSize' = m_dwUnitSize /\ m_dwUnitSize # 0
  BY DEF SyncedPackets, InSync
<1> SUFFICES ASSUME jumps = 0 PROVE InOrder
  BY <1>1 DEF InOrder
<1>2. PICK b \in AllBytes :
        /\ Contiguous(Line, b) /\ b = <<b[1], 0>> /\ b[1] \in 0..(Wrap - 1) /\ m_dwUnitSize = unit
        /\ last # NoPacket => b[1] = (last + 1) % Wrap
  BY <1>1, Tracked
<1>3. Whole \in Nat \ {0} /\ Len(out') = Whole /\ TS_PKTSIZE \in Nat \ {0} /\ Wrap \in Nat \ {0}
  BY OutIs, Sizes, SizeAssumption DEF IInv
<1> DEFINE w == Whole
           p == b[1]
<1>4. \A k \in 1..w, j \in 1..TS_PKTSIZE : out'[k][j] = <<(p + (k - 1)) % Wrap, j - 1>>
  BY <1>2, PacketsAre
<1> HIDE DEF w, p
<1>5. 1 \in 1..TS_PKTSIZE /\ p \in 0..(Wrap - 1) /\ p \in Nat /\ w \in Nat /\ 1 \in 1..w
  BY <1>2, <1>3 DEF p, w
<1>6. \A k \in 1..w : out'[k][1][1] = (p + (k - 1)) % Wrap
  BY <1>4, <1>5
<1>7. \A k \in 1..w : Intact(out'[k])
  BY <1>4, <1>6 DEF Intact
<1>8. ASSUME NEW k \in 1..(w - 1) PROVE out'[k + 1][1][1] = (out'[k][1][1] + 1) % Wrap
  <2>1. k \in 1..w /\ k + 1 \in 1..w /\ (k + 1) - 1 = k
    BY <1>5
  <2> DEFINE x == p + (k - 1)
  <2>2. x \in Nat /\ x + 1 = p + k
    BY <1>5
  <2>3. out'[k + 1][1][1] = (p + k) % Wrap /\ out'[k][1][1] = x % Wrap
    BY <1>6, <2>1
  <2> HIDE DEF x
  <2>4. ((x % Wrap) + 1) % Wrap = (x + 1) % Wrap
    BY <1>3, <2>2, Reduced
  <2> QED
    BY <2>2, <2>3, <2>4
<1>9. last # NoPacket => out'[1][1][1] = (last + 1) % Wrap
  <2>1. out'[1][1][1] = (p + (1 - 1)) % Wrap
    BY <1>5, <1>6
  <2>2. (p + (1 - 1)) % Wrap = p
    BY <1>3, <1>5
  <2> QED
    BY <1>2, <2>1, <2>2 DEF p
<1> QED
  BY <1>1, <1>2, <1>3, <1>7, <1>8, <1>9 DEF InOrder, w

LEMMA OrderStep == IInv /\ [Next]_vars => [InOrder]_vars
<1> SUFFICES ASSUME IInv, Next PROVE InOrder \/ UNCHANGED vars
  OBVIOUS
<1>1. ASSUME Chunk PROVE InOrder
  <2>1. pc = "idle" /\ out' = << >> /\ jumps' = jumps /\ m_dwUnitSize' = m_dwUnitSize
    BY <1>1 DEF Chunk, Call, fields
  <2> QED
    BY <2>1, NothingOut, RightUnit
<1>2. ASSUME NEW k \in 0..g_TsPacketBufSize, ChunkWithGap(k) PROVE InOrder
  <2>1. out' = << >> /\ jumps' = jumps + 1 /\ jumps \in Nat
    BY <1>2, TypesUse DEF IInv, ChunkWithGap, Call
  <2> QED
    BY <2>1, NothingOut
<1>3. ASSUME SyncLost PROVE InOrder
  <2>1. out' = out /\ jumps' = jumps /\ jumps # 0
    BY <1>3, NoneBroken DEF SyncLost
  <2> QED
    BY <2>1, NothingOut
<1>4. ASSUME SyncedShort PROVE InOrder
  <2>1. pc = "call" /\ out' = out /\ jumps' = jumps /\ m_dwUnitSize' = m_dwUnitSize
    BY <1>4 DEF SyncedShort, InSync
  <2> QED
    BY <2>1, NothingOut, RightUnit
<1>5. ASSUME SyncedOverrun PROVE InOrder
  <2>1. pc = "call" /\ out' = << >> /\ jumps' = jumps /\ m_dwUnitSize' = m_dwUnitSize
    BY <1>5 DEF SyncedOverrun, fields
  <2> QED
    BY <2>1, NothingOut, RightUnit
<1>6. ASSUME SyncFound \/ SyncNotFound PROVE InOrder
  <2>1. out' = out /\ m_dwUnitSize = 0
    BY <1>6 DEF SyncFound, SyncNotFound, Resync
  <2> QED
    BY <2>1, NothingOut
<1> QED
  BY <1>1, <1>2, <1>3, <1>4, <1>5, <1>6, OrderPackets DEF Next, Stream, Step, Wild

\* While no byte of the stream is lost, TsSync() delivers whole packets, each of
\* them once and in order from the first on, and having found sync never gives it
\* up: however the chunks cut the stream and whatever the unit (1331-1536).
THEOREM Order == Spec => PacketsInOrder
<1>1. Spec => [][InOrder]_vars
  BY OrderStep, Inductive, PTL DEF Spec
<1> QED
  BY <1>1 DEF PacketsInOrder, InOrder
=============================================================================
