------------------------- MODULE ChannelChangeProofs -------------------------
(* Theorems about ChannelChange, for every value of its constants.          *)
EXTENDS ChannelChange, SequenceTheorems, TLAPS

-----------------------------------------------------------------------------
(* The units of a buffer, and the packets made of it                        *)

\* s is the units from number a + 1 on, of the channel received now.
Run(s, a) == s \in Seq(Units) /\ \A u \in 1..Len(s) : s[u] = <<tuned, a + u>>

LEMMA RunSub ==
  ASSUME NEW s, NEW a \in Nat, Run(s, a), NEW m \in Nat \ {0}, NEW n \in Nat, n <= Len(s)
  PROVE  /\ Run(SubSeq(s, m, n), a + m - 1)
         /\ Len(SubSeq(s, m, n)) = IF m <= n THEN n - m + 1 ELSE 0
<1>1. Len(s) \in Nat /\ \A i \in m..n : s[i] \in Units
  BY ElementOfSeq, LenProperties DEF Run
<1>2. /\ SubSeq(s, m, n) \in Seq(Units)
      /\ Len(SubSeq(s, m, n)) = IF m <= n THEN n - m + 1 ELSE 0
      /\ \A i \in 1..(n - m + 1) : SubSeq(s, m, n)[i] = s[m + i - 1]
  BY <1>1, SubSeqProperties
<1>3. ASSUME NEW u \in 1..Len(SubSeq(s, m, n)) PROVE SubSeq(s, m, n)[u] = <<tuned, a + m - 1 + u>>
  <2>1. u \in 1..(n - m + 1) /\ m + u - 1 \in 1..Len(s)
    BY <1>1, <1>2
  <2>2. SubSeq(s, m, n)[u] = s[m + u - 1] /\ s[m + u - 1] = <<tuned, a + (m + u - 1)>>
    BY <1>2, <2>1 DEF Run
  <2> QED
    BY <2>1, <2>2
<1> QED
  BY <1>2, <1>3 DEF Run

LEMMA RunConcat ==
  ASSUME NEW s, NEW t, NEW a \in Nat, Run(s, a), Run(t, a + Len(s))
  PROVE  Run(s \o t, a) /\ Len(s \o t) = Len(s) + Len(t)
<1>1. /\ s \o t \in Seq(Units) /\ Len(s \o t) = Len(s) + Len(t)
      /\ \A i \in 1..(Len(s) + Len(t)) : (s \o t)[i] = IF i <= Len(s) THEN s[i] ELSE t[i - Len(s)]
      /\ Len(s) \in Nat /\ Len(t) \in Nat
  BY ConcatProperties, LenProperties DEF Run
<1>2. ASSUME NEW u \in 1..Len(s \o t) PROVE (s \o t)[u] = <<tuned, a + u>>
  <2>1. CASE u <= Len(s)
    BY <1>1, <2>1 DEF Run
  <2>2. CASE u > Len(s)
    <3>1. u - Len(s) \in 1..Len(t) /\ a + Len(s) + (u - Len(s)) = a + u
      BY <1>1, <2>2
    <3> QED
      BY <1>1, <2>2, <3>1 DEF Run
  <2> QED
    BY <1>1, <2>1, <2>2
<1> QED
  BY <1>1, <1>2 DEF Run

\* Division, as the provers need it.
LEMMA Quotient ==
  ASSUME NEW a \in Nat, NEW b \in Nat \ {0}
  PROVE  a \div b \in Nat /\ (a \div b) * b <= a /\ a < (a \div b) * b + b
OBVIOUS

LEMMA Multiples ==
  ASSUME NEW i \in Nat, NEW j \in Nat, NEW b \in Nat, i < j
  PROVE  i * b \in Nat /\ j * b \in Nat /\ i * b + b <= j * b
OBVIOUS

\* Packets of at most BufSize units, one after the other from number a + 1 on.
Packet(d, a, j) == Run(d, a + (j - 1) * BufSize) /\ Len(d) \in 1..BufSize

\* What Packed makes of buf and a chunk: the packets, in order, are all there
\* was but for the end, which stays in buf and is short of a packet.
LEMMA PackedIs ==
  ASSUME NEW a \in Nat, Run(buf, a), Len(buf) < BufSize,
         NEW chunk, Run(chunk, a + Len(buf)), chunk # << >>, NEW remain \in BOOLEAN,
         NEW p, p = Packed(chunk, remain), NEW total, total = Len(buf) + Len(chunk)
  PROVE  /\ p.out \in Seq(Seq(Units))
         /\ Len(p.buf) \in 0..total /\ Len(p.buf) < BufSize
         /\ Run(p.buf, a + total - Len(p.buf))
         /\ \A j \in 1..Len(p.out) :
              Packet(p.out[j], a, j)
              /\ (j - 1) * BufSize + Len(p.out[j]) <= total - Len(p.buf)
         /\ p.buf = << >> => p.out # << >>
<1> DEFINE b == Len(buf)
           n == Len(chunk)
           all == buf \o chunk
           dwLen == BufSize - b
           full == (n - dwLen) \div BufSize
           left == SubSeq(chunk, dwLen + full * BufSize + 1, n)
           first == buf \o SubSeq(chunk, 1, dwLen)
           rest == [k \in 1..full |-> SubSeq(chunk, dwLen + (k - 1) * BufSize + 1,
                                                    dwLen + k * BufSize)]
           whole == <<first>> \o rest
<1>1. b \in Nat /\ n \in Nat \ {0} /\ total = b + n /\ BufSize \in Nat \ {0}
  BY EmptySeq, LenProperties, SizeAssumption DEF Run
<1>2. Run(all, a) /\ Len(all) = total /\ all \in Seq(Units) /\ << >> \in Seq(Units) /\ Len(<< >>) = 0
  BY RunConcat, EmptySeq DEF Run
<1>3. CASE b + n < BufSize
  <2>1. p = IF remain THEN [out |-> << >>, buf |-> all] ELSE [out |-> <<all>>, buf |-> << >>]
    BY <1>3 DEF Packed
  <2> HIDE DEF all, b, n
  <2>2. CASE remain
    <3>1. p.out = << >> /\ p.buf = all /\ all # << >>
      BY <1>1, <1>2, <2>1, <2>2
    <3> QED
      BY <1>1, <1>2, <1>3, <3>1, EmptySeq
  <2>3. CASE ~remain
    <3>1. p.out = <<all>> /\ p.buf = << >>
      BY <2>1, <2>3
    <3>2. Len(<<all>>) = 1 /\ <<all>>[1] = all /\ <<all>> \in Seq(Seq(Units)) /\ <<all>> # << >>
      BY <1>2
    <3>3. Run(<< >>, a + total - 0)
      BY <1>2 DEF Run
    <3>4. Packet(all, a, 1) /\ (1 - 1) * BufSize + Len(all) <= total - 0
      <4>1. (1 - 1) * BufSize = 0 /\ a + 0 = a
        BY <1>1
      <4> QED
        BY <1>1, <1>2, <1>3, <4>1 DEF Packet
    <3>5. 0 \in 0..total /\ 0 < BufSize /\ \A j \in 1..1 : j = 1
      BY <1>1
    <3> QED
      BY <1>2, <3>1, <3>2, <3>3, <3>4, <3>5
  <2> QED
    BY <2>2, <2>3
<1>4. CASE b + n >= BufSize
  <2>1. dwLen \in 1..n /\ n - dwLen \in Nat /\ b + dwLen = BufSize
    BY <1>1, <1>4
  <2>2. full \in Nat /\ full * BufSize \in Nat
        /\ full * BufSize <= n - dwLen /\ n - dwLen < full * BufSize + BufSize
    <3> HIDE DEF dwLen, n
    <3> QED
      BY <1>1, <2>1, Quotient
  <2>3. p = IF left = << >> \/ remain THEN [out |-> whole, buf |-> left]
            ELSE [out |-> Append(whole, left), buf |-> << >>]
    <3>1. ~(Len(buf) + Len(chunk) < BufSize)
      BY <1>1, <1>4
    <3> QED
      BY <3>1, Zenon DEF Packed
  <2>4. Len(buf) = b /\ Len(chunk) = n
    OBVIOUS
  <2> HIDE DEF full, dwLen, b, n, all
  <2>5. Run(left, a + BufSize + full * BufSize) /\ Len(left) = n - dwLen - full * BufSize
    <3>1. dwLen + full * BufSize + 1 \in Nat \ {0} /\ n \in Nat /\ n <= Len(chunk) /\ a + b \in Nat
      BY <1>1, <2>1, <2>2, <2>4
    <3>2. /\ Run(left, a + b + (dwLen + full * BufSize + 1) - 1)
          /\ Len(left) = IF dwLen + full * BufSize + 1 <= n THEN n - (dwLen + full * BufSize + 1) + 1 ELSE 0
      BY <3>1, <2>4, RunSub
    <3>3. a + b + (dwLen + full * BufSize + 1) - 1 = a + BufSize + full * BufSize
      BY <1>1, <3>1, <2>1, <2>2
    <3> HIDE DEF left
    <3> QED
      BY <1>1, <2>1, <2>2, <3>2, <3>3
  <2>6. Run(first, a) /\ Len(first) = BufSize
    <3>1. /\ Run(SubSeq(chunk, 1, dwLen), a + b + 1 - 1)
          /\ Len(SubSeq(chunk, 1, dwLen)) = dwLen
      <4>1. 1 \in Nat \ {0} /\ dwLen \in Nat /\ dwLen <= Len(chunk) /\ a + b \in Nat /\ 1 <= dwLen
        BY <1>1, <2>1, <2>4
      <4>2. Len(SubSeq(chunk, 1, dwLen)) = IF 1 <= dwLen THEN dwLen - 1 + 1 ELSE 0
        BY <4>1, <2>4, RunSub
      <4> QED
        BY <4>1, <4>2, <2>4, RunSub
    <3>2. a + b + 1 - 1 = a + Len(buf)
      BY <1>1, <2>4
    <3> QED
      BY <1>1, <2>1, <2>4, <3>1, <3>2, RunConcat
  <2>7. ASSUME NEW k \in 1..full
        PROVE  /\ Run(rest[k], a + k * BufSize) /\ Len(rest[k]) = BufSize
               /\ k * BufSize + BufSize <= BufSize + full * BufSize
               /\ k * BufSize \in Nat
    <3>1. (k - 1) * BufSize \in Nat /\ k * BufSize = (k - 1) * BufSize + BufSize
          /\ k * BufSize <= full * BufSize
      BY <1>1, <2>2
    <3> DEFINE m == dwLen + (k - 1) * BufSize + 1
               e == dwLen + k * BufSize
    <3>2. m \in Nat \ {0} /\ e \in Nat /\ e <= Len(chunk) /\ a + b \in Nat
      BY <1>1, <2>1, <2>2, <2>4, <3>1
    <3>3. a + b + m - 1 = a + k * BufSize /\ m <= e /\ e - m + 1 = BufSize
      BY <1>1, <2>1, <3>1
    <3>4. rest[k] = SubSeq(chunk, m, e)
      OBVIOUS
    <3> HIDE DEF m, e
    <3>5. Run(SubSeq(chunk, m, e), a + b + m - 1)
          /\ Len(SubSeq(chunk, m, e)) = IF m <= e THEN e - m + 1 ELSE 0
      BY <3>2, <2>4, RunSub
    <3> HIDE DEF rest
    <3> QED
      BY <1>1, <2>2, <3>1, <3>3, <3>4, <3>5
  <2>8. rest \in Seq(Seq(Units)) /\ Len(rest) = full
    <3>1. \A k \in 1..full : rest[k] \in Seq(Units)
      BY <2>7 DEF Run
    <3>2. rest \in [1..full -> Seq(Units)] /\ DOMAIN rest = 1..full
      BY <3>1
    <3> HIDE DEF rest
    <3> QED
      BY <2>2, <3>2, SeqDef, LenProperties
  <2> HIDE DEF rest, first, left
  <2>9. /\ whole \in Seq(Seq(Units)) /\ Len(whole) = 1 + full
        /\ \A j \in 1..(1 + full) : whole[j] = IF j = 1 THEN first ELSE rest[j - 1]
    <3>1. <<first>> \in Seq(Seq(Units)) /\ Len(<<first>>) = 1 /\ <<first>>[1] = first
      BY <2>6 DEF Run
    <3>2. /\ whole \in Seq(Seq(Units)) /\ Len(whole) = 1 + full
          /\ \A j \in 1..(1 + full) : whole[j] = IF j <= 1 THEN <<first>>[j] ELSE rest[j - 1]
      BY <2>2, <2>8, <3>1, ConcatProperties
    <3> HIDE DEF whole
    <3>3. ASSUME NEW j \in 1..(1 + full) PROVE whole[j] = IF j = 1 THEN first ELSE rest[j - 1]
      <4>1. CASE j = 1
        <5>1. whole[1] = IF 1 <= 1 THEN <<first>>[1] ELSE rest[1 - 1]
          BY <2>2, <3>2
        <5>2. 1 <= 1
          OBVIOUS
        <5> QED
          BY <4>1, <5>1, <5>2, <3>1
      <4>2. CASE j # 1
        <5>1. ~(j <= 1)
          BY <2>2, <4>2
        <5>2. whole[j] = IF j <= 1 THEN <<first>>[j] ELSE rest[j - 1]
          BY <3>2
        <5> QED
          BY <4>2, <5>1, <5>2, Zenon
      <4> QED
        BY <4>1, <4>2
    <3> QED
      BY <3>2, <3>3, Zenon
  <2> HIDE DEF whole
  <2>10. \A j \in 1..Len(whole) :
           Packet(whole[j], a, j) /\ (j - 1) * BufSize + Len(whole[j]) <= BufSize + full * BufSize
    <3>1. ASSUME NEW j \in 1..Len(whole)
          PROVE  Packet(whole[j], a, j)
                 /\ (j - 1) * BufSize + Len(whole[j]) <= BufSize + full * BufSize
      <4>1. CASE j = 1
        <5>1. (j - 1) * BufSize = 0 /\ whole[j] = first /\ a + 0 = a
          BY <1>1, <4>1, <2>9, <2>2
        <5> QED
          BY <5>1, <1>1, <2>2, <2>6 DEF Packet
      <4>2. CASE j # 1
        <5>1. j - 1 \in 1..full /\ whole[j] = rest[j - 1]
          BY <2>2, <2>9, <4>2
        <5>2. /\ Run(rest[j - 1], a + (j - 1) * BufSize) /\ Len(rest[j - 1]) = BufSize
              /\ (j - 1) * BufSize + BufSize <= BufSize + full * BufSize
          BY <5>1, <2>7
        <5>3. BufSize \in 1..BufSize
          BY <1>1
        <5> QED
          BY <5>1, <5>2, <5>3, Zenon DEF Packet
      <4> QED
        BY <4>1, <4>2
    <3> QED
      BY <3>1
  <2>11. total = BufSize + full * BufSize + Len(left) /\ Len(left) \in 0..total /\ Len(left) < BufSize
    BY <1>1, <2>1, <2>2, <2>5
  <2>12. Len(whole) \in Nat /\ whole # << >> /\ left \in Seq(Units)
    BY <2>2, <2>5, <2>9, EmptySeq DEF Run
  <2>13. CASE left = << >> \/ remain
    <3>1. p.out = whole /\ p.buf = left
      BY <2>3, <2>13
    <3>2. a + total - Len(left) = a + BufSize + full * BufSize /\ total - Len(left) = BufSize + full * BufSize
      BY <1>1, <2>11, <2>2
    <3> QED
      BY <3>1, <3>2, <2>5, <2>9, <2>10, <2>11, <2>12
  <2>14. CASE ~(left = << >> \/ remain)
    <3>1. p.out = Append(whole, left) /\ p.buf = << >>
      BY <2>3, <2>14
    <3>2. Len(left) \in Nat \ {0}
      BY <2>12, <2>14, EmptySeq
    <3>3. /\ p.out \in Seq(Seq(Units)) /\ Len(p.out) = full + 2 /\ p.out # << >>
          /\ \A j \in 1..Len(whole) : p.out[j] = whole[j]
          /\ p.out[full + 2] = left
      <4>1. /\ Append(whole, left) \in Seq(Seq(Units)) /\ Append(whole, left) # << >>
            /\ Len(Append(whole, left)) = Len(whole) + 1
            /\ \A j \in 1..Len(whole) : Append(whole, left)[j] = whole[j]
            /\ Append(whole, left)[Len(whole) + 1] = left
        <5> DEFINE S == Seq(Units)
        <5> HIDE DEF S
        <5>1. whole \in Seq(S) /\ left \in S
          BY <2>9, <2>12 DEF S
        <5>2. /\ Append(whole, left) \in Seq(S) /\ Append(whole, left) # << >>
              /\ Len(Append(whole, left)) = Len(whole) + 1
              /\ \A j \in 1..Len(whole) : Append(whole, left)[j] = whole[j]
              /\ Append(whole, left)[Len(whole) + 1] = left
          BY <5>1, AppendProperties
        <5> QED
          BY <5>2 DEF S
      <4> QED
        BY <3>1, <4>1, <2>9, <2>2
    <3>4. PICK e \in Nat : e = full + 2
      BY <2>2
    <3>9. Packet(left, a, e) /\ (e - 1) * BufSize + Len(left) = total
      <4>1. (e - 1) * BufSize = full * BufSize + BufSize
        BY <1>1, <2>2, <3>4
      <4>2. a + BufSize + full * BufSize = a + (e - 1) * BufSize
        BY <1>1, <2>2, <4>1
      <4>3. Run(left, a + (e - 1) * BufSize)
        BY <4>2, <2>5
      <4>4. Len(left) \in 1..BufSize
        BY <1>1, <3>2, <2>11
      <4>5. (e - 1) * BufSize + Len(left) = total
        BY <1>1, <2>2, <2>11, <3>2, <4>1
      <4>6. Packet(left, a, e)
        BY <4>3, <4>4 DEF Packet
      <4> QED
        BY <4>5, <4>6
    <3>5. Len(p.buf) = 0 /\ Run(p.buf, a + total - Len(p.buf)) /\ total - Len(p.buf) = total
      BY <1>1, <1>2, <3>1 DEF Run
    <3>6. ASSUME NEW j \in 1..Len(p.out)
          PROVE  Packet(p.out[j], a, j) /\ (j - 1) * BufSize + Len(p.out[j]) <= total - Len(p.buf)
      <4>1. CASE j = full + 2
        <5>1. p.out[j] = left /\ j = e /\ total <= total
          BY <4>1, <3>3, <3>4, <1>1
        <5>2. Packet(p.out[j], a, j) /\ (j - 1) * BufSize + Len(p.out[j]) = total
          BY <5>1, <3>9, Zenon
        <5> QED
          BY <5>1, <5>2, <3>5
      <4>2. CASE j # full + 2
        <5>1. j \in 1..Len(whole) /\ p.out[j] = whole[j]
          <6>1. j \in 1..(full + 2) /\ j # full + 2 /\ Len(whole) = 1 + full
            BY <4>2, <3>3, <2>9
          <6>2. j \in 1..Len(whole)
            BY <6>1, <2>2
          <6> QED
            BY <6>2, <3>3
        <5>2. Packet(whole[j], a, j) /\ (j - 1) * BufSize + Len(whole[j]) <= BufSize + full * BufSize
          BY <5>1, <2>10
        <5>3. BufSize + full * BufSize <= total
          BY <1>1, <2>2, <2>11, <3>2
        <5>4. (j - 1) * BufSize \in Nat /\ Len(whole[j]) \in Nat
          BY <5>1, <5>2, <1>1, <2>12 DEF Packet
        <5>5. (j - 1) * BufSize + Len(whole[j]) <= total
          <6> DEFINE x == (j - 1) * BufSize
                     y == full * BufSize
          <6>1. x \in Nat /\ y \in Nat /\ total \in Nat
            BY <5>4, <2>2, <1>1
          <6> HIDE DEF x, y
          <6>2. x + Len(whole[j]) <= BufSize + y /\ BufSize + y <= total
            BY <5>2, <5>3 DEF x, y
          <6>3. x + Len(whole[j]) <= total
            BY <6>1, <6>2, <5>4, <1>1
          <6> QED
            BY <6>3 DEF x
        <5> QED
          BY <5>1, <5>2, <5>5, <3>5
      <4> QED
        BY <4>1, <4>2
    <3>7. 0 \in 0..total /\ 0 < BufSize
      BY <1>1
    <3> QED
      BY <3>3, <3>5, <3>6, <3>7
  <2> QED
    BY <2>13, <2>14
<1> HIDE DEF b, n
<1>5. b + n < BufSize \/ b + n >= BufSize
  BY <1>1
<1> QED
  BY <1>3, <1>4, <1>5, Zenon

-----------------------------------------------------------------------------
(* The invariant *)

First(p) == p.data[1][2]
Last(p)  == p.data[Len(p.data)][2]

\* What the reader makes: consecutive units of the channel the level is of.
GoodPackets ==
  {p \in Packets :
     /\ Len(p.data) \in 1..BufSize
     /\ \A u \in 1..Len(p.data) : p.data[u] = <<p.cnr, First(p) + (u - 1)>>}
Messages == GoodPackets \cup Answers

\* The TS of a queue is in the order of the driver; all of s was read before t.
InOrder(s) == \A k, l \in 1..Len(s) : k < l /\ IsTs(s[k]) /\ IsTs(s[l]) => Last(s[k]) < First(s[l])
Before(s, t) ==
  \A k \in 1..Len(s), l \in 1..Len(t) : IsTs(s[k]) /\ IsTs(t[l]) => Last(s[k]) < First(t[l])
UpTo(s, n) == \A k \in 1..Len(s) : IsTs(s[k]) => Last(s[k]) <= n
Since(s, e) == \A k \in 1..Len(s) : IsTs(s[k]) => s[k].cnr >= e

NoAnswer(s) == \A k \in 1..Len(s) : IsTs(s[k])
OneAnswer(s, type) ==
  \E k \in 1..Len(s) : s[k].type = type /\ \A l \in 1..Len(s) : l # k => IsTs(s[l])

\* The channel has been set: nothing that comes behind the answer is older.
Set(a) == a.type = "channel" /\ a.dw = 0
FreshAnswers(s, now) ==
  \A k \in 1..Len(s) : Set(s[k]) =>
    /\ s[k].epoch <= now
    /\ \A l \in 1..Len(s) : k < l /\ IsTs(s[l]) => s[l].cnr >= s[k].epoch

Types ==
  /\ tuned \in 0..MaxTunes /\ units \in Nat
  /\ ChannelChanged \in BOOLEAN /\ fSignalLevel \in 0..MaxTunes
  /\ TsReceiversList \subseteq Clients
  /\ server \in [Clients -> {"idle", "tune", "tuned"}]
  /\ request \in [Clients -> Seq({"SetChannel", "Purge", "Open", "Close"})]
  /\ down \in [Clients -> Seq(Messages)]
  /\ process \in [Clients -> {"idle", "cnr", "push"}]
  /\ hand \in [Clients -> Seq(GoodPackets)]
  /\ \A c \in Clients : Len(hand[c]) = IF process[c] = "idle" THEN 0 ELSE 1
  /\ result \in [Clients -> Seq(Answers)]
  /\ m_fifoTS \in [Clients -> Seq(GoodPackets)]
  /\ m_fSignalLevel \in [Clients -> 0..MaxTunes] /\ m_bWaitCNR \in [Clients -> BOOLEAN]
  /\ m_bTuner \in [Clients -> BOOLEAN]
  /\ app \in [Clients -> {"idle", "channel", "flush", "level", "cnr", "purge", "open"}]
  /\ calls \in [Clients -> Nat] /\ \A c \in Clients : calls[c] <= MaxCalls[c]
  /\ epoch \in [Clients -> 0..MaxTunes]

\* pTsBuf holds the last units of the stream, of one channel and less than a packet
\* of them; the level is of that channel when it need not be measured.
ReaderInv ==
  /\ Len(buf) < BufSize /\ Len(buf) <= units /\ Run(buf, units - Len(buf))
  /\ TsReceiversList = {} => buf = << >>
  /\ TsReceiversList # {} /\ ~ChannelChanged => fSignalLevel = tuned

\* The command an application waits for is under way exactly once: asked, in its
\* handler, answered or returned.
Command == [channel |-> "SetChannel", purge |-> "Purge", open |-> "Open"]
Quiet(c) == server[c] = "idle" /\ NoAnswer(down[c]) /\ result[c] = << >>
Closes(s, n) == \A k \in 1..n : s[k] = "Close"
Resting(c) == app[c] \in {"idle", "flush", "level", "cnr"} /\ Quiet(c) /\ Closes(request[c], Len(request[c]))
Asked(c) ==
  /\ Quiet(c) /\ request[c] # << >>
  /\ Closes(request[c], Len(request[c]) - 1)
  /\ app[c] \in DOMAIN Command /\ request[c][Len(request[c])] = Command[app[c]]
Handled(c) ==
  /\ app[c] = "channel" /\ request[c] = << >>
  /\ server[c] # "idle" /\ NoAnswer(down[c]) /\ result[c] = << >>
Answered(c) ==
  /\ app[c] \in DOMAIN Command /\ request[c] = << >>
  /\ server[c] = "idle" /\ OneAnswer(down[c], app[c]) /\ result[c] = << >>
Returned(c) ==
  /\ app[c] \in DOMAIN Command /\ request[c] = << >>
  /\ server[c] = "idle" /\ NoAnswer(down[c])
  /\ Len(result[c]) = 1 /\ result[c][1].type = app[c]
Protocol(c) == Resting(c) \/ Asked(c) \/ Handled(c) \/ Answered(c) \/ Returned(c)

Fresh(c) ==
  /\ epoch[c] <= tuned
  /\ app[c] # "flush" => Since(m_fifoTS[c], epoch[c])
  /\ Since(hand[c], epoch[c]) /\ Since(down[c], epoch[c])
  /\ app[c] \notin {"flush", "level"} => m_fSignalLevel[c] = 0 \/ m_fSignalLevel[c] >= epoch[c]
  /\ FreshAnswers(down[c], tuned)
  /\ result[c] # << >> /\ Set(result[c][1]) =>
       /\ result[c][1].epoch <= tuned
       /\ Since(hand[c], result[c][1].epoch) /\ Since(down[c], result[c][1].epoch)

\* Nothing read later is before anything read earlier, and all was read.
Line(c) ==
  /\ InOrder(m_fifoTS[c]) /\ InOrder(hand[c]) /\ InOrder(down[c])
  /\ Before(m_fifoTS[c], hand[c]) /\ Before(m_fifoTS[c], down[c]) /\ Before(hand[c], down[c])
  /\ UpTo(m_fifoTS[c], units - Len(buf)) /\ UpTo(hand[c], units - Len(buf))
  /\ UpTo(down[c], units - Len(buf))

ClientInv(c) == Protocol(c) /\ Fresh(c) /\ Line(c)

IInv == Types /\ ReaderInv /\ \A c \in Clients : ClientInv(c)

-----------------------------------------------------------------------------
(* Queues                                                                   *)

LEMMA TailIs ==
  ASSUME NEW S, NEW s \in Seq(S), s # << >>
  PROVE  /\ Tail(s) \in Seq(S) /\ Head(s) = s[1] /\ s[1] \in S /\ Len(s) \in Nat \ {0}
         /\ Len(Tail(s)) = Len(s) - 1
         /\ \A k \in 1..Len(Tail(s)) : Tail(s)[k] = s[k + 1] /\ k + 1 \in 1..Len(s)
<1>1. Len(s) \in Nat \ {0}
  BY EmptySeq, LenProperties
<1>2. Tail(s) \in Seq(S) /\ Len(Tail(s)) = Len(s) - 1 /\ \A k \in 1..(Len(s) - 1) : Tail(s)[k] = s[k + 1]
  BY HeadTailProperties
<1>3. Head(s) = s[1] /\ s[1] \in S
  BY <1>1, ElementOfSeq
<1> QED
  BY <1>1, <1>2, <1>3

LEMMA ConcatIs ==
  ASSUME NEW S, NEW s \in Seq(S), NEW t \in Seq(S)
  PROVE  /\ s \o t \in Seq(S) /\ Len(s) \in Nat /\ Len(t) \in Nat
         /\ Len(s \o t) = Len(s) + Len(t)
         /\ \A k \in 1..Len(s) : k \in 1..Len(s \o t) /\ (s \o t)[k] = s[k]
         /\ \A k \in 1..Len(s \o t) :
              \/ k \in 1..Len(s) /\ (s \o t)[k] = s[k]
              \/ k > Len(s) /\ k - Len(s) \in 1..Len(t) /\ (s \o t)[k] = t[k - Len(s)]
<1>1. /\ s \o t \in Seq(S) /\ Len(s \o t) = Len(s) + Len(t) /\ Len(s) \in Nat /\ Len(t) \in Nat
      /\ \A i \in 1..(Len(s) + Len(t)) : (s \o t)[i] = IF i <= Len(s) THEN s[i] ELSE t[i - Len(s)]
  BY ConcatProperties, LenProperties
<1>2. ASSUME NEW k \in 1..Len(s \o t)
      PROVE  \/ k \in 1..Len(s) /\ (s \o t)[k] = s[k]
             \/ k > Len(s) /\ k - Len(s) \in 1..Len(t) /\ (s \o t)[k] = t[k - Len(s)]
  <2>1. CASE k <= Len(s)
    BY <1>1, <2>1
  <2>2. CASE k > Len(s)
    BY <1>1, <2>2
  <2> QED
    BY <1>1, <2>1, <2>2
<1>3. ASSUME NEW k \in 1..Len(s) PROVE k \in 1..Len(s \o t) /\ (s \o t)[k] = s[k]
  BY <1>1
<1> QED
  BY <1>1, <1>2, <1>3

LEMMA OneIs ==
  ASSUME NEW S, NEW m \in S
  PROVE  <<m>> \in Seq(S) /\ Len(<<m>>) = 1 /\ <<m>>[1] = m /\ <<m>> # << >>
OBVIOUS

LEMMA EmptyIs ==
  ASSUME NEW S
  PROVE  << >> \in Seq(S) /\ Len(<< >>) = 0 /\ 1..0 = {}
BY EmptySeq

LEMMA AppendIs ==
  ASSUME NEW S, NEW s \in Seq(S), NEW m \in S
  PROVE  Append(s, m) = s \o <<m>> /\ Append(s, m) \in Seq(S) /\ s \o <<m>> \in Seq(S)
BY AppendIsConcat, ConcatProperties, OneIs

\* What is left of a queue keeps what was known of it, and so does its head.
LEMMA EmptyKeeps ==
  ASSUME NEW e
  PROVE  /\ InOrder(<< >>) /\ UpTo(<< >>, e) /\ Since(<< >>, e) /\ NoAnswer(<< >>)
         /\ Before(<< >>, e) /\ Before(e, << >>) /\ FreshAnswers(<< >>, e)
BY EmptyIs DEF InOrder, UpTo, Since, NoAnswer, Before, FreshAnswers

LEMMA TailKeeps ==
  ASSUME NEW S, NEW s \in Seq(S), s # << >>
  PROVE  /\ InOrder(s) => InOrder(Tail(s)) /\ Before(<<s[1]>>, Tail(s))
         /\ \A t : Before(t, s) => Before(t, Tail(s)) /\ Before(t, <<s[1]>>)
         /\ \A t : Before(s, t) => Before(Tail(s), t) /\ Before(<<s[1]>>, t)
         /\ \A n : UpTo(s, n) => UpTo(Tail(s), n) /\ UpTo(<<s[1]>>, n)
         /\ \A e : Since(s, e) => Since(Tail(s), e) /\ Since(<<s[1]>>, e)
         /\ NoAnswer(s) => NoAnswer(Tail(s)) /\ IsTs(s[1])
         /\ \A n : FreshAnswers(s, n) =>
              /\ FreshAnswers(Tail(s), n)
              /\ Set(s[1]) => s[1].epoch <= n /\ Since(Tail(s), s[1].epoch)
         /\ \A type : OneAnswer(s, type) =>
              IF IsTs(s[1]) /\ type # "ts" THEN OneAnswer(Tail(s), type)
              ELSE IsTs(s[1]) \/ (NoAnswer(Tail(s)) /\ s[1].type = type)
<1> DEFINE r == Tail(s)
<1>1. /\ Len(s) \in Nat \ {0} /\ Len(r) = Len(s) - 1 /\ 1 \in 1..Len(s)
      /\ \A k \in 1..Len(r) : r[k] = s[k + 1] /\ k + 1 \in 1..Len(s) /\ 1 < k + 1 /\ k \in Int
  BY TailIs
<1>2. Len(<<s[1]>>) = 1 /\ <<s[1]>>[1] = s[1] /\ \A k \in 1..1 : k = 1
  OBVIOUS
<1> DEFINE h == <<s[1]>>
<1> HIDE DEF r, h
<1>3. InOrder(s) => InOrder(r)
  BY <1>1 DEF InOrder
<1>4. InOrder(s) => Before(h, r)
  BY <1>1, <1>2 DEF InOrder, Before, h
<1>5. ASSUME NEW t, Before(t, s) PROVE Before(t, r) /\ Before(t, h)
  BY <1>1, <1>2, <1>5 DEF Before, h
<1>6. ASSUME NEW t, Before(s, t) PROVE Before(r, t) /\ Before(h, t)
  BY <1>1, <1>2, <1>6 DEF Before, h
<1>7. ASSUME NEW n, UpTo(s, n) PROVE UpTo(r, n) /\ UpTo(h, n)
  BY <1>1, <1>2, <1>7 DEF UpTo, h
<1>8. ASSUME NEW e, Since(s, e) PROVE Since(r, e) /\ Since(h, e)
  BY <1>1, <1>2, <1>8 DEF Since, h
<1>9. NoAnswer(s) => NoAnswer(r) /\ IsTs(s[1])
  BY <1>1 DEF NoAnswer
<1>10. ASSUME NEW n, FreshAnswers(s, n)
       PROVE  FreshAnswers(r, n) /\ (Set(s[1]) => s[1].epoch <= n /\ Since(r, s[1].epoch))
  <2>1. ASSUME NEW k \in 1..Len(s), Set(s[k])
        PROVE  s[k].epoch <= n /\ \A l \in 1..Len(s) : k < l /\ IsTs(s[l]) => s[l].cnr >= s[k].epoch
    BY <1>10, <2>1, Zenon DEF FreshAnswers
  <2>2. ASSUME NEW k \in 1..Len(r), Set(r[k])
        PROVE  r[k].epoch <= n /\ \A l \in 1..Len(r) : k < l /\ IsTs(r[l]) => r[l].cnr >= r[k].epoch
    <3>1. r[k] = s[k + 1] /\ k + 1 \in 1..Len(s)
      BY <1>1
    <3>2. s[k + 1].epoch <= n
          /\ \A l \in 1..Len(s) : k + 1 < l /\ IsTs(s[l]) => s[l].cnr >= s[k + 1].epoch
      BY <2>1, <2>2, <3>1, Zenon
    <3> QED
      BY <1>1, <3>1, <3>2
  <2>3. ASSUME Set(s[1]) PROVE s[1].epoch <= n /\ Since(r, s[1].epoch)
    BY <1>1, <2>1, <2>3 DEF Since
  <2> QED
    BY <2>2, <2>3 DEF FreshAnswers
<1>11. ASSUME NEW type, OneAnswer(s, type)
       PROVE  IF IsTs(s[1]) /\ type # "ts" THEN OneAnswer(r, type)
              ELSE IsTs(s[1]) \/ (NoAnswer(r) /\ s[1].type = type)
  <2>1. PICK k \in 1..Len(s) : s[k].type = type /\ \A l \in 1..Len(s) : l # k => IsTs(s[l])
    BY <1>11 DEF OneAnswer
  <2>2. CASE k = 1
    BY <1>1, <2>1, <2>2 DEF NoAnswer, IsTs
  <2>3. CASE k # 1
    <3>1. k - 1 \in 1..Len(r) /\ k = (k - 1) + 1 /\ IsTs(s[1])
      BY <1>1, <2>1, <2>3
    <3>2. \A l \in 1..Len(r) : l # k - 1 => IsTs(r[l])
      BY <1>1, <2>1
    <3>3. OneAnswer(r, type)
      BY <1>1, <2>1, <3>1, <3>2 DEF OneAnswer
    <3> QED
      BY <3>1, <3>3
  <2> QED
    BY <2>2, <2>3
<1> QED
  BY <1>3, <1>4, <1>5, <1>6, <1>7, <1>8, <1>9, <1>10, <1>11 DEF r, h

LEMMA ConcatKeeps ==
  ASSUME NEW S, NEW s \in Seq(S), NEW t \in Seq(S)
  PROVE  /\ InOrder(s) /\ InOrder(t) /\ Before(s, t) => InOrder(s \o t)
         /\ \A r : Before(r, s) /\ Before(r, t) => Before(r, s \o t)
         /\ \A r : Before(s, r) /\ Before(t, r) => Before(s \o t, r)
         /\ \A n : UpTo(s, n) /\ UpTo(t, n) => UpTo(s \o t, n)
         /\ \A e : Since(s, e) /\ Since(t, e) => Since(s \o t, e)
         /\ NoAnswer(s) /\ NoAnswer(t) => NoAnswer(s \o t)
         /\ \A type : OneAnswer(s, type) /\ NoAnswer(t) => OneAnswer(s \o t, type)
<1> DEFINE w == s \o t
<1>1. /\ Len(s) \in Nat /\ Len(t) \in Nat
      /\ \A k \in 1..Len(s) : k \in 1..Len(w) /\ w[k] = s[k]
      /\ \A k \in 1..Len(w) :
           \/ k \in 1..Len(s) /\ w[k] = s[k]
           \/ k > Len(s) /\ k - Len(s) \in 1..Len(t) /\ w[k] = t[k - Len(s)]
  BY ConcatIs
<1> HIDE DEF w
<1>2. ASSUME InOrder(s), InOrder(t), Before(s, t), NEW k \in 1..Len(w), NEW l \in 1..Len(w),
             k < l, IsTs(w[k]), IsTs(w[l])
      PROVE  Last(w[k]) < First(w[l])
  <2>1. CASE l \in 1..Len(s) /\ w[l] = s[l]
    <3>1. k \in 1..Len(s) /\ w[k] = s[k]
      BY <1>1, <1>2, <2>1
    <3> QED
      BY <1>2, <2>1, <3>1, Zenon DEF InOrder
  <2>2. CASE l > Len(s) /\ l - Len(s) \in 1..Len(t) /\ w[l] = t[l - Len(s)]
    <3>1. CASE k \in 1..Len(s) /\ w[k] = s[k]
      BY <1>2, <2>2, <3>1, Zenon DEF Before
    <3>2. CASE k > Len(s) /\ k - Len(s) \in 1..Len(t) /\ w[k] = t[k - Len(s)]
      <4>1. k - Len(s) < l - Len(s)
        BY <1>1, <1>2
      <4> QED
        BY <1>2, <2>2, <3>2, <4>1, Zenon DEF InOrder
    <3> QED
      BY <1>1, <3>1, <3>2
  <2> QED
    BY <1>1, <2>1, <2>2
<1>3. ASSUME NEW r, Before(r, s), Before(r, t) PROVE Before(r, w)
  BY <1>1, <1>3 DEF Before
<1>4. ASSUME NEW r, Before(s, r), Before(t, r) PROVE Before(w, r)
  BY <1>1, <1>4 DEF Before
<1>5. ASSUME NEW n, UpTo(s, n), UpTo(t, n) PROVE UpTo(w, n)
  BY <1>1, <1>5 DEF UpTo
<1>6. ASSUME NEW e, Since(s, e), Since(t, e) PROVE Since(w, e)
  BY <1>1, <1>6 DEF Since
<1>7. NoAnswer(s) /\ NoAnswer(t) => NoAnswer(w)
  BY <1>1 DEF NoAnswer
<1>8. ASSUME NEW type, OneAnswer(s, type), NoAnswer(t) PROVE OneAnswer(w, type)
  <2>1. PICK k \in 1..Len(s) : s[k].type = type /\ \A l \in 1..Len(s) : l # k => IsTs(s[l])
    BY <1>8 DEF OneAnswer
  <2>2. k \in 1..Len(w) /\ w[k].type = type
    BY <1>1, <2>1
  <2>3. ASSUME NEW l \in 1..Len(w), l # k PROVE IsTs(w[l])
    BY <1>1, <1>8, <2>1, <2>3 DEF NoAnswer
  <2> QED
    BY <2>2, <2>3 DEF OneAnswer
<1> QED
  BY <1>2, <1>3, <1>4, <1>5, <1>6, <1>7, <1>8 DEF InOrder, w

LEMMA MessageTypes ==
  /\ \A m \in GoodPackets :
       /\ IsTs(m) /\ ~Set(m) /\ m \in Messages /\ m \in Packets /\ m.cnr \in 0..MaxTunes
       /\ First(m) \in Nat \ {0} /\ Last(m) = First(m) + (Len(m.data) - 1)
       /\ Len(m.data) \in Nat \ {0}
  /\ \A m \in Answers : ~IsTs(m) /\ m \in Messages /\ (Set(m) => m.epoch \in 0..MaxTunes)
  /\ \A m \in Messages : IF IsTs(m) THEN m \in GoodPackets ELSE m \in Answers
<1>1. ASSUME NEW m \in GoodPackets
      PROVE  /\ IsTs(m) /\ ~Set(m) /\ m \in Packets /\ m.cnr \in 0..MaxTunes
             /\ First(m) \in Nat \ {0} /\ Last(m) = First(m) + (Len(m.data) - 1)
             /\ Len(m.data) \in Nat \ {0}
  <2>1. m \in Packets /\ m.type = "ts" /\ m.cnr \in 0..MaxTunes /\ m.data \in Seq(Units)
    BY DEF GoodPackets, Packets
  <2>2. Len(m.data) \in 1..BufSize /\ \A u \in 1..Len(m.data) : m.data[u] = <<m.cnr, First(m) + (u - 1)>>
    BY DEF GoodPackets
  <2>3. Len(m.data) \in Nat \ {0} /\ 1 \in 1..Len(m.data) /\ Len(m.data) \in 1..Len(m.data)
    BY <2>2, SizeAssumption
  <2>4. m.data[1] \in Units
    BY <2>1, <2>3, ElementOfSeq
  <2>5. First(m) \in Nat \ {0}
    BY <2>4 DEF First, Units
  <2>6. Last(m) = First(m) + (Len(m.data) - 1)
    <3>1. m.data[Len(m.data)] = <<m.cnr, First(m) + (Len(m.data) - 1)>>
      BY <2>2, <2>3, Zenon
    <3> QED
      BY <3>1 DEF Last
  <2> QED
    BY <2>1, <2>3, <2>5, <2>6 DEF IsTs, Set
<1>2. \A m \in Answers : ~IsTs(m) /\ (Set(m) => m.epoch \in 0..MaxTunes)
  BY DEF Answers, IsTs, Set
<1> QED
  BY <1>1, <1>2 DEF Messages

\* An answer at the end of a queue.
LEMMA AnswerKeeps ==
  ASSUME NEW s \in Seq(Messages), NEW m \in Answers
  PROVE  /\ Append(s, m) \in Seq(Messages)
         /\ InOrder(s) => InOrder(Append(s, m))
         /\ \A t : Before(t, s) => Before(t, Append(s, m))
         /\ \A n : UpTo(s, n) => UpTo(Append(s, m), n)
         /\ \A e : Since(s, e) => Since(Append(s, m), e)
         /\ NoAnswer(s) => OneAnswer(Append(s, m), m.type)
         /\ \A n : FreshAnswers(s, n) /\ (Set(m) => m.epoch <= n) => FreshAnswers(Append(s, m), n)
<1>1. m \in Messages /\ ~IsTs(m)
  BY MessageTypes
<1> DEFINE h == <<m>>
           w == s \o h
<1>2. Append(s, m) = w /\ w \in Seq(Messages) /\ h \in Seq(Messages) /\ Len(h) = 1 /\ h[1] = m
  BY <1>1, AppendIs, OneIs
<1>3. /\ Len(s) \in Nat /\ Len(w) = Len(s) + Len(h)
      /\ \A k \in 1..Len(s) : k \in 1..Len(w) /\ w[k] = s[k]
      /\ \A k \in 1..Len(w) :
           \/ k \in 1..Len(s) /\ w[k] = s[k]
           \/ k > Len(s) /\ k - Len(s) \in 1..Len(h) /\ w[k] = h[k - Len(s)]
  <2> HIDE DEF h
  <2> QED
    BY <1>2, ConcatIs
<1>4. \A k \in 1..Len(h) : k = 1 /\ h[k] = m
  BY <1>2
<1> HIDE DEF h, w
<1>5. \A k \in 1..Len(w) :
        (k \in 1..Len(s) /\ w[k] = s[k]) \/ (k = Len(s) + 1 /\ w[k] = m)
  <2>1. ASSUME NEW k \in 1..Len(w), k - Len(s) \in 1..Len(h), w[k] = h[k - Len(s)]
        PROVE  k = Len(s) + 1 /\ w[k] = m
    <3>1. k - Len(s) = 1 /\ w[k] = h[1]
      BY <1>4, <2>1
    <3> QED
      BY <1>2, <1>3, <3>1
  <2> QED
    BY <1>3, <2>1
<1>6. InOrder(h) /\ \A e : Before(e, h) /\ Before(s, h) /\ UpTo(h, e) /\ Since(h, e)
  BY <1>1, <1>4 DEF InOrder, Before, UpTo, Since
<1>7. /\ InOrder(s) => InOrder(w)
      /\ \A t : Before(t, s) => Before(t, w)
      /\ \A n : UpTo(s, n) => UpTo(w, n)
      /\ \A e : Since(s, e) => Since(w, e)
  BY <1>2, <1>6, ConcatKeeps DEF w
<1>8. ASSUME NoAnswer(s) PROVE OneAnswer(w, m.type)
  <2>1. Len(s) + 1 \in 1..Len(w) /\ w[Len(s) + 1] = m
    BY <1>2, <1>3, <1>5
  <2>2. \A l \in 1..Len(w) : l # Len(s) + 1 => IsTs(w[l])
    BY <1>5, <1>8 DEF NoAnswer
  <2> QED
    BY <2>1, <2>2 DEF OneAnswer
<1>9. ASSUME NEW n, FreshAnswers(s, n), Set(m) => m.epoch <= n PROVE FreshAnswers(w, n)
  <2>1. ASSUME NEW k \in 1..Len(s), Set(s[k])
        PROVE  s[k].epoch <= n /\ \A l \in 1..Len(s) : k < l /\ IsTs(s[l]) => s[l].cnr >= s[k].epoch
    BY <1>9, <2>1, Zenon DEF FreshAnswers
  <2>2. ASSUME NEW k \in 1..Len(w), Set(w[k])
        PROVE  w[k].epoch <= n /\ \A l \in 1..Len(w) : k < l /\ IsTs(w[l]) => w[l].cnr >= w[k].epoch
    <3>1. CASE k \in 1..Len(s) /\ w[k] = s[k]
      <4>1. s[k].epoch <= n /\ \A l \in 1..Len(s) : k < l /\ IsTs(s[l]) => s[l].cnr >= s[k].epoch
        BY <2>1, <2>2, <3>1
      <4> QED
        BY <1>1, <1>5, <3>1, <4>1
    <3>2. CASE k = Len(s) + 1 /\ w[k] = m
      <4>1. \A l \in 1..Len(w) : ~(k < l)
        BY <1>2, <1>3, <3>2
      <4> QED
        BY <1>9, <2>2, <3>2, <4>1
    <3> QED
      BY <1>5, <3>1, <3>2
  <2> QED
    BY <2>2 DEF FreshAnswers
<1> QED
  BY <1>2, <1>7, <1>8, <1>9, Zenon

\* TS of the channel received now at the end of a queue.
LEMMA ArrivalKeeps ==
  ASSUME NEW s \in Seq(Messages), NEW t \in Seq(GoodPackets), NEW now \in Nat,
         \A k \in 1..Len(t) : t[k].cnr = now
  PROVE  /\ s \o t \in Seq(Messages) /\ t \in Seq(Messages)
         /\ NoAnswer(s) => NoAnswer(s \o t)
         /\ \A type : OneAnswer(s, type) => OneAnswer(s \o t, type)
         /\ \A e : e <= now /\ Since(s, e) => Since(s \o t, e)
         /\ FreshAnswers(s, now) => FreshAnswers(s \o t, now)
<1> DEFINE w == s \o t
<1>1. t \in Seq(Messages) /\ \A k \in 1..Len(t) : t[k] \in GoodPackets
  BY ElementOfSeq DEF Messages
<1>2. NoAnswer(t) /\ \A e : e <= now => Since(t, e)
  BY <1>1, MessageTypes DEF NoAnswer, Since
<1>3. /\ Len(s) \in Nat /\ w \in Seq(Messages)
      /\ \A k \in 1..Len(s) : k \in 1..Len(w) /\ w[k] = s[k]
      /\ \A k \in 1..Len(w) :
           \/ k \in 1..Len(s) /\ w[k] = s[k]
           \/ k > Len(s) /\ k - Len(s) \in 1..Len(t) /\ w[k] = t[k - Len(s)]
  BY <1>1, ConcatIs
<1>4. /\ NoAnswer(s) => NoAnswer(w)
      /\ \A type : OneAnswer(s, type) => OneAnswer(w, type)
      /\ \A e : e <= now /\ Since(s, e) => Since(w, e)
  BY <1>1, <1>2, ConcatKeeps
<1> HIDE DEF w
<1>5. ASSUME FreshAnswers(s, now) PROVE FreshAnswers(w, now)
  <2>1. ASSUME NEW k \in 1..Len(s), Set(s[k])
        PROVE  s[k].epoch <= now /\ \A l \in 1..Len(s) : k < l /\ IsTs(s[l]) => s[l].cnr >= s[k].epoch
    BY <1>5, <2>1, Zenon DEF FreshAnswers
  <2>2. ASSUME NEW k \in 1..Len(w), Set(w[k])
        PROVE  w[k].epoch <= now /\ \A l \in 1..Len(w) : k < l /\ IsTs(w[l]) => w[l].cnr >= w[k].epoch
    <3>1. k \in 1..Len(s) /\ w[k] = s[k]
      BY <1>1, <1>3, <2>2, MessageTypes
    <3>2. s[k].epoch <= now /\ \A l \in 1..Len(s) : k < l /\ IsTs(s[l]) => s[l].cnr >= s[k].epoch
      BY <2>1, <2>2, <3>1
    <3> QED
      BY <1>3, <3>1, <3>2
  <2> QED
    BY <2>2 DEF FreshAnswers
<1> QED
  BY <1>1, <1>3, <1>4, <1>5 DEF w

LEMMA PushIs ==
  ASSUME NEW q \in Seq(Messages), NEW ts \in Seq(GoodPackets)
  PROVE  \E new \in Seq(GoodPackets) :
           /\ PushTs(q, ts) = q \o new
           /\ \A k \in 1..Len(new) : k \in 1..Len(ts) /\ new[k] = ts[k]
           /\ ts # << >> /\ Len(q) < FifoSize => new # << >>
<1> DEFINE room == IF Len(q) >= FifoSize THEN 0 ELSE FifoSize - Len(q)
           m == IF Len(ts) < room THEN Len(ts) ELSE room
           new == SubSeq(ts, 1, m)
<1>1. PushTs(q, ts) = q \o new
  BY DEF PushTs
<1>2. /\ Len(ts) \in Nat /\ Len(q) \in Nat /\ m \in 0..Len(ts)
      /\ Len(q) < FifoSize /\ Len(ts) # 0 => m # 0
  BY LenProperties, SizeAssumption
<1> HIDE DEF m
<1>3. \A i \in 1..m : ts[i] \in GoodPackets
  BY <1>2, ElementOfSeq
<1>4. /\ new \in Seq(GoodPackets) /\ Len(new) = IF 1 <= m THEN m - 1 + 1 ELSE 0
      /\ \A i \in 1..(m - 1 + 1) : new[i] = ts[1 + i - 1]
  BY <1>2, <1>3, SubSeqProperties
<1> HIDE DEF new
<1>5. Len(new) = m /\ \A i \in 1..Len(new) : i \in 1..Len(ts) /\ new[i] = ts[i]
  BY <1>2, <1>4
<1>6. ts # << >> => Len(ts) # 0
  BY EmptySeq
<1>7. Len(<< >>) = 0
  OBVIOUS
<1> QED
  BY <1>1, <1>2, <1>4, <1>5, <1>6, <1>7

\* What an iteration of the reader does.
LEMMA ReadIs ==
  ASSUME IInv, ReadOnce
  PROVE  \E ts \in Seq(GoodPackets) :
           /\ units' \in Nat /\ units <= units' /\ fSignalLevel' = tuned
           /\ Len(buf') < BufSize /\ Len(buf') <= units' /\ Run(buf', units' - Len(buf'))
           /\ units - Len(buf) <= units' - Len(buf')
           /\ InOrder(ts) /\ UpTo(ts, units' - Len(buf'))
           /\ \A k \in 1..Len(ts) : ts[k].cnr = tuned /\ First(ts[k]) > units - Len(buf)
           /\ buf' = << >> => ts # << >>
           /\ down' = [c \in Clients |-> IF c \in TsReceiversList
                                         THEN PushTs(down[c], ts) ELSE down[c]]
<1>1. PICK measure \in BOOLEAN, n \in ChunkSizes, remain \in BOOLEAN :
        /\ ChannelChanged => measure
        /\ LET chunk  == [k \in 1..n |-> <<tuned, units + k>>]
               packed == Packed(chunk, remain)
               level  == IF measure THEN tuned ELSE fSignalLevel
               ts     == [k \in 1..Len(packed.out) |->
                            [type |-> "ts", data |-> packed.out[k], cnr |-> level]]
           IN  /\ fSignalLevel' = level
               /\ buf' = packed.buf
               /\ down' = [c \in Clients |-> IF c \in TsReceiversList
                                             THEN PushTs(down[c], ts) ELSE down[c]]
        /\ units' = units + n
  BY Zenon DEF ReadOnce
<1> DEFINE chunk == [k \in 1..n |-> <<tuned, units + k>>]
           p == Packed(chunk, remain)
           out == p.out
           level == IF measure THEN tuned ELSE fSignalLevel
           ts == [k \in 1..Len(out) |-> [type |-> "ts", data |-> out[k], cnr |-> level]]
           b == Len(buf)
           a == units - b
           total == b + Len(chunk)
<1>2. /\ tuned \in 0..MaxTunes /\ units \in Nat /\ n \in Nat \ {0} /\ BufSize \in Nat \ {0}
      /\ level = tuned /\ Run(buf, a) /\ b < BufSize /\ b <= units
  BY <1>1, SizeAssumption DEF IInv, Types, ReaderInv, ReadOnce
<1>3. b \in Nat /\ a \in Nat /\ a + b = units
  BY <1>2, LenProperties DEF Run
<1>4. Run(chunk, a + b) /\ Len(chunk) = n /\ chunk # << >> /\ total = b + n
  <2>1. chunk \in [1..n -> Units]
    BY <1>2 DEF Units
  <2>2. chunk \in Seq(Units) /\ Len(chunk) = n
    BY <1>2, <2>1, SeqDef, LenProperties
  <2>3. chunk # << >>
    BY <1>2, <2>2, EmptySeq
  <2>4. \A u \in 1..Len(chunk) : chunk[u] = <<tuned, a + b + u>>
    BY <1>3, <2>2
  <2> QED
    BY <2>2, <2>3, <2>4 DEF Run
<1> HIDE DEF b, a, chunk, total
<1>5. /\ out \in Seq(Seq(Units))
      /\ Len(p.buf) \in 0..total /\ Len(p.buf) < BufSize
      /\ Run(p.buf, a + total - Len(p.buf))
      /\ \A j \in 1..Len(out) :
           Packet(out[j], a, j) /\ (j - 1) * BufSize + Len(out[j]) <= total - Len(p.buf)
      /\ p.buf = << >> => out # << >>
  <2>1. Run(buf, a) /\ Run(chunk, a + Len(buf)) /\ Len(buf) < BufSize /\ total = Len(buf) + Len(chunk)
    BY <1>2, <1>4 DEF b, total
  <2> QED
    BY <1>2, <1>3, <1>4, <2>1, PackedIs
<1>6. /\ buf' = p.buf /\ fSignalLevel' = level /\ units' = units + n
      /\ down' = [c \in Clients |-> IF c \in TsReceiversList THEN PushTs(down[c], ts) ELSE down[c]]
  BY <1>1 DEF chunk
<1> HIDE DEF p, level
<1>7. /\ units' \in Nat /\ Len(buf') <= units' /\ a + total - Len(p.buf) = units' - Len(buf')
      /\ units - b <= units' - Len(buf') /\ units' - Len(buf') = a + (total - Len(p.buf))
  BY <1>2, <1>3, <1>4, <1>5, <1>6
<1>8. Len(out) \in Nat /\ Len(ts) = Len(out) /\ \A k \in 1..Len(out) : out[k] \in Seq(Units)
  <2>1. Len(out) \in Nat
    BY <1>5, LenProperties
  <2> DEFINE S == Seq(Units)
  <2> HIDE DEF S, out
  <2>2. \A k \in 1..Len(out) : out[k] \in S
    BY <1>5, ElementOfSeq DEF S
  <2> QED
    BY <2>1, <2>2 DEF S
<1>9. \A k \in 1..Len(out) : ts[k] = [type |-> "ts", data |-> out[k], cnr |-> tuned]
  BY <1>2
<1> HIDE DEF ts, out
<1>10. ASSUME NEW k \in 1..Len(out)
       PROVE  /\ ts[k] \in GoodPackets /\ ts[k].cnr = tuned /\ ts[k].data = out[k]
              /\ First(ts[k]) = a + (k - 1) * BufSize + 1
              /\ Last(ts[k]) = a + ((k - 1) * BufSize + Len(out[k]))
              /\ Len(out[k]) \in 1..BufSize
  <2>1. ts[k].type = "ts" /\ ts[k].data = out[k] /\ ts[k].cnr = tuned /\ ts[k] \in Packets
    <3>1. ts[k] = [type |-> "ts", data |-> out[k], cnr |-> tuned]
      BY <1>9
    <3> DEFINE S == Seq(Units)
    <3>2. out[k] \in S /\ tuned \in 0..MaxTunes
      BY <1>2, <1>8
    <3>3. Packets = [type : {"ts"}, data : S, cnr : 0..MaxTunes]
      BY DEF Packets
    <3> HIDE DEF S
    <3> QED
      BY <3>1, <3>2, <3>3
  <2>2. PICK x \in Nat : x = (k - 1) * BufSize
    <3>1. k - 1 \in Nat
      BY <1>8
    <3> QED
      BY <1>2, <3>1
  <2>3. Len(out[k]) \in 1..BufSize /\ \A u \in 1..Len(out[k]) : out[k][u] = <<tuned, a + x + u>>
    BY <1>5, <2>2 DEF Packet, Run
  <2>4. 1 \in 1..Len(out[k]) /\ Len(out[k]) \in 1..Len(out[k])
    BY <1>2, <2>3
  <2>5. First(ts[k]) = a + x + 1 /\ Last(ts[k]) = a + x + Len(out[k])
    BY <2>1, <2>3, <2>4 DEF First, Last
  <2>6. \A u \in 1..Len(out[k]) : out[k][u] = <<tuned, First(ts[k]) + (u - 1)>>
    <3>1. ASSUME NEW u \in 1..Len(out[k]) PROVE a + x + u = First(ts[k]) + (u - 1)
      BY <1>3, <2>2, <2>3, <2>5
    <3> QED
      BY <2>3, <3>1
  <2>7. ts[k] \in GoodPackets
    BY <2>1, <2>3, <2>6, Zenon DEF GoodPackets
  <2>8. a + x + Len(out[k]) = a + (x + Len(out[k]))
    BY <1>3, <2>2, <2>3
  <2> QED
    BY <2>1, <2>2, <2>3, <2>5, <2>7, <2>8
<1>11. ts \in Seq(GoodPackets)
  <2>1. ts \in [1..Len(out) -> GoodPackets]
    BY <1>10 DEF ts
  <2> QED
    BY <1>8, <2>1, SeqDef
<1>12. InOrder(ts)
  <2>1. ASSUME NEW k \in 1..Len(ts), NEW l \in 1..Len(ts), k < l PROVE Last(ts[k]) < First(ts[l])
    <3>1. k - 1 \in Nat /\ l - 1 \in Nat /\ k - 1 < l - 1
      BY <1>8, <2>1
    <3>2. PICK x \in Nat, y \in Nat : x = (k - 1) * BufSize /\ y = (l - 1) * BufSize
      BY <1>2, <3>1
    <3>3. x + BufSize <= y
      BY <1>2, <3>1, <3>2, Multiples
    <3>4. First(ts[l]) = a + y + 1 /\ Last(ts[k]) = a + (x + Len(out[k])) /\ Len(out[k]) \in 1..BufSize
      BY <1>8, <1>10, <3>2
    <3> QED
      BY <1>2, <1>3, <3>3, <3>4
  <2> QED
    BY <2>1 DEF InOrder
<1>13. UpTo(ts, units' - Len(buf'))
  <2>1. ASSUME NEW k \in 1..Len(ts) PROVE Last(ts[k]) <= units' - Len(buf')
    <3>1. PICK x : x = (k - 1) * BufSize + Len(out[k])
      OBVIOUS
    <3>2. x \in Int
      BY <1>2, <1>8, <1>10, <3>1
    <3>3. Last(ts[k]) = a + x /\ x <= total - Len(p.buf)
      BY <1>5, <1>8, <1>10, <3>1
    <3>4. PICK d : d = total - Len(p.buf)
      OBVIOUS
    <3>5. d \in Int
      BY <1>3, <1>4, <1>2, <1>5, <3>4
    <3>6. a + x <= a + d
      BY <1>3, <3>2, <3>3, <3>4, <3>5
    <3> QED
      BY <1>7, <3>3, <3>4, <3>6
  <2> QED
    BY <2>1 DEF UpTo
<1>14. \A k \in 1..Len(ts) : ts[k].cnr = tuned /\ First(ts[k]) > units - b
  <2>1. ASSUME NEW k \in 1..Len(ts) PROVE First(ts[k]) > a
    <3>1. k - 1 \in Nat
      BY <1>8
    <3>2. PICK x \in Nat : x = (k - 1) * BufSize
      BY <1>2, <3>1
    <3> QED
      BY <1>3, <1>8, <1>10, <3>2
  <2> QED
    BY <1>8, <1>10, <2>1 DEF a
<1>15. buf' = << >> => ts # << >>
  <2>1. buf' = << >> => Len(out) # 0
    BY <1>5, <1>6, EmptySeq DEF out
  <2>2. Len(<< >>) = 0
    OBVIOUS
  <2> QED
    BY <1>8, <2>1, <2>2
<1>16. Run(buf', units' - Len(buf')) /\ Len(buf') < BufSize /\ fSignalLevel' = tuned /\ units <= units'
  <2>1. Len(buf') < BufSize /\ fSignalLevel' = tuned /\ units <= units'
    BY <1>2, <1>5, <1>6
  <2>2. Run(buf', units' - Len(buf'))
    BY <1>5, <1>6, <1>7
  <2> QED
    BY <2>1, <2>2
<1> QED
  BY <1>6, <1>7, <1>11, <1>12, <1>13, <1>14, <1>15, <1>16 DEF b

-----------------------------------------------------------------------------
(* The invariant holds at first and is kept                                 *)

LEMMA InitInv == Init => IInv
<1> SUFFICES ASSUME Init PROVE IInv
  OBVIOUS
<1>1. /\ << >> \in Seq(Messages) /\ << >> \in Seq(GoodPackets) /\ << >> \in Seq(Answers)
      /\ << >> \in Seq({"SetChannel", "Purge", "Open", "Close"}) /\ << >> \in Seq(Units)
      /\ Len(<< >>) = 0
  BY EmptyIs
<1>2. Types
  <2>1. /\ down \in [Clients -> Seq(Messages)] /\ hand \in [Clients -> Seq(GoodPackets)]
        /\ result \in [Clients -> Seq(Answers)] /\ m_fifoTS \in [Clients -> Seq(GoodPackets)]
        /\ request \in [Clients -> Seq({"SetChannel", "Purge", "Open", "Close"})]
    BY <1>1, Zenon DEF Init
  <2>2. /\ server \in [Clients -> {"idle", "tune", "tuned"}]
        /\ process \in [Clients -> {"idle", "cnr", "push"}]
        /\ m_fSignalLevel \in [Clients -> 0..MaxTunes] /\ m_bWaitCNR \in [Clients -> BOOLEAN]
        /\ m_bTuner \in [Clients -> BOOLEAN]
        /\ app \in [Clients -> {"idle", "channel", "flush", "level", "cnr", "purge", "open"}]
        /\ epoch \in [Clients -> 0..MaxTunes]
    BY BoundAssumption DEF Init
  <2>3. calls \in [Clients -> Nat] /\ \A c \in Clients : calls[c] <= MaxCalls[c]
    <3>1. calls = [c \in Clients |-> 0] /\ \A c \in Clients : MaxCalls[c] \in Nat
      BY BoundAssumption DEF Init
    <3>2. \A c \in Clients : calls[c] = 0
      BY <3>1
    <3> QED
      BY <3>1, <3>2
  <2>4. \A c \in Clients : Len(hand[c]) = IF process[c] = "idle" THEN 0 ELSE 1
    BY <1>1 DEF Init
  <2>5. tuned \in 0..MaxTunes /\ units \in Nat /\ ChannelChanged \in BOOLEAN
        /\ fSignalLevel \in 0..MaxTunes /\ TsReceiversList \subseteq Clients
    <3>1. ChannelChanged \in BOOLEAN /\ TsReceiversList \subseteq Clients
      BY Zenon DEF Init
    <3>2. tuned \in 0..MaxTunes /\ units \in Nat /\ fSignalLevel \in 0..MaxTunes
      BY BoundAssumption DEF Init
    <3> QED
      BY <3>1, <3>2
  <2> QED
    BY <2>1, <2>2, <2>3, <2>4, <2>5 DEF Types
<1>3. ReaderInv
  BY <1>1, SizeAssumption DEF Init, ReaderInv, Run
<1>4. ASSUME NEW c \in Clients PROVE ClientInv(c)
  <2>1. /\ down[c] = << >> /\ hand[c] = << >> /\ m_fifoTS[c] = << >> /\ result[c] = << >>
        /\ request[c] = << >> /\ server[c] = "idle" /\ app[c] = "idle"
        /\ epoch[c] = 0 /\ tuned = 0 /\ m_fSignalLevel[c] = 0
    BY DEF Init
  <2>2. Protocol(c)
    BY <2>1, EmptyKeeps DEF Protocol, Resting, Quiet, Closes
  <2>3. Fresh(c)
    BY <2>1, EmptyKeeps DEF Fresh
  <2>4. Line(c)
    BY <2>1, EmptyKeeps, Zenon DEF Line
  <2> QED
    BY <2>2, <2>3, <2>4 DEF ClientInv
<1> QED
  BY <1>2, <1>3, <1>4 DEF IInv

LEMMA ReaderStep ==
  ASSUME IInv, [Next]_vars
  PROVE  ReaderInv' /\ units' \in Nat /\ units - Len(buf) <= units' - Len(buf')
<1>1. /\ Types /\ ReaderInv /\ units \in Nat /\ tuned \in 0..MaxTunes /\ BufSize \in Nat \ {0}
      /\ Len(<< >>) = 0 /\ << >> \in Seq(Units)
  BY SizeAssumption, EmptyIs DEF IInv, Types
<1>2. Len(buf) \in Nat /\ Len(buf) <= units
  BY <1>1, LenProperties DEF ReaderInv, Run
<1>3. CASE ReadOnce
  <2>1. /\ units' \in Nat /\ fSignalLevel' = tuned /\ units - Len(buf) <= units' - Len(buf')
        /\ Len(buf') < BufSize /\ Len(buf') <= units' /\ Run(buf', units' - Len(buf'))
    BY <1>3, ReadIs
  <2>2. TsReceiversList' # {} /\ tuned' = tuned
    BY <1>3, Zenon DEF ReadOnce
  <2>3. Run(buf, units - Len(buf))'
    BY <2>1, <2>2 DEF Run
  <2> QED
    BY <2>1, <2>2, <2>3 DEF ReaderInv
<1>4. ASSUME UNCHANGED <<tuned, units, buf>>,
             TsReceiversList' = {} => TsReceiversList = {},
             TsReceiversList' # {} /\ ~ChannelChanged' => fSignalLevel' = tuned
      PROVE  ReaderInv'
  <2>1. Run(buf, units - Len(buf))'
    BY <1>1, <1>4 DEF ReaderInv, Run
  <2>2. TsReceiversList' = {} => buf' = << >>
    BY <1>1, <1>4 DEF ReaderInv
  <2>3. Len(buf') < BufSize /\ Len(buf') <= units'
    BY <1>1, <1>4 DEF ReaderInv
  <2> QED
    BY <1>4, <2>1, <2>2, <2>3 DEF ReaderInv
<1>5. ASSUME UNCHANGED units, buf' = << >>,
             TsReceiversList' # {} /\ ~ChannelChanged' => fSignalLevel' = tuned'
      PROVE  ReaderInv' /\ units' \in Nat /\ units - Len(buf) <= units' - Len(buf')
  <2>1. Run(buf, units - Len(buf))'
    BY <1>1, <1>5 DEF Run
  <2> QED
    BY <1>1, <1>2, <1>5, <2>1 DEF ReaderInv
<1>6. ASSUME UNCHANGED <<tuned, reader, TsReceiversList>>
      PROVE  ReaderInv' /\ units' \in Nat /\ units - Len(buf) <= units' - Len(buf')
  <2>1. UNCHANGED <<tuned, units, buf, ChannelChanged, fSignalLevel, TsReceiversList>>
    BY <1>6 DEF reader
  <2> QED
    BY <1>1, <1>2, <1>4, <2>1 DEF ReaderInv
<1>7. ASSUME NEW c \in Clients, SetChannelJoin(c) PROVE ReaderInv' /\ units' \in Nat /\ units - Len(buf) <= units' - Len(buf')
  <2>1. UNCHANGED <<tuned, units, buf, ChannelChanged, fSignalLevel>>
        /\ TsReceiversList' = IF TsReceiversList = {} THEN {} ELSE TsReceiversList \cup {c}
    BY <1>7 DEF SetChannelJoin, reader
  <2> QED
    BY <1>1, <1>2, <1>4, <2>1 DEF ReaderInv
<1>8. ASSUME NEW c \in Clients, Tune(c) PROVE ReaderInv' /\ units' \in Nat /\ units - Len(buf) <= units' - Len(buf')
  BY <1>5, <1>8 DEF Tune
<1>9. ASSUME NEW c \in Clients, SetChannelDone(c) PROVE ReaderInv' /\ units' \in Nat /\ units - Len(buf) <= units' - Len(buf')
  <2>1. UNCHANGED <<tuned, units, buf, fSignalLevel>> /\ TsReceiversList' = TsReceiversList \cup {c}
        /\ ChannelChanged' = (ChannelChanged \/ TsReceiversList = {})
    BY <1>9 DEF SetChannelDone
  <2>2. TsReceiversList' # {} /\ (~ChannelChanged' => fSignalLevel' = tuned)
    <3>1. ~ChannelChanged' => ~ChannelChanged /\ TsReceiversList # {}
      BY <2>1, Zenon
    <3> QED
      BY <1>1, <2>1, <3>1 DEF ReaderInv
  <2> QED
    BY <1>1, <1>2, <1>4, <2>1, <2>2 DEF ReaderInv
<1>10. ASSUME NEW c \in Clients, Purge(c) PROVE ReaderInv' /\ units' \in Nat /\ units - Len(buf) <= units' - Len(buf')
  <2>1. UNCHANGED <<tuned, units, ChannelChanged, fSignalLevel, TsReceiversList>>
        /\ buf' = IF TsReceiversList = {c} THEN << >> ELSE buf
    BY <1>10 DEF Purge
  <2>2. CASE TsReceiversList = {c}
    BY <1>1, <1>5, <2>1, <2>2 DEF ReaderInv
  <2>3. CASE TsReceiversList # {c}
    BY <1>1, <1>6, <2>1, <2>3 DEF reader
  <2> QED
    BY <2>2, <2>3
<1>11. ASSUME NEW c \in Clients, Close(c) PROVE ReaderInv' /\ units' \in Nat /\ units - Len(buf) <= units' - Len(buf')
  <2>1. CASE TsReceiversList \ {c} = {}
    BY <1>5, <1>11, <2>1 DEF Close
  <2>2. CASE TsReceiversList \ {c} # {}
    BY <1>1, <1>2, <1>4, <1>11, <2>2 DEF Close, ReaderInv
  <2> QED
    BY <2>1, <2>2
<1>12. ASSUME NEW c \in Clients,
              \/ SetChannelLocked(c) \/ TuneFails(c) \/ Open(c)
              \/ ProcessAnswer(c) \/ ProcessLevel(c) \/ ProcessCNR(c) \/ ProcessPush(c)
              \/ CallSetChannel(c) \/ SetChannelAnswered(c) \/ SetChannelFlush(c)
              \/ SetChannelLevel(c) \/ SetChannelCNR(c) \/ CallPurge(c) \/ PurgeAnswered(c) \/ CallOpen(c)
              \/ OpenAnswered(c) \/ CallClose(c) \/ GetTsStream(c)
       PROVE  UNCHANGED <<tuned, reader, TsReceiversList>>
  BY <1>12, Zenon DEF SetChannelLocked, TuneFails, Open, ProcessAnswer, ProcessLevel, ProcessCNR, ProcessPush,
       CallSetChannel, SetChannelAnswered, SetChannelFlush, SetChannelLevel, SetChannelCNR, CallPurge,
       PurgeAnswered, CallOpen, OpenAnswered, CallClose, GetTsStream, serverVars
<1>13. CASE Done \/ UNCHANGED vars
  BY <1>6, <1>13 DEF Done, vars, serverVars
<1> QED
  BY <1>1, <1>3, <1>6, <1>7, <1>8, <1>9, <1>10, <1>11, <1>12, <1>13, ReadIs DEF Next

\* What time does to a queue: more has been read, and later channels come.
LEMMA LaterKeeps ==
  ASSUME NEW s \in Seq(Messages), NEW n \in Int, NEW m \in Int, n <= m
  PROVE  /\ UpTo(s, n) => UpTo(s, m)
         /\ FreshAnswers(s, n) => FreshAnswers(s, m)
<1>1. \A k \in 1..Len(s) : s[k] \in Messages
  BY ElementOfSeq
<1>2. \A k \in 1..Len(s) : IsTs(s[k]) => Last(s[k]) \in Nat
  BY <1>1, MessageTypes
<1>3. UpTo(s, n) => UpTo(s, m)
  BY <1>2 DEF UpTo
<1>4. \A k \in 1..Len(s) : Set(s[k]) => s[k].epoch \in Nat
  <2>1. \A x \in Messages : Set(x) => x.epoch \in Nat
    <3>1. \A x \in Answers : Set(x) => x.epoch \in Nat
      BY BoundAssumption, MessageTypes
    <3> QED
      BY <3>1, MessageTypes, Zenon DEF Messages
  <2> QED
    BY <1>1, <2>1
<1>5. ASSUME FreshAnswers(s, n) PROVE FreshAnswers(s, m)
  <2>1. \A k \in 1..Len(s) : Set(s[k]) =>
          /\ s[k].epoch <= n
          /\ \A l \in 1..Len(s) : k < l /\ IsTs(s[l]) => s[l].cnr >= s[k].epoch
    BY <1>5, Zenon DEF FreshAnswers
  <2>2. \A k \in 1..Len(s) : Set(s[k]) => s[k].epoch <= m
    BY <1>4, <2>1
  <2> QED
    BY <2>1, <2>2, Zenon DEF FreshAnswers
<1> QED
  BY <1>3, <1>5

LEMMA QueueTypes ==
  ASSUME Types, NEW c \in Clients
  PROVE  /\ down[c] \in Seq(Messages) /\ hand[c] \in Seq(GoodPackets) /\ m_fifoTS[c] \in Seq(GoodPackets)
         /\ hand[c] \in Seq(Messages) /\ m_fifoTS[c] \in Seq(Messages)
         /\ result[c] \in Seq(Answers) /\ epoch[c] \in Nat /\ tuned \in Nat
         /\ m_fSignalLevel[c] \in Nat
         /\ request[c] \in Seq({"SetChannel", "Purge", "Open", "Close"})
         /\ process[c] = "idle" => hand[c] = << >>
         /\ process[c] # "idle" => Len(hand[c]) = 1 /\ hand[c] # << >> /\ hand[c] = <<hand[c][1]>>
                                   /\ hand[c][1] \in GoodPackets
<1>1. /\ down[c] \in Seq(Messages) /\ hand[c] \in Seq(GoodPackets) /\ m_fifoTS[c] \in Seq(GoodPackets)
      /\ result[c] \in Seq(Answers) /\ epoch[c] \in Nat /\ tuned \in Nat /\ m_fSignalLevel[c] \in Nat
      /\ request[c] \in Seq({"SetChannel", "Purge", "Open", "Close"})
      /\ Len(hand[c]) = IF process[c] = "idle" THEN 0 ELSE 1
  BY BoundAssumption DEF Types
<1>2. \A s \in Seq(GoodPackets) : s \in Seq(Messages)
  BY DEF Messages
<1>3. process[c] = "idle" => hand[c] = << >>
  BY <1>1, EmptySeq
<1>4. \A s \in Seq(GoodPackets) : Len(s) = 1 => s = <<s[1]>> /\ s # << >> /\ s[1] \in GoodPackets
  OBVIOUS
<1> QED
  BY <1>1, <1>2, <1>3, <1>4

\* A step that moves no packet but out of m_fifoTS, and makes no level but 0.
Rest(s, t) == t = s \/ t = << >> \/ (s # << >> /\ t = Tail(s))

LEMMA DataStep ==
  ASSUME IInv, NEW d \in Clients, tuned' \in Int, tuned <= tuned',
         units' - Len(buf') \in Int, units - Len(buf) <= units' - Len(buf'),
         units - Len(buf) \in Int,
         down'[d] = down[d], hand'[d] = hand[d], epoch'[d] = epoch[d],
         result'[d] = result[d] \/ result'[d] = << >>,
         Rest(m_fifoTS[d], m_fifoTS'[d]),
         m_fSignalLevel'[d] = m_fSignalLevel[d] \/ m_fSignalLevel'[d] = 0,
         app[d] = "flush" => app'[d] = "flush" \/ m_fifoTS'[d] = << >>,
         app[d] \in {"flush", "level"} => app'[d] \in {"flush", "level"} \/ m_fSignalLevel'[d] = 0
  PROVE  Fresh(d)' /\ Line(d)'
<1>1. ClientInv(d) /\ Types
  BY DEF IInv
<1>2. Line(d)'
  <2>1. Line(d)
    BY <1>1 DEF ClientInv
  <2>2. /\ UpTo(m_fifoTS[d], units' - Len(buf')) /\ UpTo(hand[d], units' - Len(buf'))
        /\ UpTo(down[d], units' - Len(buf'))
    BY <1>1, <2>1, QueueTypes, LaterKeeps DEF Line
  <2>3. /\ InOrder(m_fifoTS'[d]) /\ Before(m_fifoTS'[d], hand[d]) /\ Before(m_fifoTS'[d], down[d])
        /\ UpTo(m_fifoTS'[d], units' - Len(buf'))
    <3>1. CASE m_fifoTS'[d] = m_fifoTS[d]
      BY <2>1, <2>2, <3>1 DEF Line
    <3>2. CASE m_fifoTS'[d] = << >>
      BY <3>2, EmptyKeeps
    <3>3. CASE m_fifoTS[d] # << >> /\ m_fifoTS'[d] = Tail(m_fifoTS[d])
      BY <1>1, <2>1, <2>2, <3>3, QueueTypes, TailKeeps DEF Line
    <3> QED
      BY <3>1, <3>2, <3>3 DEF Rest
  <2> QED
    BY <2>1, <2>2, <2>3 DEF Line
<1>3. Fresh(d)'
  <2>1. Fresh(d)
    BY <1>1 DEF ClientInv
  <2>2. epoch[d] <= tuned' /\ FreshAnswers(down[d], tuned')
    BY <1>1, <2>1, QueueTypes, LaterKeeps DEF Fresh
  <2>3. ASSUME result'[d] # << >>, Set(result'[d][1])
        PROVE  /\ result'[d][1].epoch <= tuned'
               /\ Since(hand[d], result'[d][1].epoch) /\ Since(down[d], result'[d][1].epoch)
    <3>1. result'[d] = result[d]
      BY <2>3
    <3>2. result[d][1] \in Answers
      BY <1>1, <2>3, <3>1, QueueTypes, TailIs
    <3>3. result[d][1].epoch \in Nat
      BY <2>3, <3>1, <3>2, MessageTypes, BoundAssumption
    <3>4. /\ result[d][1].epoch <= tuned /\ tuned \in Nat
          /\ Since(hand[d], result[d][1].epoch) /\ Since(down[d], result[d][1].epoch)
      BY <1>1, <2>1, <2>3, <3>1, QueueTypes DEF Fresh
    <3> QED
      BY <3>1, <3>3, <3>4
  <2>4. app'[d] # "flush" => Since(m_fifoTS'[d], epoch[d])
    <3>1. CASE m_fifoTS'[d] = << >>
      BY <3>1, EmptyKeeps
    <3>2. CASE m_fifoTS'[d] = m_fifoTS[d]
      BY <2>1, <3>2, <3>1 DEF Fresh
    <3>3. CASE m_fifoTS[d] # << >> /\ m_fifoTS'[d] = Tail(m_fifoTS[d])
      BY <1>1, <2>1, <3>1, <3>3, QueueTypes, TailKeeps DEF Fresh
    <3> QED
      BY <3>1, <3>2, <3>3 DEF Rest
  <2>5. app'[d] \notin {"flush", "level"} => m_fSignalLevel'[d] = 0 \/ m_fSignalLevel'[d] >= epoch[d]
    BY <2>1 DEF Fresh
  <2> QED
    BY <2>1, <2>2, <2>3, <2>4, <2>5 DEF Fresh
<1> QED
  BY <1>2, <1>3

\* What a client sees of the steps of others.
LEMMA Frame ==
  ASSUME IInv, NEW d \in Clients, tuned' \in Int, tuned <= tuned',
         units' - Len(buf') \in Int, units - Len(buf) <= units' - Len(buf'),
         units - Len(buf) \in Int,
         server'[d] = server[d], request'[d] = request[d], down'[d] = down[d],
         hand'[d] = hand[d], result'[d] = result[d], m_fifoTS'[d] = m_fifoTS[d],
         m_fSignalLevel'[d] = m_fSignalLevel[d], app'[d] = app[d], epoch'[d] = epoch[d]
  PROVE  ClientInv(d)'
<1>1. Protocol(d)
  BY DEF IInv, ClientInv
<1>2. Protocol(d)'
  BY <1>1 DEF Protocol, Resting, Asked, Handled, Answered, Returned, Quiet
<1>3. Fresh(d)' /\ Line(d)'
  BY DataStep DEF Rest
<1> QED
  BY <1>2, <1>3 DEF ClientInv

\* What a step of c is to another client.
LEMMA Elsewhere ==
  ASSUME Types, NEW c \in Clients, NEW d \in Clients, d # c,
         \/ SetChannelJoin(c) \/ SetChannelLocked(c) \/ Tune(c) \/ TuneFails(c)
         \/ SetChannelDone(c) \/ Purge(c) \/ Close(c) \/ Open(c)
         \/ ProcessAnswer(c) \/ ProcessLevel(c) \/ ProcessCNR(c) \/ ProcessPush(c)
         \/ CallSetChannel(c) \/ SetChannelAnswered(c) \/ SetChannelFlush(c)
         \/ SetChannelLevel(c) \/ SetChannelCNR(c)
         \/ CallPurge(c) \/ PurgeAnswered(c) \/ CallOpen(c) \/ OpenAnswered(c)
         \/ CallClose(c) \/ GetTsStream(c)
  PROVE  /\ server'[d] = server[d] /\ request'[d] = request[d] /\ down'[d] = down[d]
         /\ hand'[d] = hand[d] /\ result'[d] = result[d] /\ m_fifoTS'[d] = m_fifoTS[d]
         /\ m_fSignalLevel'[d] = m_fSignalLevel[d] /\ app'[d] = app[d] /\ epoch'[d] = epoch[d]
<1> DEFINE Same == /\ server'[d] = server[d] /\ request'[d] = request[d] /\ down'[d] = down[d]
                   /\ hand'[d] = hand[d] /\ result'[d] = result[d] /\ m_fifoTS'[d] = m_fifoTS[d]
                   /\ m_fSignalLevel'[d] = m_fSignalLevel[d] /\ app'[d] = app[d]
                   /\ epoch'[d] = epoch[d]
<1>0. /\ \A x : [server EXCEPT ![c] = x][d] = server[d] /\ [request EXCEPT ![c] = x][d] = request[d]
      /\ \A x : [down EXCEPT ![c] = x][d] = down[d] /\ [hand EXCEPT ![c] = x][d] = hand[d]
      /\ \A x : [result EXCEPT ![c] = x][d] = result[d] /\ [m_fifoTS EXCEPT ![c] = x][d] = m_fifoTS[d]
      /\ \A x : [m_fSignalLevel EXCEPT ![c] = x][d] = m_fSignalLevel[d]
      /\ \A x : [app EXCEPT ![c] = x][d] = app[d] /\ [epoch EXCEPT ![c] = x][d] = epoch[d]
  BY DEF Types
<1>1. SetChannelJoin(c) => Same
  BY <1>0 DEF SetChannelJoin, Takes, clientVars
<1>2. SetChannelLocked(c) => Same
  BY <1>0 DEF SetChannelLocked, Answer, clientVars
<1>3. Tune(c) => Same
  BY <1>0 DEF Tune, clientVars
<1>4. TuneFails(c) => Same
  BY <1>0 DEF TuneFails, Answer, clientVars
<1>5. SetChannelDone(c) => Same
  BY <1>0 DEF SetChannelDone, Answer, clientVars
<1>6. Purge(c) => Same
  BY <1>0 DEF Purge, Takes, Answer, clientVars
<1>7. Close(c) => Same
  BY <1>0 DEF Close, Takes, clientVars
<1>8. Open(c) => Same
  BY <1>0 DEF Open, Takes, Answer, clientVars
<1>9. ProcessAnswer(c) => Same
  BY <1>0 DEF ProcessAnswer, serverVars
<1>10. ProcessLevel(c) => Same
  BY <1>0 DEF ProcessLevel, serverVars
<1>23. ProcessCNR(c) => Same
  BY DEF ProcessCNR, serverVars
<1>11. ProcessPush(c) => Same
  BY <1>0 DEF ProcessPush, serverVars
<1>12. CallSetChannel(c) => Same
  BY <1>0 DEF CallSetChannel, Call, serverVars
<1>13. SetChannelAnswered(c) => Same
  BY <1>0 DEF SetChannelAnswered, serverVars
<1>14. SetChannelFlush(c) => Same
  BY <1>0 DEF SetChannelFlush, serverVars
<1>15. SetChannelLevel(c) => Same
  BY <1>0 DEF SetChannelLevel, serverVars
<1>24. SetChannelCNR(c) => Same
  BY <1>0 DEF SetChannelCNR, serverVars
<1>16. CallPurge(c) => Same
  BY <1>0 DEF CallPurge, Call, serverVars
<1>17. PurgeAnswered(c) => Same
  BY <1>0 DEF PurgeAnswered, serverVars
<1>18. CallOpen(c) => Same
  BY <1>0 DEF CallOpen, Call, serverVars
<1>19. OpenAnswered(c) => Same
  BY <1>0 DEF OpenAnswered, serverVars
<1>20. CallClose(c) => Same
  BY <1>0 DEF CallClose, Call, serverVars
<1>21. GetTsStream(c) => Same
  BY <1>0 DEF GetTsStream, serverVars
<1> HIDE DEF Same
<1>22. Same
  BY <1>1, <1>2, <1>3, <1>4, <1>5, <1>6, <1>7, <1>8, <1>9, <1>10, <1>11,
     <1>12, <1>13, <1>14, <1>15, <1>16, <1>17, <1>18, <1>19, <1>20, <1>21, <1>23, <1>24, Zenon
<1> QED
  BY <1>22 DEF Same

\* Answers and what handlers put at the end of down.
LEMMA AnswerTypes ==
  ASSUME Types, NEW c \in Clients
  PROVE  /\ \A b \in BOOLEAN : [type |-> "purge", b |-> b] \in Answers /\ [type |-> "open", b |-> b] \in Answers
         /\ \A dw \in {0, 1, 255} : [type |-> "channel", dw |-> dw, epoch |-> tuned] \in Answers
         /\ \A m \in Answers : Answer(c, m) =>
              /\ down' \in [Clients -> Seq(Messages)]
              /\ down'[c] = Append(down[c], m)
<1>1. tuned \in 0..MaxTunes /\ down \in [Clients -> Seq(Messages)]
  BY DEF Types
<1>2. \A b \in BOOLEAN : [type |-> "purge", b |-> b] \in Answers /\ [type |-> "open", b |-> b] \in Answers
  BY DEF Answers
<1>3. \A dw \in {0, 1, 255} : [type |-> "channel", dw |-> dw, epoch |-> tuned] \in Answers
  BY <1>1 DEF Answers
<1>4. ASSUME NEW m \in Answers, Answer(c, m)
      PROVE  down' \in [Clients -> Seq(Messages)] /\ down'[c] = Append(down[c], m)
  <2>1. Append(down[c], m) \in Seq(Messages)
    BY <1>1, AnswerKeeps
  <2> QED
    BY <1>1, <1>4, <2>1 DEF Answer
<1> QED
  BY <1>2, <1>3, <1>4

\* The answer an application finds is to its own command.
LEMMA ResultIs ==
  ASSUME IInv, NEW c \in Clients, result[c] # << >>
  PROVE  /\ Returned(c) /\ result[c][1] \in Answers
         /\ app[c] = "channel" => /\ result[c][1].dw \in {0, 1, 255}
                                  /\ result[c][1].epoch \in 0..MaxTunes
                                  /\ result[c][1].dw = 0 => Set(result[c][1])
         /\ app[c] \in {"purge", "open"} => result[c][1].b \in BOOLEAN
<1>1. Returned(c)
  BY DEF IInv, ClientInv, Protocol, Resting, Asked, Handled, Answered, Quiet
<1>2. result[c][1] \in Answers
  BY QueueTypes, TailIs DEF IInv
<1>3. result[c][1].type = app[c]
  BY <1>1 DEF Returned
<1> QED
  BY <1>1, <1>2, <1>3 DEF Answers, Set

LEMMA CallTypes ==
  ASSUME Types, NEW c \in Clients, NEW m \in {"SetChannel", "Purge", "Open", "Close"}, Call(c, m)
  PROVE  /\ request' \in [Clients -> Seq({"SetChannel", "Purge", "Open", "Close"})]
         /\ calls' \in [Clients -> Nat] /\ \A d \in Clients : calls'[d] <= MaxCalls[d]
<1>1. Append(request[c], m) \in Seq({"SetChannel", "Purge", "Open", "Close"})
  BY QueueTypes, AppendProperties
<1>2. request' \in [Clients -> Seq({"SetChannel", "Purge", "Open", "Close"})]
  BY <1>1 DEF Types, Call
<1>3. calls \in [Clients -> Nat] /\ \A d \in Clients : calls[d] <= MaxCalls[d] /\ MaxCalls[d] \in Nat
  BY BoundAssumption DEF Types
<1>4. calls' = [calls EXCEPT ![c] = calls[c] + 1] /\ calls[c] < MaxCalls[c]
  BY DEF Call
<1> QED
  BY <1>2, <1>3, <1>4

LEMMA TypesStep ==
  ASSUME IInv, [Next]_vars
  PROVE  Types'
<1>1. Types
  BY DEF IInv
<1>2. ASSUME UNCHANGED vars PROVE Types'
  BY <1>1, <1>2 DEF Types, vars, serverVars, clientVars, reader
<1>3. units' \in Nat
  BY ReaderStep
<1>4. CASE ReadOnce
  <2>1. fSignalLevel' \in 0..MaxTunes /\ ChannelChanged' \in BOOLEAN
    BY <1>1, <1>4, ReadIs DEF ReadOnce, Types
  <2>2. UNCHANGED <<tuned, TsReceiversList, server, request, process, hand, result, m_fifoTS,
                    m_fSignalLevel, m_bWaitCNR, m_bTuner, app, calls, epoch>>
    BY <1>4, Zenon DEF ReadOnce, clientVars
  <2>3. down' \in [Clients -> Seq(Messages)]
    <3>1. PICK ts \in Seq(GoodPackets) :
            down' = [c \in Clients |-> IF c \in TsReceiversList THEN PushTs(down[c], ts) ELSE down[c]]
      BY <1>4, ReadIs
    <3>2. ASSUME NEW c \in Clients
          PROVE  PushTs(down[c], ts) \in Seq(Messages) /\ down[c] \in Seq(Messages)
      <4>1. down[c] \in Seq(Messages)
        BY <1>1, QueueTypes
      <4>2. PICK new \in Seq(GoodPackets) : PushTs(down[c], ts) = down[c] \o new
        BY <4>1, PushIs
      <4>3. new \in Seq(Messages)
        BY DEF Messages
      <4> QED
        BY <4>1, <4>2, <4>3, ConcatProperties
    <3> QED
      BY <3>1, <3>2
  <2> QED
    BY <1>1, <1>3, <2>1, <2>2, <2>3 DEF Types
<1>5. ASSUME NEW c \in Clients PROVE /\ request[c] # << >> => Tail(request[c]) \in Seq({"SetChannel", "Purge", "Open", "Close"})
                                     /\ down[c] # << >> => Tail(down[c]) \in Seq(Messages) /\ Head(down[c]) \in Messages
                                     /\ m_fifoTS[c] # << >> => Tail(m_fifoTS[c]) \in Seq(GoodPackets)
                                     /\ \A m \in {"SetChannel", "Purge", "Open", "Close"} :
                                          Append(request[c], m) \in Seq({"SetChannel", "Purge", "Open", "Close"})
  <2>1. \A m \in {"SetChannel", "Purge", "Open", "Close"} :
           Append(request[c], m) \in Seq({"SetChannel", "Purge", "Open", "Close"})
    BY <1>1, QueueTypes, AppendProperties
  <2> QED
    BY <1>1, <2>1, QueueTypes, TailIs
<1>6. ASSUME NEW c \in Clients, SetChannelJoin(c) PROVE Types'
  BY <1>1, <1>5, <1>6 DEF Types, SetChannelJoin, Takes, reader, clientVars
<1>7. ASSUME NEW c \in Clients, SetChannelLocked(c) PROVE Types'
  <2>1. down' \in [Clients -> Seq(Messages)]
    BY <1>1, <1>7, AnswerTypes DEF SetChannelLocked
  <2> QED
    BY <1>1, <1>7, <2>1 DEF Types, SetChannelLocked, reader, clientVars
<1>8. ASSUME NEW c \in Clients, Tune(c) PROVE Types'
  <2>1. ChannelChanged' \in BOOLEAN
    BY <1>8, Zenon DEF Tune
  <2>2. tuned' \in 0..MaxTunes /\ server' \in [Clients -> {"idle", "tune", "tuned"}]
    BY <1>1, <1>8, BoundAssumption DEF Types, Tune
  <2>3. UNCHANGED <<units, fSignalLevel, TsReceiversList, request, down, clientVars>>
    BY <1>8, Zenon DEF Tune
  <2> QED
    BY <1>1, <2>1, <2>2, <2>3 DEF Types, clientVars
<1>9. ASSUME NEW c \in Clients, TuneFails(c) PROVE Types'
  <2>1. down' \in [Clients -> Seq(Messages)]
    BY <1>1, <1>9, AnswerTypes DEF TuneFails
  <2> QED
    BY <1>1, <1>9, <2>1 DEF Types, TuneFails, reader, clientVars
<1>10. ASSUME NEW c \in Clients, SetChannelDone(c) PROVE Types'
  <2>1. down' \in [Clients -> Seq(Messages)]
    BY <1>1, <1>10, AnswerTypes DEF SetChannelDone
  <2> QED
    BY <1>1, <1>10, <2>1 DEF Types, SetChannelDone, clientVars
<1>11. ASSUME NEW c \in Clients, Purge(c) PROVE Types'
  <2>1. down' \in [Clients -> Seq(Messages)]
    <3>1. (c \in TsReceiversList) \in BOOLEAN
      OBVIOUS
    <3>2. Answer(c, [type |-> "purge", b |-> c \in TsReceiversList])
      BY <1>11, Zenon DEF Purge
    <3>3. [type |-> "purge", b |-> c \in TsReceiversList] \in Answers
      BY <1>1, <3>1, AnswerTypes, Zenon
    <3> QED
      BY <1>1, <3>2, <3>3, AnswerTypes, Zenon
  <2> QED
    BY <1>1, <1>5, <1>11, <2>1 DEF Types, Purge, Takes, clientVars
<1>12. ASSUME NEW c \in Clients, Close(c) PROVE Types'
  <2>1. ChannelChanged' \in BOOLEAN
    BY <1>1, <1>12, Zenon DEF Close, Types
  <2>2. /\ fSignalLevel' \in 0..MaxTunes /\ TsReceiversList' \subseteq Clients
        /\ request' \in [Clients -> Seq({"SetChannel", "Purge", "Open", "Close"})]
    <3>1. fSignalLevel' \in {0, fSignalLevel} /\ TsReceiversList' = TsReceiversList \ {c}
      BY <1>12 DEF Close
    <3>2. request[c] # << >> /\ request' = [request EXCEPT ![c] = Tail(request[c])]
      BY <1>12 DEF Close, Takes
    <3>3. request' \in [Clients -> Seq({"SetChannel", "Purge", "Open", "Close"})]
      BY <1>1, <1>5, <3>2 DEF Types
    <3> QED
      BY <1>1, <3>1, <3>3, BoundAssumption DEF Types
  <2>3. UNCHANGED <<tuned, units, server, down, clientVars>>
    BY <1>12, Zenon DEF Close
  <2> QED
    BY <1>1, <2>1, <2>2, <2>3 DEF Types, clientVars
<1>13. ASSUME NEW c \in Clients, Open(c) PROVE Types'
  <2>1. down' \in [Clients -> Seq(Messages)]
    BY <1>1, <1>13, AnswerTypes DEF Open
  <2> QED
    BY <1>1, <1>5, <1>13, <2>1 DEF Types, Open, Takes, reader, clientVars
<1>14. ASSUME NEW c \in Clients, ProcessAnswer(c) PROVE Types'
  <2>1. Head(down[c]) \in Answers
    BY <1>5, <1>14, MessageTypes DEF ProcessAnswer, IsTs
  <2>2. <<Head(down[c])>> \in Seq(Answers)
    BY <2>1, OneIs
  <2> QED
    BY <1>1, <1>5, <1>14, <2>2 DEF Types, ProcessAnswer, serverVars, reader
<1>15. ASSUME NEW c \in Clients, ProcessLevel(c) PROVE Types'
  <2>1. Head(down[c]) \in GoodPackets /\ Head(down[c]).cnr \in 0..MaxTunes
    BY <1>5, <1>15, MessageTypes DEF ProcessLevel, IsTs
  <2>2. <<Head(down[c])>> \in Seq(GoodPackets) /\ Len(<<Head(down[c])>>) = 1
    BY <2>1, OneIs
  <2> QED
    BY <1>1, <1>5, <1>15, <2>1, <2>2 DEF Types, ProcessLevel, serverVars, reader
<1>27. ASSUME NEW c \in Clients, ProcessCNR(c) PROVE Types'
  BY <1>1, <1>27 DEF Types, ProcessCNR, serverVars, reader
<1>16. ASSUME NEW c \in Clients, ProcessPush(c) PROVE Types'
  <2>1. hand[c][1] \in GoodPackets /\ m_fifoTS[c] \in Seq(GoodPackets) /\ Len(<< >>) = 0
        /\ << >> \in Seq(GoodPackets)
    BY <1>1, <1>16, QueueTypes, EmptyIs DEF ProcessPush
  <2>2. (IF Len(m_fifoTS[c]) >= TsFifoSize THEN Tail(m_fifoTS[c]) ELSE m_fifoTS[c]) \in Seq(GoodPackets)
    <3>1. Len(m_fifoTS[c]) >= TsFifoSize => m_fifoTS[c] # << >>
      BY <2>1, SizeAssumption
    <3> QED
      BY <1>5, <2>1, <3>1
  <2>3. Append(IF Len(m_fifoTS[c]) >= TsFifoSize THEN Tail(m_fifoTS[c]) ELSE m_fifoTS[c], hand[c][1])
          \in Seq(GoodPackets)
    BY <2>1, <2>2, AppendProperties
  <2> QED
    <3>1. m_fifoTS' \in [Clients -> Seq(GoodPackets)]
      BY <1>1, <1>16, <2>3 DEF Types, ProcessPush
    <3>2. hand' \in [Clients -> Seq(GoodPackets)] /\ process' \in [Clients -> {"idle", "cnr", "push"}]
      BY <1>1, <1>16, <2>1 DEF Types, ProcessPush
    <3>3. \A d \in Clients : Len(hand'[d]) = IF process'[d] = "idle" THEN 0 ELSE 1
      <4>1. hand' = [hand EXCEPT ![c] = << >>] /\ process' = [process EXCEPT ![c] = "idle"]
        BY <1>16 DEF ProcessPush
      <4>2. hand \in [Clients -> Seq(GoodPackets)] /\ process \in [Clients -> {"idle", "cnr", "push"}]
            /\ \A d \in Clients : Len(hand[d]) = IF process[d] = "idle" THEN 0 ELSE 1
        BY <1>1 DEF Types
      <4>3. ASSUME NEW d \in Clients PROVE Len(hand'[d]) = IF process'[d] = "idle" THEN 0 ELSE 1
        <5>1. CASE d = c
          <6>1. hand'[d] = << >> /\ process'[d] = "idle"
            BY <4>1, <4>2, <5>1
          <6> QED
            BY <2>1, <6>1
        <5>2. CASE d # c
          BY <4>1, <4>2, <5>2
        <5> QED
          BY <5>1, <5>2
      <4> QED
        BY <4>3
    <3> QED
      BY <1>1, <1>16, <3>1, <3>2, <3>3 DEF Types, ProcessPush, serverVars, reader
<1>17. ASSUME NEW c \in Clients, CallSetChannel(c) PROVE Types'
  <2>1. /\ request' \in [Clients -> Seq({"SetChannel", "Purge", "Open", "Close"})]
        /\ calls' \in [Clients -> Nat] /\ \A d \in Clients : calls'[d] <= MaxCalls[d]
    BY <1>1, <1>17, CallTypes DEF CallSetChannel
  <2> QED
    BY <1>1, <1>17, <2>1, BoundAssumption DEF Types, CallSetChannel, serverVars, reader
<1>18. ASSUME NEW c \in Clients, SetChannelAnswered(c) PROVE Types'
  <2>1. result[c][1].dw = 0 => result[c][1].epoch \in 0..MaxTunes
    BY <1>18, ResultIs DEF SetChannelAnswered
  <2>2. << >> \in Seq(Answers)
    BY EmptyIs
  <2>3. /\ app' \in [Clients -> {"idle", "channel", "flush", "level", "cnr", "purge", "open"}]
        /\ m_fSignalLevel' \in [Clients -> 0..MaxTunes] /\ epoch' \in [Clients -> 0..MaxTunes]
        /\ result' \in [Clients -> Seq(Answers)]
    BY <1>1, <1>18, <2>1, <2>2, BoundAssumption DEF Types, SetChannelAnswered
  <2>4. UNCHANGED <<serverVars, request, down, process, hand, m_fifoTS, m_bWaitCNR, m_bTuner, calls>>
    BY <1>18, Zenon DEF SetChannelAnswered
  <2> QED
    BY <1>1, <2>3, <2>4 DEF Types, serverVars, reader
<1>19. ASSUME NEW c \in Clients, SetChannelFlush(c) PROVE Types'
  BY <1>1, <1>19, EmptyIs DEF Types, SetChannelFlush, serverVars, reader
<1>20. ASSUME NEW c \in Clients, SetChannelLevel(c) PROVE Types'
  BY <1>1, <1>20, BoundAssumption DEF Types, SetChannelLevel, serverVars, reader
<1>28. ASSUME NEW c \in Clients, SetChannelCNR(c) PROVE Types'
  BY <1>1, <1>28 DEF Types, SetChannelCNR, serverVars, reader
<1>21. ASSUME NEW c \in Clients, CallPurge(c) PROVE Types'
  <2>1. /\ request' \in [Clients -> Seq({"SetChannel", "Purge", "Open", "Close"})]
        /\ calls' \in [Clients -> Nat] /\ \A d \in Clients : calls'[d] <= MaxCalls[d]
    BY <1>1, <1>21, CallTypes DEF CallPurge
  <2> QED
    BY <1>1, <1>21, <2>1, BoundAssumption DEF Types, CallPurge, serverVars, reader
<1>22. ASSUME NEW c \in Clients, PurgeAnswered(c) PROVE Types'
  BY <1>1, <1>22, EmptyIs DEF Types, PurgeAnswered, serverVars, reader
<1>23. ASSUME NEW c \in Clients, CallOpen(c) PROVE Types'
  <2>1. /\ request' \in [Clients -> Seq({"SetChannel", "Purge", "Open", "Close"})]
        /\ calls' \in [Clients -> Nat] /\ \A d \in Clients : calls'[d] <= MaxCalls[d]
    BY <1>1, <1>23, CallTypes DEF CallOpen
  <2> QED
    BY <1>1, <1>23, <2>1, BoundAssumption DEF Types, CallOpen, serverVars, reader
<1>24. ASSUME NEW c \in Clients, OpenAnswered(c) PROVE Types'
  <2>1. result[c][1].b \in BOOLEAN
    BY <1>24, ResultIs DEF OpenAnswered
  <2>2. m_bTuner' \in [Clients -> BOOLEAN]
    BY <1>1, <1>24, <2>1, Zenon DEF Types, OpenAnswered
  <2>3. /\ result' \in [Clients -> Seq(Answers)]
        /\ app' \in [Clients -> {"idle", "channel", "flush", "level", "cnr", "purge", "open"}]
    BY <1>1, <1>24, EmptyIs DEF Types, OpenAnswered
  <2>4. UNCHANGED <<serverVars, request, down, process, hand, m_fifoTS, m_fSignalLevel, m_bWaitCNR,
                    calls, epoch>>
    BY <1>24, Zenon DEF OpenAnswered
  <2> QED
    BY <1>1, <2>2, <2>3, <2>4 DEF Types, serverVars, reader
<1>25. ASSUME NEW c \in Clients, CallClose(c) PROVE Types'
  <2>1. /\ request' \in [Clients -> Seq({"SetChannel", "Purge", "Open", "Close"})]
        /\ calls' \in [Clients -> Nat] /\ \A d \in Clients : calls'[d] <= MaxCalls[d]
    BY <1>1, <1>25, CallTypes DEF CallClose
  <2> QED
    <3>1. m_bTuner' \in [Clients -> BOOLEAN] /\ m_bWaitCNR' \in [Clients -> BOOLEAN]
      BY <1>1, <1>25, Zenon DEF Types, CallClose
    <3>2. m_fSignalLevel' \in [Clients -> 0..MaxTunes]
      BY <1>1, <1>25, BoundAssumption DEF Types, CallClose
    <3>3. UNCHANGED <<serverVars, down, process, hand, result, m_fifoTS, app, epoch>>
      BY <1>25, Zenon DEF CallClose
    <3> QED
      BY <1>1, <2>1, <3>1, <3>2, <3>3 DEF Types, serverVars, reader
<1>26. ASSUME NEW c \in Clients, GetTsStream(c) PROVE Types'
  BY <1>1, <1>5, <1>26 DEF Types, GetTsStream, serverVars, reader
<1> QED
  BY <1>2, <1>4, <1>6, <1>7, <1>8, <1>9, <1>10, <1>11, <1>12, <1>13, <1>14, <1>15, <1>16, <1>17,
     <1>18, <1>19, <1>20, <1>21, <1>22, <1>23, <1>24, <1>25, <1>26, <1>27, <1>28 DEF Next, Done

LEMMA TimeStep ==
  ASSUME IInv, [Next]_vars
  PROVE  /\ tuned' \in Int /\ tuned <= tuned' /\ tuned \in Nat
         /\ units - Len(buf) \in Int /\ units' - Len(buf') \in Int
         /\ units - Len(buf) <= units' - Len(buf')
<1>1. Types' /\ ReaderInv' /\ Types /\ ReaderInv /\ units - Len(buf) <= units' - Len(buf')
  BY TypesStep, ReaderStep DEF IInv
<1>2. tuned \in Nat /\ tuned' \in Nat /\ units \in Nat /\ units' \in Nat
  BY <1>1, BoundAssumption DEF Types
<1>3. Len(buf) \in Nat
  BY <1>1, LenProperties DEF ReaderInv, Run
<1>4. Len(buf') \in Nat
  <2>1. (buf \in Seq(Units))'
    BY <1>1 DEF ReaderInv, Run
  <2> QED
    BY <2>1, LenProperties DEF Units
<1>5. tuned' = tuned \/ \E c \in Clients : Tune(c)
  <2>1. ReadOnce => tuned' = tuned
    BY Zenon DEF ReadOnce
  <2>2. ASSUME NEW c \in Clients, SetChannelJoin(c) \/ SetChannelLocked(c) \/ TuneFails(c) \/ SetChannelDone(c)
               \/ Purge(c) \/ Close(c) \/ Open(c)
        PROVE  tuned' = tuned
    BY <2>2, Zenon DEF SetChannelJoin, SetChannelLocked, TuneFails, SetChannelDone, Purge, Close, Open
  <2>3. ASSUME NEW c \in Clients,
              \/ ProcessAnswer(c) \/ ProcessLevel(c) \/ ProcessCNR(c) \/ ProcessPush(c)
              \/ CallSetChannel(c) \/ SetChannelAnswered(c) \/ SetChannelFlush(c)
              \/ SetChannelLevel(c) \/ SetChannelCNR(c) \/ CallPurge(c) \/ PurgeAnswered(c) \/ CallOpen(c)
              \/ OpenAnswered(c) \/ CallClose(c) \/ GetTsStream(c)
        PROVE  tuned' = tuned
    BY <2>3, Zenon DEF ProcessAnswer, ProcessLevel, ProcessCNR, ProcessPush, CallSetChannel, SetChannelAnswered,
         SetChannelFlush, SetChannelLevel, SetChannelCNR, CallPurge, PurgeAnswered, CallOpen, OpenAnswered,
         CallClose, GetTsStream, serverVars
  <2>4. Done \/ UNCHANGED vars => tuned' = tuned
    BY Zenon DEF Done, vars, serverVars
  <2> QED
    BY <2>1, <2>2, <2>3, <2>4, Zenon DEF Next
<1>6. \A c \in Clients : Tune(c) => tuned' = tuned + 1
  BY DEF Tune
<1> QED
  BY <1>1, <1>2, <1>3, <1>4, <1>5, <1>6

\* A handler answers.
LEMMA AnswerStep ==
  ASSUME IInv, [Next]_vars, NEW c \in Clients, NEW m \in Answers,
         Set(m) => m.epoch <= tuned, m.type = app[c], app[c] \in DOMAIN Command,
         NoAnswer(down[c]), result[c] = << >>, request'[c] = << >>, server'[c] = "idle",
         down'[c] = Append(down[c], m), tuned' = tuned,
         hand'[c] = hand[c], result'[c] = result[c], m_fifoTS'[c] = m_fifoTS[c],
         m_fSignalLevel'[c] = m_fSignalLevel[c], app'[c] = app[c], epoch'[c] = epoch[c]
  PROVE  ClientInv(c)'
<1>1. Types /\ Fresh(c) /\ Line(c)
  BY DEF IInv, ClientInv
<1>2. /\ down[c] \in Seq(Messages) /\ hand[c] \in Seq(Messages) /\ m_fifoTS[c] \in Seq(Messages)
  BY <1>1, QueueTypes
<1>3. Protocol(c)'
  <2>1. OneAnswer(down'[c], app[c])
    BY <1>2, AnswerKeeps
  <2> QED
    BY <2>1 DEF Protocol, Answered
<1>4. Fresh(c)'
  <2>1. Since(down'[c], epoch[c]) /\ FreshAnswers(down'[c], tuned)
    BY <1>1, <1>2, AnswerKeeps DEF Fresh
  <2> QED
    BY <1>1, <2>1 DEF Fresh
<1>5. Line(c)'
  <2>1. /\ InOrder(down'[c]) /\ Before(m_fifoTS[c], down'[c]) /\ Before(hand[c], down'[c])
        /\ UpTo(down'[c], units - Len(buf))
    BY <1>1, <1>2, AnswerKeeps DEF Line
  <2>2. down'[c] \in Seq(Messages)
    BY <1>2, AnswerKeeps
  <2>3. /\ UpTo(m_fifoTS[c], units' - Len(buf')) /\ UpTo(hand[c], units' - Len(buf'))
        /\ UpTo(down'[c], units' - Len(buf'))
    BY <1>1, <1>2, <2>1, <2>2, TimeStep, LaterKeeps DEF Line
  <2> QED
    BY <1>1, <2>1, <2>3 DEF Line
<1> QED
  BY <1>3, <1>4, <1>5 DEF ClientInv

\* A command that is answered is the last one asked.
LEMMA TakesIs ==
  ASSUME IInv, NEW c \in Clients, NEW command \in {"SetChannel", "Purge", "Open"}, Takes(c, command)
  PROVE  /\ Quiet(c) /\ app[c] \in DOMAIN Command /\ Command[app[c]] = command
         /\ request'[c] = << >>
<1>1. Types /\ Protocol(c) /\ request[c] \in Seq({"SetChannel", "Purge", "Open", "Close"})
  BY QueueTypes DEF IInv, ClientInv
<1>2. request[c] # << >> /\ Head(request[c]) = command /\ request'[c] = Tail(request[c])
  BY <1>1 DEF Takes, Types
<1>3. /\ Len(request[c]) \in Nat \ {0} /\ request[c][1] = command /\ command # "Close"
      /\ Len(Tail(request[c])) = Len(request[c]) - 1
      /\ Tail(request[c]) \in Seq({"SetChannel", "Purge", "Open", "Close"})
  BY <1>1, <1>2, TailIs
<1>4. ~Closes(request[c], Len(request[c]))
  BY <1>3 DEF Closes
<1>5. Asked(c)
  BY <1>1, <1>2, <1>4 DEF Protocol, Resting, Handled, Answered, Returned
<1>6. Len(request[c]) = 1
  <2>1. \A k \in 1..(Len(request[c]) - 1) : request[c][k] = "Close"
    BY <1>5 DEF Asked, Closes
  <2>2. PICK n \in Nat \ {0} : n = Len(request[c])
    BY <1>3
  <2>3. n # 1 => 1 \in 1..(n - 1)
    OBVIOUS
  <2>4. 1 \notin 1..(n - 1)
    BY <1>3, <2>1, <2>2
  <2> QED
    BY <2>2, <2>3, <2>4
<1>7. Tail(request[c]) = << >>
  <2> DEFINE t == Tail(request[c])
             S == {"SetChannel", "Purge", "Open", "Close"}
  <2>1. t \in Seq(S) /\ Len(t) = 0
    BY <1>3, <1>6
  <2> HIDE DEF t, S
  <2>2. t = << >>
    BY <2>1, EmptySeq
  <2> QED
    BY <2>2 DEF t
<1> QED
  BY <1>2, <1>3, <1>5, <1>6, <1>7 DEF Asked

LEMMA CloseIs ==
  ASSUME IInv, NEW c \in Clients, Takes(c, "Close"),
         UNCHANGED <<server, down, result, app>>
  PROVE  Protocol(c)'
<1>1. Types /\ Protocol(c) /\ request[c] \in Seq({"SetChannel", "Purge", "Open", "Close"})
  BY QueueTypes DEF IInv, ClientInv
<1>2. request[c] # << >> /\ Head(request[c]) = "Close" /\ request'[c] = Tail(request[c])
  BY <1>1 DEF Takes, Types
<1> DEFINE r == request'[c]
<1>3. /\ Len(request[c]) \in Nat \ {0} /\ request[c][1] = "Close"
      /\ Len(r) = Len(request[c]) - 1 /\ r \in Seq({"SetChannel", "Purge", "Open", "Close"})
      /\ \A k \in 1..Len(r) : r[k] = request[c][k + 1] /\ k + 1 \in 1..Len(request[c])
  BY <1>1, <1>2, TailIs
<1> HIDE DEF r
<1>4. CASE Resting(c)
  <2>1. Closes(r, Len(r))
    BY <1>3, <1>4 DEF Closes, Resting
  <2> QED
    BY <1>4, <2>1 DEF Protocol, Resting, Quiet, r
<1>5. CASE Asked(c)
  <2>1. Len(request[c]) # 1
    BY <1>3, <1>5 DEF Asked, Command
  <2>2. Len(r) \in Nat \ {0} /\ Len(r) + 1 = Len(request[c])
    BY <1>3, <2>1
  <2>3. r # << >> /\ r[Len(r)] = Command[app[c]]
    <3>1. Len(r) \in 1..Len(r)
      BY <2>2
    <3>2. r[Len(r)] = request[c][Len(request[c])]
      BY <1>3, <2>2, <3>1
    <3>3. Len(<< >>) = 0
      OBVIOUS
    <3> QED
      BY <1>5, <2>2, <3>2, <3>3 DEF Asked
  <2>4. Closes(r, Len(r) - 1)
    <3>1. \A k \in 1..(Len(request[c]) - 1) : request[c][k] = "Close"
      BY <1>5 DEF Asked, Closes
    <3>2. \A k \in 1..(Len(r) - 1) : r[k] = request[c][k + 1] /\ k + 1 \in 1..(Len(request[c]) - 1)
      BY <1>3, <2>2
    <3> QED
      BY <3>1, <3>2 DEF Closes
  <2> QED
    BY <1>5, <2>3, <2>4 DEF Protocol, Asked, Quiet, r
<1> QED
  BY <1>1, <1>2, <1>4, <1>5 DEF Protocol, Handled, Answered, Returned

\* The steps of c in its handlers.
LEMMA HandlerStep ==
  ASSUME IInv, [Next]_vars, NEW c \in Clients,
         \/ SetChannelJoin(c) \/ SetChannelLocked(c) \/ Tune(c) \/ TuneFails(c)
         \/ SetChannelDone(c) \/ Purge(c) \/ Close(c) \/ Open(c)
  PROVE  ClientInv(c)'
<1>1. Types /\ Protocol(c) /\ tuned \in Nat /\ server \in [Clients -> {"idle", "tune", "tuned"}]
  BY QueueTypes DEF IInv, ClientInv, Types
<1>2. ASSUME server[c] # "idle" PROVE Handled(c)
  BY <1>1, <1>2 DEF Protocol, Resting, Asked, Answered, Returned, Quiet
<1>3. /\ \A b \in BOOLEAN : [type |-> "purge", b |-> b] \in Answers /\ [type |-> "open", b |-> b] \in Answers
      /\ \A dw \in {0, 1, 255} : [type |-> "channel", dw |-> dw, epoch |-> tuned] \in Answers
      /\ \A m \in Answers : Answer(c, m) => down'[c] = Append(down[c], m)
  BY <1>1, AnswerTypes
<1>4. Command = [channel |-> "SetChannel", purge |-> "Purge", open |-> "Open"]
      /\ DOMAIN Command = {"channel", "purge", "open"}
  BY DEF Command
<1>5. ASSUME UNCHANGED <<down, hand, epoch, result, m_fifoTS, m_fSignalLevel, app>>, Protocol(c)'
      PROVE  ClientInv(c)'
  BY <1>5, TimeStep, DataStep DEF Rest, ClientInv
<1>6. ASSUME NEW m \in Answers, Answer(c, m), server[c] # "idle", m.type = "channel",
             m.epoch = tuned, server'[c] = "idle",
             UNCHANGED <<tuned, request, clientVars>>
      PROVE  ClientInv(c)'
  <2>1. /\ app[c] = "channel" /\ request[c] = << >> /\ NoAnswer(down[c]) /\ result[c] = << >>
    BY <1>2, <1>6 DEF Handled
  <2>2. down'[c] = Append(down[c], m) /\ m.epoch <= tuned
    BY <1>1, <1>3, <1>6
  <2> QED
    BY <1>4, <1>6, <2>1, <2>2, AnswerStep DEF clientVars
<1>7. ASSUME NEW m \in Answers, Answer(c, m), NEW command \in {"Purge", "Open"}, Takes(c, command),
             m.type = IF command = "Purge" THEN "purge" ELSE "open",
             UNCHANGED <<tuned, server, clientVars>>
      PROVE  ClientInv(c)'
  <2>1. Quiet(c) /\ app[c] \in DOMAIN Command /\ Command[app[c]] = command /\ request'[c] = << >>
    BY <1>7, TakesIs
  <2>2. m.type = app[c] /\ ~Set(m)
    BY <1>4, <1>7, <2>1 DEF Set
  <2>3. down'[c] = Append(down[c], m)
    BY <1>3, <1>7
  <2> QED
    BY <1>7, <2>1, <2>2, <2>3, AnswerStep DEF clientVars, Quiet
<1>8. CASE SetChannelJoin(c)
  <2>1. /\ Takes(c, "SetChannel") /\ server'[c] = "tune"
        /\ UNCHANGED <<down, hand, epoch, result, m_fifoTS, m_fSignalLevel, app>>
    BY <1>1, <1>8 DEF SetChannelJoin, clientVars
  <2>2. Quiet(c) /\ app[c] \in DOMAIN Command /\ Command[app[c]] = "SetChannel" /\ request'[c] = << >>
    BY <2>1, TakesIs
  <2>3. app[c] = "channel"
    BY <1>4, <2>2
  <2>4. Protocol(c)'
    BY <2>1, <2>2, <2>3 DEF Protocol, Handled, Quiet
  <2> QED
    BY <1>5, <2>1, <2>4
<1>9. CASE SetChannelLocked(c)
  <2> DEFINE m == [type |-> "channel", dw |-> 1, epoch |-> tuned]
  <2>1. m \in Answers /\ m.type = "channel" /\ m.epoch = tuned
    BY <1>3
  <2>2. Answer(c, m) /\ server[c] # "idle" /\ server'[c] = "idle" /\ UNCHANGED <<tuned, request, clientVars>>
    BY <1>1, <1>9 DEF SetChannelLocked
  <2> QED
    BY <1>6, <2>1, <2>2
<1>10. CASE Tune(c)
  <2>1. /\ server[c] # "idle" /\ server'[c] = "tuned"
        /\ UNCHANGED <<request, down, hand, epoch, result, m_fifoTS, m_fSignalLevel, app>>
    BY <1>1, <1>10 DEF Tune, clientVars
  <2>2. Protocol(c)'
    BY <1>2, <2>1 DEF Protocol, Handled
  <2> QED
    BY <1>5, <2>1, <2>2
<1>11. CASE TuneFails(c)
  <2> DEFINE m == [type |-> "channel", dw |-> 255, epoch |-> tuned]
  <2>1. m \in Answers /\ m.type = "channel" /\ m.epoch = tuned
    BY <1>3
  <2>2. Answer(c, m) /\ server[c] # "idle" /\ server'[c] = "idle" /\ UNCHANGED <<tuned, request, clientVars>>
    BY <1>1, <1>11 DEF TuneFails
  <2> QED
    BY <1>6, <2>1, <2>2
<1>12. CASE SetChannelDone(c)
  <2> DEFINE m == [type |-> "channel", dw |-> 0, epoch |-> tuned]
  <2>1. m \in Answers /\ m.type = "channel" /\ m.epoch = tuned
    BY <1>3
  <2>2. Answer(c, m) /\ server[c] # "idle" /\ server'[c] = "idle" /\ UNCHANGED <<tuned, request, clientVars>>
    BY <1>1, <1>12 DEF SetChannelDone
  <2> QED
    BY <1>6, <2>1, <2>2
<1>13. CASE Purge(c)
  <2> DEFINE m == [type |-> "purge", b |-> c \in TsReceiversList]
  <2>1. (c \in TsReceiversList) \in BOOLEAN
    OBVIOUS
  <2>2. m \in Answers
    BY <1>3, <2>1, Zenon
  <2>3. m.type = "purge"
    OBVIOUS
  <2>4. Answer(c, m) /\ Takes(c, "Purge") /\ UNCHANGED <<tuned, server, clientVars>>
    BY <1>13, Zenon DEF Purge
  <2> QED
    BY <1>7, <2>2, <2>3, <2>4
<1>14. CASE Close(c)
  <2>1. /\ Takes(c, "Close") /\ UNCHANGED <<server, down>>
        /\ UNCHANGED <<down, hand, epoch, result, m_fifoTS, m_fSignalLevel, app>>
    BY <1>14, Zenon DEF Close, clientVars
  <2> QED
    BY <1>5, <2>1, CloseIs
<1>15. CASE Open(c)
  <2>1. PICK b \in BOOLEAN : Answer(c, [type |-> "open", b |-> b])
    BY <1>15 DEF Open
  <2> DEFINE m == [type |-> "open", b |-> b]
  <2>2. m \in Answers /\ m.type = "open"
    BY <1>3
  <2>3. Answer(c, m) /\ Takes(c, "Open") /\ UNCHANGED <<tuned, server, clientVars>>
    BY <1>15, <2>1 DEF Open
  <2> QED
    BY <1>7, <2>2, <2>3
<1> QED
  BY <1>8, <1>9, <1>10, <1>11, <1>12, <1>13, <1>14, <1>15

\* The steps of the application of c.
LEMMA ApplicationStep ==
  ASSUME IInv, [Next]_vars, NEW c \in Clients,
         \/ CallSetChannel(c) \/ SetChannelAnswered(c) \/ SetChannelFlush(c) \/ SetChannelLevel(c) \/ SetChannelCNR(c)
         \/ CallPurge(c) \/ PurgeAnswered(c) \/ CallOpen(c) \/ OpenAnswered(c)
         \/ CallClose(c) \/ GetTsStream(c)
  PROVE  ClientInv(c)'
<1>1. Types /\ Protocol(c) /\ Fresh(c) /\ Line(c)
  BY DEF IInv, ClientInv
<1>2. /\ request[c] \in Seq({"SetChannel", "Purge", "Open", "Close"})
      /\ app \in [Clients -> {"idle", "channel", "flush", "level", "cnr", "purge", "open"}]
      /\ result \in [Clients -> Seq(Answers)] /\ m_fifoTS \in [Clients -> Seq(GoodPackets)]
      /\ m_fSignalLevel \in [Clients -> 0..MaxTunes] /\ epoch \in [Clients -> 0..MaxTunes]
      /\ request \in [Clients -> Seq({"SetChannel", "Purge", "Open", "Close"})]
  BY <1>1, QueueTypes DEF Types
<1>3. Command = [channel |-> "SetChannel", purge |-> "Purge", open |-> "Open"]
      /\ DOMAIN Command = {"channel", "purge", "open"}
  BY DEF Command
<1>4. ASSUME UNCHANGED <<down, hand, epoch>>, Protocol(c)',
             result'[c] = result[c] \/ result'[c] = << >>,
             Rest(m_fifoTS[c], m_fifoTS'[c]),
             m_fSignalLevel'[c] = m_fSignalLevel[c] \/ m_fSignalLevel'[c] = 0,
             app[c] = "flush" => app'[c] = "flush" \/ m_fifoTS'[c] = << >>,
             app[c] \in {"flush", "level"} => app'[c] \in {"flush", "level"} \/ m_fSignalLevel'[c] = 0
      PROVE  ClientInv(c)'
  BY <1>4, TimeStep, DataStep DEF ClientInv
<1>5. ASSUME NEW command \in {"SetChannel", "Purge", "Open", "Close"}, Call(c, command)
      PROVE  /\ app[c] = "idle" /\ Resting(c)
             /\ request'[c] # << >> /\ Len(request'[c]) = Len(request[c]) + 1
             /\ request'[c][Len(request'[c])] = command
             /\ Closes(request'[c], Len(request'[c]) - 1)
             /\ command = "Close" => Closes(request'[c], Len(request'[c]))
  <2>1. app[c] = "idle" /\ request'[c] = Append(request[c], command)
    BY <1>2, <1>5 DEF Call
  <2>2. Resting(c)
    BY <1>1, <1>3, <2>1 DEF Protocol, Asked, Handled, Answered, Returned
  <2> DEFINE r == request'[c]
             n == Len(request[c])
  <2>3. /\ n \in Nat /\ Len(r) = n + 1 /\ r # << >> /\ r[n + 1] = command
        /\ \A k \in 1..n : r[k] = request[c][k]
    <3> DEFINE S == {"SetChannel", "Purge", "Open", "Close"}
    <3>1. request[c] \in Seq(S) /\ command \in S /\ r = Append(request[c], command)
      BY <1>2, <1>5, <2>1
    <3> HIDE DEF S, r
    <3> QED
      BY <3>1, AppendProperties, LenProperties
  <2>4. \A k \in 1..n : request[c][k] = "Close"
    BY <2>2 DEF Resting, Closes
  <2> HIDE DEF r, n
  <2>5. Closes(r, n) /\ (command = "Close" => Closes(r, n + 1)) /\ n + 1 - 1 = n
    BY <2>3, <2>4 DEF Closes
  <2> QED
    BY <2>1, <2>2, <2>3, <2>5 DEF r, n
<1>6. ASSUME NEW command \in {"SetChannel", "Purge", "Open"}, Call(c, command),
             app'[c] \in DOMAIN Command, Command[app'[c]] = command,
             UNCHANGED <<server, down, result, hand, epoch, m_fifoTS, m_fSignalLevel>>
      PROVE  ClientInv(c)'
  <2>1. /\ app[c] = "idle" /\ Resting(c) /\ request'[c] # << >>
        /\ request'[c][Len(request'[c])] = command /\ Closes(request'[c], Len(request'[c]) - 1)
    BY <1>5, <1>6
  <2>2. Protocol(c)'
    BY <1>6, <2>1 DEF Protocol, Asked, Resting, Quiet
  <2> QED
    BY <1>4, <1>6, <2>1, <2>2 DEF Rest
<1>7. ASSUME result[c] # << >>, result'[c] = << >>, app'[c] \in {"idle", "flush", "level", "cnr"},
             UNCHANGED <<server, down, request>>
      PROVE  Protocol(c)'
  <2>1. Returned(c)
    BY <1>7, ResultIs
  <2>2. Len(<< >>) = 0 /\ 1..0 = {}
    OBVIOUS
  <2>3. Closes(request'[c], Len(request'[c]))
    BY <1>7, <2>1, <2>2 DEF Returned, Closes
  <2> QED
    BY <1>7, <2>1, <2>3 DEF Returned, Protocol, Resting, Quiet
<1>8. ASSUME app[c] \in {"flush", "level", "cnr"}, app'[c] \in {"idle", "flush", "level", "cnr"},
             UNCHANGED <<server, down, request, result>>
      PROVE  Protocol(c)'
  <2>1. Resting(c)
    BY <1>1, <1>3, <1>8 DEF Protocol, Asked, Handled, Answered, Returned
  <2> QED
    BY <1>8, <2>1 DEF Protocol, Resting, Quiet
<1>9. CASE CallSetChannel(c)
  <2>1. /\ Call(c, "SetChannel") /\ app'[c] = "channel"
        /\ UNCHANGED <<server, down, result, hand, epoch, m_fifoTS, m_fSignalLevel>>
    BY <1>2, <1>9 DEF CallSetChannel, serverVars
  <2> QED
    BY <1>3, <1>6, <2>1
<1>10. CASE CallPurge(c)
  <2>1. /\ Call(c, "Purge") /\ app'[c] = "purge"
        /\ UNCHANGED <<server, down, result, hand, epoch, m_fifoTS, m_fSignalLevel>>
    BY <1>2, <1>10 DEF CallPurge, serverVars
  <2> QED
    BY <1>3, <1>6, <2>1
<1>11. CASE CallOpen(c)
  <2>1. /\ Call(c, "Open") /\ app'[c] = "open"
        /\ UNCHANGED <<server, down, result, hand, epoch, m_fifoTS, m_fSignalLevel>>
    BY <1>2, <1>11 DEF CallOpen, serverVars
  <2> QED
    BY <1>3, <1>6, <2>1
<1>12. CASE CallClose(c)
  <2>1. /\ Call(c, "Close") /\ m_fSignalLevel'[c] = 0
        /\ UNCHANGED <<server, down, result, hand, epoch, m_fifoTS, app>>
    BY <1>2, <1>12 DEF CallClose, serverVars
  <2>2. app[c] = "idle" /\ Resting(c) /\ Closes(request'[c], Len(request'[c]))
    BY <1>5, <2>1
  <2>3. Protocol(c)'
    BY <2>1, <2>2 DEF Protocol, Resting, Quiet
  <2> QED
    BY <1>4, <2>1, <2>2, <2>3 DEF Rest
<1>13. CASE SetChannelFlush(c)
  <2>1. /\ app[c] = "flush" /\ app'[c] = "level" /\ m_fifoTS'[c] = << >>
        /\ UNCHANGED <<server, request, down, result, hand, epoch, m_fSignalLevel>>
    BY <1>2, <1>13 DEF SetChannelFlush, serverVars
  <2> QED
    BY <1>4, <1>8, <2>1 DEF Rest
<1>14. CASE SetChannelLevel(c) \/ SetChannelCNR(c)
  <2>1. /\ \/ app[c] = "level" /\ app'[c] = "cnr" /\ m_fSignalLevel'[c] = 0
           \/ app[c] = "cnr" /\ app'[c] = "idle" /\ m_fSignalLevel'[c] = m_fSignalLevel[c]
        /\ UNCHANGED <<server, request, down, result, hand, epoch, m_fifoTS>>
    BY <1>2, <1>14 DEF SetChannelLevel, SetChannelCNR, serverVars
  <2> QED
    BY <1>4, <1>8, <2>1 DEF Rest
<1>15. CASE PurgeAnswered(c)
  <2>1. /\ app[c] = "purge" /\ app'[c] = "idle" /\ result[c] # << >> /\ result'[c] = << >>
        /\ m_fifoTS'[c] = m_fifoTS[c] \/ m_fifoTS'[c] = << >>
        /\ UNCHANGED <<server, request, down, hand, epoch, m_fSignalLevel>>
    BY <1>2, <1>15 DEF PurgeAnswered, serverVars
  <2> QED
    BY <1>4, <1>7, <2>1 DEF Rest
<1>16. CASE OpenAnswered(c)
  <2>1. /\ app[c] = "open" /\ app'[c] = "idle" /\ result[c] # << >> /\ result'[c] = << >>
        /\ UNCHANGED <<server, request, down, hand, epoch, m_fSignalLevel, m_fifoTS>>
    BY <1>2, <1>16 DEF OpenAnswered, serverVars
  <2> QED
    BY <1>4, <1>7, <2>1 DEF Rest
<1>17. CASE GetTsStream(c)
  <2>1. /\ m_fifoTS[c] # << >> /\ m_fifoTS'[c] = Tail(m_fifoTS[c])
        /\ UNCHANGED <<server, request, down, result, hand, epoch, m_fSignalLevel, app>>
    BY <1>2, <1>17 DEF GetTsStream, serverVars
  <2>2. app[c] # "level"
    BY <1>17 DEF GetTsStream
  <2>3. Protocol(c)'
    BY <1>1, <2>1 DEF Protocol, Resting, Asked, Handled, Answered, Returned, Quiet
  <2> QED
    BY <2>1, <2>3, TimeStep, DataStep DEF Rest, ClientInv
<1>18. CASE SetChannelAnswered(c)
  <2>1. /\ app[c] = "channel" /\ result[c] # << >> /\ result'[c] = << >>
        /\ app'[c] = IF result[c][1].dw = 0 THEN "flush" ELSE "idle"
        /\ UNCHANGED <<server, request, down, hand, m_fifoTS>>
    BY <1>2, <1>18 DEF SetChannelAnswered, serverVars
  <2>2. Protocol(c)'
    BY <1>7, <2>1
  <2>3. CASE result[c][1].dw # 0
    <3>1. epoch' = epoch /\ (m_fSignalLevel'[c] = m_fSignalLevel[c] \/ m_fSignalLevel'[c] = 0)
      BY <1>2, <1>18, <2>3 DEF SetChannelAnswered
    <3> QED
      BY <1>4, <2>1, <2>2, <3>1 DEF Rest
  <2>4. CASE result[c][1].dw = 0
    <3>1. epoch'[c] = result[c][1].epoch /\ Set(result[c][1])
      BY <1>2, <1>18, <2>1, <2>4, ResultIs DEF SetChannelAnswered
    <3>2. /\ epoch'[c] <= tuned /\ epoch'[c] \in Nat
          /\ Since(hand[c], epoch'[c]) /\ Since(down[c], epoch'[c])
      BY <1>1, <2>1, <3>1, ResultIs, BoundAssumption DEF Fresh
    <3>3. tuned' = tuned /\ units' = units /\ buf' = buf
      BY <1>18, Zenon DEF SetChannelAnswered, serverVars, reader
    <3>4. Line(c)'
      BY <1>1, <2>1, <3>3 DEF Line
    <3>5. Fresh(c)'
      BY <1>1, <2>1, <2>4, <3>2, <3>3 DEF Fresh
    <3> QED
      BY <2>2, <3>4, <3>5 DEF ClientInv
  <2> QED
    BY <2>3, <2>4
<1> QED
  BY <1>9, <1>10, <1>11, <1>12, <1>13, <1>14, <1>15, <1>16, <1>17, <1>18

\* Process takes an answer or a packet, or hands a packet over.
LEMMA ProcessStep ==
  ASSUME IInv, [Next]_vars, NEW c \in Clients,
         ProcessAnswer(c) \/ ProcessLevel(c) \/ ProcessCNR(c) \/ ProcessPush(c)
  PROVE  ClientInv(c)'
<1>1. Types /\ Protocol(c) /\ Fresh(c) /\ Line(c)
  BY DEF IInv, ClientInv
<1>2. /\ down \in [Clients -> Seq(Messages)] /\ hand \in [Clients -> Seq(GoodPackets)]
      /\ result \in [Clients -> Seq(Answers)] /\ m_fifoTS \in [Clients -> Seq(GoodPackets)]
      /\ m_fSignalLevel \in [Clients -> 0..MaxTunes]
      /\ down[c] \in Seq(Messages) /\ hand[c] \in Seq(Messages) /\ m_fifoTS[c] \in Seq(Messages)
      /\ epoch[c] \in Nat
      /\ process[c] = "idle" => hand[c] = << >>
      /\ process[c] # "idle" => hand[c] # << >> /\ hand[c] = <<hand[c][1]>> /\ hand[c][1] \in GoodPackets
  BY <1>1, QueueTypes DEF Types
<1>3. Command = [channel |-> "SetChannel", purge |-> "Purge", open |-> "Open"]
      /\ DOMAIN Command = {"channel", "purge", "open"}
  BY DEF Command
<1>4. tuned' = tuned /\ units' = units /\ buf' = buf
  BY Zenon DEF ProcessAnswer, ProcessLevel, ProcessCNR, ProcessPush, serverVars, reader
<1> DEFINE D == down[c]
           m == D[1]
<1>5. ASSUME down[c] # << >>
      PROVE  Head(D) = m /\ m \in Messages /\ (IF IsTs(m) THEN m \in GoodPackets ELSE m \in Answers)
             /\ Tail(D) \in Seq(Messages)
  BY <1>2, <1>5, TailIs, MessageTypes
<1>6. CASE ProcessAnswer(c)
  <2>1. /\ D # << >> /\ ~IsTs(m) /\ down'[c] = Tail(D) /\ result'[c] = <<m>> /\ hand[c] = << >>
        /\ UNCHANGED <<server, request, hand, m_fifoTS, m_fSignalLevel, app, epoch>>
    BY <1>2, <1>5, <1>6 DEF ProcessAnswer, serverVars, IsTs
  <2>2. m \in Answers
    BY <1>5, <2>1
  <2>3. Answered(c)
    <3>1. 1 \in 1..Len(D)
      BY <1>2, <2>1, TailIs
    <3>2. ~NoAnswer(D)
      BY <2>1, <3>1 DEF NoAnswer
    <3> QED
      BY <1>1, <3>2 DEF Protocol, Resting, Asked, Handled, Returned, Quiet
  <2>4. NoAnswer(Tail(D)) /\ m.type = app[c]
    BY <1>2, <2>1, <2>3, TailKeeps DEF Answered
  <2>5. Protocol(c)'
    <3>1. Len(result'[c]) = 1 /\ result'[c][1] = m
      BY <2>1
    <3> QED
      BY <2>1, <2>3, <2>4, <3>1 DEF Answered, Protocol, Returned
  <2>6. Line(c)'
    <3>1. /\ InOrder(Tail(D)) /\ Before(m_fifoTS[c], Tail(D)) /\ Before(hand[c], Tail(D))
          /\ UpTo(Tail(D), units - Len(buf))
      BY <1>1, <1>2, <2>1, TailKeeps DEF Line
    <3> QED
      BY <1>1, <1>4, <2>1, <3>1 DEF Line
  <2>7. Fresh(c)'
    <3>1. /\ Since(Tail(D), epoch[c]) /\ FreshAnswers(Tail(D), tuned)
          /\ Set(m) => m.epoch <= tuned /\ Since(Tail(D), m.epoch)
      BY <1>1, <1>2, <2>1, TailKeeps DEF Fresh
    <3>2. \A e : Since(hand[c], e)
      BY <2>1, EmptyKeeps
    <3>3. result'[c][1] = m
      BY <2>1
    <3> QED
      BY <1>1, <1>4, <2>1, <3>1, <3>2, <3>3 DEF Fresh
  <2> QED
    BY <2>5, <2>6, <2>7 DEF ClientInv
<1>7. CASE ProcessLevel(c)
  <2>1. /\ D # << >> /\ IsTs(m) /\ down'[c] = Tail(D) /\ hand'[c] = <<m>> /\ hand[c] = << >>
        /\ m_fSignalLevel'[c] = m.cnr
        /\ UNCHANGED <<server, request, result, m_fifoTS, app, epoch>>
    BY <1>2, <1>5, <1>7 DEF ProcessLevel, serverVars, IsTs
  <2>2. Protocol(c)'
    <3>1. NoAnswer(D) => NoAnswer(Tail(D))
      BY <1>2, <2>1, TailKeeps
    <3>2. OneAnswer(D, app[c]) /\ app[c] # "ts" => OneAnswer(Tail(D), app[c])
      BY <1>2, <2>1, TailKeeps
    <3> QED
      BY <1>1, <1>3, <2>1, <3>1, <3>2 DEF Protocol, Resting, Asked, Handled, Answered, Returned, Quiet
  <2>3. Line(c)'
    <3>1. /\ InOrder(Tail(D)) /\ Before(<<m>>, Tail(D))
          /\ Before(m_fifoTS[c], Tail(D)) /\ Before(m_fifoTS[c], <<m>>)
          /\ UpTo(Tail(D), units - Len(buf)) /\ UpTo(<<m>>, units - Len(buf))
      BY <1>1, <1>2, <2>1, TailKeeps DEF Line
    <3>2. InOrder(<<m>>)
      BY DEF InOrder
    <3> QED
      BY <1>1, <1>4, <2>1, <3>1, <3>2 DEF Line
  <2>4. Fresh(c)'
    <3>1. /\ \A e : Since(D, e) => Since(Tail(D), e) /\ Since(<<m>>, e)
          /\ FreshAnswers(Tail(D), tuned)
      BY <1>1, <1>2, <2>1, TailKeeps DEF Fresh
    <3>2. m.cnr >= epoch[c]
      <4>1. 1 \in 1..Len(D)
        BY <1>2, <2>1, TailIs
      <4> QED
        BY <1>1, <2>1, <4>1 DEF Fresh, Since
    <3> QED
      BY <1>1, <1>4, <2>1, <3>1, <3>2 DEF Fresh
  <2> QED
    BY <2>2, <2>3, <2>4 DEF ClientInv
<1>9. CASE ProcessCNR(c)
  <2>1. UNCHANGED <<serverVars, request, down, hand, result, m_fifoTS, m_fSignalLevel, app, epoch>>
    BY <1>9, Zenon DEF ProcessCNR
  <2> QED
    BY <2>1, TimeStep, Frame DEF serverVars
<1>8. CASE ProcessPush(c)
  <2> DEFINE F == m_fifoTS[c]
             kept == IF Len(F) >= TsFifoSize THEN Tail(F) ELSE F
             h == hand[c]
  <2>1. /\ m_fifoTS'[c] = Append(kept, h[1]) /\ hand'[c] = << >>
        /\ h = <<h[1]>> /\ h[1] \in GoodPackets
        /\ UNCHANGED <<server, request, down, result, m_fSignalLevel, app, epoch>>
    BY <1>2, <1>8 DEF ProcessPush, serverVars
  <2>2. Protocol(c)'
    BY <1>1, <2>1 DEF Protocol, Resting, Asked, Handled, Answered, Returned, Quiet
  <2>3. /\ kept \in Seq(Messages)
        /\ InOrder(kept) /\ Before(kept, h) /\ Before(kept, D)
        /\ UpTo(kept, units - Len(buf))
        /\ \A e : Since(F, e) => Since(kept, e)
    <3>1. CASE Len(F) >= TsFifoSize
      <4>1. F # << >>
        BY <1>2, <3>1, SizeAssumption, EmptySeq, LenProperties
      <4>2. /\ Tail(F) \in Seq(Messages)
            /\ InOrder(Tail(F)) /\ Before(Tail(F), h) /\ Before(Tail(F), D)
            /\ UpTo(Tail(F), units - Len(buf))
            /\ \A e : Since(F, e) => Since(Tail(F), e)
        BY <1>1, <1>2, <4>1, TailIs, TailKeeps DEF Line
      <4> QED
        BY <3>1, <4>2
    <3>2. CASE ~(Len(F) >= TsFifoSize)
      BY <1>1, <1>2, <3>2 DEF Line
    <3> QED
      BY <3>1, <3>2
  <2> HIDE DEF kept, F
  <2>4. Append(kept, h[1]) = kept \o h /\ h \in Seq(Messages)
    <3>1. PICK x \in GoodPackets : h[1] = x /\ h = <<x>>
      BY <2>1
    <3>2. x \in Messages
      BY MessageTypes
    <3>3. Append(kept, x) = kept \o <<x>>
      BY <2>3, <3>2, AppendIs
    <3> QED
      BY <1>2, <3>1, <3>3
  <2>5. /\ InOrder(kept \o h) /\ Before(kept \o h, D) /\ UpTo(kept \o h, units - Len(buf))
        /\ \A e : Since(kept, e) /\ Since(h, e) => Since(kept \o h, e)
    BY <1>1, <2>3, <2>4, ConcatKeeps DEF Line
  <2>6. Line(c)'
    BY <1>1, <1>4, <2>1, <2>4, <2>5, EmptyKeeps DEF Line
  <2>7. Fresh(c)'
    <3>1. app[c] # "flush" => Since(kept \o h, epoch[c])
      BY <1>1, <2>3, <2>5 DEF Fresh, F
    <3> QED
      BY <1>1, <1>4, <2>1, <2>4, <3>1, EmptyKeeps DEF Fresh
  <2> QED
    BY <2>2, <2>6, <2>7 DEF ClientInv
<1> QED
  BY <1>6, <1>7, <1>8, <1>9

LEMMA ReadStep ==
  ASSUME IInv, [Next]_vars, NEW c \in Clients, ReadOnce
  PROVE  ClientInv(c)'
<1>1. Types /\ Protocol(c) /\ Fresh(c) /\ Line(c)
  BY DEF IInv, ClientInv
<1>2. /\ down[c] \in Seq(Messages) /\ hand[c] \in Seq(Messages) /\ m_fifoTS[c] \in Seq(Messages)
      /\ tuned \in Nat /\ epoch[c] \in Nat
  BY <1>1, QueueTypes
<1>3. UNCHANGED <<tuned, server, request, hand, result, m_fifoTS, m_fSignalLevel, app, epoch>>
  BY Zenon DEF ReadOnce, clientVars
<1>4. PICK ts \in Seq(GoodPackets) :
        /\ units - Len(buf) <= units' - Len(buf')
        /\ InOrder(ts) /\ UpTo(ts, units' - Len(buf'))
        /\ \A k \in 1..Len(ts) : ts[k].cnr = tuned /\ First(ts[k]) > units - Len(buf)
        /\ down' = [d \in Clients |-> IF d \in TsReceiversList
                                      THEN PushTs(down[d], ts) ELSE down[d]]
  BY ReadIs
<1>5. CASE c \notin TsReceiversList
  <2>1. down'[c] = down[c]
    BY <1>4, <1>5
  <2> QED
    BY <1>3, <2>1, TimeStep, Frame
<1>6. CASE c \in TsReceiversList
  <2>1. PICK new \in Seq(GoodPackets) :
          /\ PushTs(down[c], ts) = down[c] \o new
          /\ \A k \in 1..Len(new) : k \in 1..Len(ts) /\ new[k] = ts[k]
    BY <1>2, PushIs
  <2> DEFINE D == down[c]
             w == D \o new
             n == units - Len(buf)
             n2 == units' - Len(buf')
  <2>2. down'[c] = w /\ n \in Int /\ n2 \in Int /\ n <= n2
    BY <1>4, <1>6, <2>1, TimeStep
  <2>3. \A k \in 1..Len(new) : new[k].cnr = tuned /\ First(new[k]) > n /\ new[k] \in GoodPackets
    BY <1>4, <2>1, ElementOfSeq
  <2>4. InOrder(new) /\ UpTo(new, n2)
    BY <1>4, <2>1 DEF InOrder, UpTo
  <2>5. ASSUME NEW s \in Seq(Messages), UpTo(s, n) PROVE Before(s, new) /\ UpTo(s, n2)
    <3>1. \A k \in 1..Len(s) : IsTs(s[k]) => Last(s[k]) \in Int /\ Last(s[k]) <= n
      <4>1. \A k \in 1..Len(s) : s[k] \in Messages
        BY ElementOfSeq
      <4> QED
        BY <2>5, <4>1, MessageTypes DEF UpTo
    <3>2. \A k \in 1..Len(new) : First(new[k]) \in Int
      BY <2>3, MessageTypes
    <3> HIDE DEF n, n2
    <3> QED
      BY <2>2, <2>3, <2>5, <3>1, <3>2, LaterKeeps DEF Before
  <2>6. new \in Seq(Messages)
    BY DEF Messages
  <2> HIDE DEF n, n2
  <2>7. /\ Before(m_fifoTS[c], new) /\ Before(hand[c], new) /\ Before(D, new)
        /\ UpTo(m_fifoTS[c], n2) /\ UpTo(hand[c], n2) /\ UpTo(D, n2)
    BY <1>1, <1>2, <2>5 DEF Line, n
  <2>8. /\ InOrder(w) /\ Before(m_fifoTS[c], w) /\ Before(hand[c], w) /\ UpTo(w, n2)
    BY <1>1, <1>2, <2>4, <2>6, <2>7, ConcatKeeps DEF Line
  <2>9. Line(c)'
    BY <1>1, <1>3, <2>2, <2>7, <2>8 DEF Line, n2
  <2>10. /\ NoAnswer(D) => NoAnswer(w)
         /\ \A type : OneAnswer(D, type) => OneAnswer(w, type)
         /\ \A e : e <= tuned /\ Since(D, e) => Since(w, e)
         /\ FreshAnswers(D, tuned) => FreshAnswers(w, tuned)
    BY <1>2, <2>3, ArrivalKeeps
  <2>11. Protocol(c)'
    BY <1>1, <1>3, <2>2, <2>10 DEF Protocol, Resting, Asked, Handled, Answered, Returned, Quiet
  <2>12. Fresh(c)'
    <3>1. Since(w, epoch[c]) /\ FreshAnswers(w, tuned)
      BY <1>1, <2>10 DEF Fresh
    <3>2. result[c] # << >> /\ Set(result[c][1]) => Since(w, result[c][1].epoch)
      BY <1>1, <2>10 DEF Fresh
    <3> QED
      BY <1>1, <1>3, <2>2, <3>1, <3>2 DEF Fresh
  <2> QED
    BY <2>9, <2>11, <2>12 DEF ClientInv
<1> QED
  BY <1>5, <1>6

LEMMA ClientStep ==
  ASSUME IInv, [Next]_vars, NEW d \in Clients
  PROVE  ClientInv(d)'
<1>1. Types
  BY DEF IInv
<1>2. CASE UNCHANGED vars \/ Done
  <2>1. UNCHANGED vars
    BY <1>2 DEF Done
  <2>2. UNCHANGED <<server, request, down, hand, result, m_fifoTS, m_fSignalLevel, app, epoch>>
    BY <2>1, Zenon DEF vars, serverVars, clientVars
  <2> QED
    BY <2>2, TimeStep, Frame
<1>3. CASE ReadOnce
  BY <1>3, ReadStep
<1>4. ASSUME NEW c \in Clients,
              \/ SetChannelJoin(c) \/ SetChannelLocked(c) \/ Tune(c) \/ TuneFails(c)
              \/ SetChannelDone(c) \/ Purge(c) \/ Close(c) \/ Open(c)
              \/ ProcessAnswer(c) \/ ProcessLevel(c) \/ ProcessCNR(c) \/ ProcessPush(c)
              \/ CallSetChannel(c) \/ SetChannelAnswered(c) \/ SetChannelFlush(c)
              \/ SetChannelLevel(c) \/ SetChannelCNR(c)
              \/ CallPurge(c) \/ PurgeAnswered(c) \/ CallOpen(c) \/ OpenAnswered(c)
              \/ CallClose(c) \/ GetTsStream(c)
      PROVE  ClientInv(d)'
  <2>1. CASE d # c
    <3>1. /\ server'[d] = server[d] /\ request'[d] = request[d] /\ down'[d] = down[d]
          /\ hand'[d] = hand[d] /\ result'[d] = result[d] /\ m_fifoTS'[d] = m_fifoTS[d]
          /\ m_fSignalLevel'[d] = m_fSignalLevel[d] /\ app'[d] = app[d] /\ epoch'[d] = epoch[d]
      BY <1>1, <1>4, <2>1, Elsewhere, Zenon
    <3> QED
      BY <3>1, TimeStep, Frame
  <2>2. CASE d = c
    BY <1>4, <2>2, HandlerStep, ProcessStep, ApplicationStep, Zenon
  <2> QED
    BY <2>1, <2>2
<1> QED
  BY <1>2, <1>3, <1>4, Zenon DEF Next

\* The inductive invariant holds in every reachable state.
THEOREM Invariance == Spec => []IInv
<1>1. IInv /\ [Next]_vars => IInv'
  BY TypesStep, ReaderStep, ClientStep DEF IInv
<1> QED
  BY InitInv, <1>1, PTL DEF Spec

-----------------------------------------------------------------------------
(* What follows from the invariant                                          *)

LEMMA TypeOKFollows == IInv => TypeOK
<1> SUFFICES ASSUME IInv PROVE TypeOK
  OBVIOUS
<1>1. Types /\ ReaderInv
  BY DEF IInv
<1>2. ASSUME NEW c \in Clients
      PROVE  /\ down[c] \in Seq(Packets \cup Answers) /\ m_fifoTS[c] \in Seq(Packets)
             /\ hand[c] \in {<< >>} \/ hand[c][1] \in Packets
             /\ result[c] = << >> \/ result[c][1] \in Answers
             /\ calls[c] \in 0..MaxCalls[c]
  <2>1. GoodPackets \subseteq Packets /\ Messages \subseteq Packets \cup Answers
    BY MessageTypes DEF Messages
  <2>2. \A s \in Seq(Messages) : s \in Seq(Packets \cup Answers)
    BY <2>1
  <2>3. \A s \in Seq(GoodPackets) : s \in Seq(Packets)
    BY <2>1
  <2>4. hand[c] \in {<< >>} \/ hand[c][1] \in Packets
    BY <1>1, <2>1, QueueTypes DEF Types
  <2>5. result[c] = << >> \/ result[c][1] \in Answers
    BY <1>1, QueueTypes, TailIs
  <2>6. calls[c] \in 0..MaxCalls[c]
    BY <1>1, BoundAssumption DEF Types
  <2> QED
    BY <1>1, <2>2, <2>3, <2>4, <2>5, <2>6, QueueTypes
<1>3. buf \in Seq(Units) /\ Len(buf) < BufSize
  BY <1>1 DEF ReaderInv, Run
<1>4. down \in [Clients -> Seq(Packets \cup Answers)] /\ m_fifoTS \in [Clients -> Seq(Packets)]
  <2>1. down \in [Clients -> Seq(Messages)] /\ m_fifoTS \in [Clients -> Seq(GoodPackets)]
    BY <1>1 DEF Types
  <2> QED
    BY <1>2, <2>1
<1> QED
  BY <1>1, <1>2, <1>3, <1>4, Zenon DEF Types, TypeOK

\* Every variable has its type in every reachable state.
THEOREM TypesCorrect == Spec => []TypeOK
BY Invariance, TypeOKFollows, PTL

\* What is on its way comes from the queue of the client, Process and the server.
LEMMA WayIs ==
  ASSUME Types, NEW c \in Clients
  PROVE  /\ OnTheWay(c) \in Seq(Messages)
         /\ \A k \in Ts(c) : OnTheWay(c)[k] \in GoodPackets
         /\ Line(c) => InOrder(OnTheWay(c))
         /\ \A e : Since(m_fifoTS[c], e) /\ Since(hand[c], e) /\ Since(down[c], e)
                     => Since(OnTheWay(c), e)
<1> DEFINE F == m_fifoTS[c]
           H == hand[c]
           D == down[c]
<1>1. F \in Seq(Messages) /\ H \in Seq(Messages) /\ D \in Seq(Messages)
  BY QueueTypes
<1>2. OnTheWay(c) = (F \o H) \o D
  BY DEF OnTheWay
<1>3. F \o H \in Seq(Messages)
  BY <1>1, ConcatProperties
<1>4. OnTheWay(c) \in Seq(Messages)
  BY <1>1, <1>2, <1>3, ConcatProperties
<1>5. ASSUME Line(c) PROVE InOrder(OnTheWay(c))
  <2>1. InOrder(F \o H) /\ Before(F \o H, D)
    BY <1>1, <1>5, ConcatKeeps DEF Line
  <2> QED
    BY <1>1, <1>2, <1>3, <1>5, <2>1, ConcatKeeps DEF Line
<1>6. ASSUME NEW e, Since(F, e), Since(H, e), Since(D, e) PROVE Since(OnTheWay(c), e)
  <2>1. Since(F \o H, e)
    BY <1>1, <1>6, ConcatKeeps
  <2> QED
    BY <1>1, <1>2, <1>3, <1>6, <2>1, ConcatKeeps
<1>7. ASSUME NEW k \in Ts(c) PROVE OnTheWay(c)[k] \in GoodPackets
  <2>1. k \in 1..Len(OnTheWay(c)) /\ IsTs(OnTheWay(c)[k])
    BY DEF Ts
  <2>2. OnTheWay(c)[k] \in Messages
    BY <1>4, <2>1, ElementOfSeq
  <2> QED
    BY <2>1, <2>2, MessageTypes
<1> QED
  BY <1>4, <1>5, <1>6, <1>7

\* Once an application's SetChannel has returned, neither the TS it can get nor
\* the level it reads is older than that change.
THEOREM Freshness == Spec => []FreshAfterSetChannel
<1>1. IInv => FreshAfterSetChannel
  <2> SUFFICES ASSUME IInv, NEW c \in Clients
               PROVE  /\ \A k \in Ts(c) :
                           \A u \in 1..Len(OnTheWay(c)[k].data) :
                             OnTheWay(c)[k].data[u][1] = OnTheWay(c)[k].cnr
                      /\ app[c] = "idle" =>
                           /\ m_fSignalLevel[c] = 0 \/ m_fSignalLevel[c] >= epoch[c]
                           /\ \A k \in Ts(c) : OnTheWay(c)[k].cnr >= epoch[c]
    BY Zenon DEF FreshAfterSetChannel
  <2>1. Types /\ Fresh(c)
    BY DEF IInv, ClientInv
  <2>2. ASSUME NEW k \in Ts(c), NEW u \in 1..Len(OnTheWay(c)[k].data)
        PROVE  OnTheWay(c)[k].data[u][1] = OnTheWay(c)[k].cnr
    <3>1. OnTheWay(c)[k] \in GoodPackets
      BY <2>1, WayIs
    <3> QED
      BY <3>1 DEF GoodPackets
  <2>3. ASSUME app[c] = "idle"
        PROVE  /\ m_fSignalLevel[c] = 0 \/ m_fSignalLevel[c] >= epoch[c]
               /\ \A k \in Ts(c) : OnTheWay(c)[k].cnr >= epoch[c]
    <3>1. Since(OnTheWay(c), epoch[c])
      BY <2>1, <2>3, WayIs DEF Fresh
    <3> QED
      BY <2>1, <2>3, <3>1 DEF Fresh, Since, Ts
  <2> QED
    BY <2>2, <2>3
<1> QED
  BY Invariance, <1>1, PTL

\* Whatever is lost, nothing reaches an application twice or out of order.
THEOREM Order == Spec => []StreamInOrder
<1>1. IInv => StreamInOrder
  <2> SUFFICES ASSUME IInv, NEW c \in Clients, NEW k \in Ts(c), NEW l \in Ts(c)
               PROVE  LET d == OnTheWay(c)[k].data
                          e == OnTheWay(c)[l].data
                      IN  /\ d # << >> /\ Len(d) <= BufSize
                          /\ \A u \in 1..(Len(d) - 1) : d[u + 1][2] = d[u][2] + 1
                          /\ k < l => d[Len(d)][2] < e[1][2]
    BY DEF StreamInOrder
  <2> DEFINE p == OnTheWay(c)[k]
             q == OnTheWay(c)[l]
             d == p.data
             e == q.data
  <2>1. Types /\ Line(c) /\ BufSize \in Nat
    BY SizeAssumption DEF IInv, ClientInv
  <2>2. p \in GoodPackets /\ q \in GoodPackets
    BY <2>1, WayIs
  <2>3. k < l => d[Len(d)][2] < e[1][2]
    <3>1. InOrder(OnTheWay(c))
      BY <2>1, WayIs
    <3>2. k < l => Last(p) < First(q)
      BY <3>1 DEF Ts, InOrder
    <3> QED
      BY <3>2 DEF Last, First
  <2> HIDE DEF p, q
  <2>4. /\ Len(d) \in 1..BufSize /\ First(p) \in Nat
        /\ \A u \in 1..Len(d) : d[u][2] = First(p) + (u - 1)
    <3>1. First(p) \in Nat /\ Len(d) \in 1..BufSize
      BY <2>2, MessageTypes DEF GoodPackets
    <3>2. \A u \in 1..Len(d) : d[u] = <<p.cnr, First(p) + (u - 1)>>
      BY <2>2 DEF GoodPackets
    <3> QED
      BY <3>1, <3>2
  <2>5. d # << >>
    <3>1. Len(<< >>) = 0
      OBVIOUS
    <3> QED
      BY <2>1, <2>4, <3>1
  <2>6. ASSUME NEW u \in 1..(Len(d) - 1) PROVE d[u + 1][2] = d[u][2] + 1
    <3>1. u \in 1..Len(d) /\ u + 1 \in 1..Len(d) /\ u \in Nat
      BY <2>1, <2>4
    <3>2. d[u][2] = First(p) + (u - 1) /\ d[u + 1][2] = First(p) + ((u + 1) - 1)
      BY <2>4, <3>1
    <3> QED
      BY <2>4, <3>1, <3>2
  <2>7. Len(d) <= BufSize
    BY <2>1, <2>4
  <2> QED
    BY <2>3, <2>5, <2>6, <2>7 DEF p, q
<1> QED
  BY Invariance, <1>1, PTL

\* The units held back for a full packet are only dropped by a channel change or a
\* purge of the sole receiver: a receiver with room gets every one of them.
THEOREM PurgeSpares == Spec => PurgeSparesOthers
<1>1. IInv /\ [Next]_vars =>
        \A c \in TsReceiversList :
          buf # << >> /\ buf' = << >> /\ tuned' = tuned /\ Len(down[c]) < FifoSize =>
            \/ Len(down'[c]) > Len(down[c])
            \/ TsReceiversList = {c}
  <2> SUFFICES ASSUME IInv, [Next]_vars, NEW c \in TsReceiversList,
                      buf # << >>, buf' = << >>, tuned' = tuned, Len(down[c]) < FifoSize
               PROVE  Len(down'[c]) > Len(down[c]) \/ TsReceiversList = {c}
    OBVIOUS
  <2>1. c \in Clients /\ down[c] \in Seq(Messages)
    <3>1. c \in Clients
      BY DEF IInv, Types
    <3> QED
      BY <3>1, QueueTypes DEF IInv
  <2>2. CASE ReadOnce
    <3>1. PICK ts \in Seq(GoodPackets) :
            /\ ts # << >>
            /\ down' = [d \in Clients |-> IF d \in TsReceiversList
                                          THEN PushTs(down[d], ts) ELSE down[d]]
      BY <2>2, ReadIs
    <3>2. PICK new \in Seq(GoodPackets) : PushTs(down[c], ts) = down[c] \o new /\ new # << >>
      BY <2>1, <3>1, PushIs
    <3>3. down'[c] = down[c] \o new /\ new \in Seq(Messages)
      BY <2>1, <3>1, <3>2 DEF Messages
    <3>4. Len(down'[c]) = Len(down[c]) + Len(new) /\ Len(down[c]) \in Nat /\ Len(new) \in Nat \ {0}
      BY <2>1, <3>2, <3>3, ConcatProperties, LenProperties, EmptySeq
    <3> QED
      BY <3>4
  <2>3. ASSUME NEW d \in Clients, Close(d) PROVE TsReceiversList = {c}
    <3>1. TsReceiversList \ {d} = {} \/ buf' = buf
      BY <2>3 DEF Close
    <3> QED
      BY <3>1
  <2>4. ASSUME NEW d \in Clients, Purge(d) PROVE TsReceiversList = {c}
    BY <2>4 DEF Purge
  <2>5. ASSUME NEW d \in Clients, Tune(d) PROVE FALSE
    BY <2>5, TimeStep DEF Tune
  <2>6. ASSUME NEW d \in Clients,
               SetChannelJoin(d) \/ SetChannelLocked(d) \/ TuneFails(d) \/ SetChannelDone(d) \/ Open(d)
        PROVE  FALSE
    BY <2>6, Zenon DEF SetChannelJoin, SetChannelLocked, TuneFails, SetChannelDone, Open, reader
  <2>7. ASSUME NEW d \in Clients,
              \/ ProcessAnswer(d) \/ ProcessLevel(d) \/ ProcessCNR(d) \/ ProcessPush(d)
              \/ CallSetChannel(d) \/ SetChannelAnswered(d) \/ SetChannelFlush(d)
              \/ SetChannelLevel(d) \/ SetChannelCNR(d) \/ CallPurge(d) \/ PurgeAnswered(d) \/ CallOpen(d)
              \/ OpenAnswered(d) \/ CallClose(d) \/ GetTsStream(d)
        PROVE  FALSE
    BY <2>7, Zenon DEF ProcessAnswer, ProcessLevel, ProcessCNR, ProcessPush, CallSetChannel, SetChannelAnswered,
         SetChannelFlush, SetChannelLevel, SetChannelCNR, CallPurge, PurgeAnswered, CallOpen, OpenAnswered,
         CallClose, GetTsStream, serverVars, reader
  <2>8. CASE Done \/ UNCHANGED vars
    BY <2>8, Zenon DEF Done, vars, serverVars, reader
  <2> QED
    BY <2>2, <2>3, <2>4, <2>5, <2>6, <2>7, <2>8, Zenon DEF Next
<1> QED
  BY Invariance, <1>1, PTL DEF Spec, PurgeSparesOthers
=============================================================================
