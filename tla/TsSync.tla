-------------------------------- MODULE TsSync --------------------------------
(***************************************************************************)
(* TsSync() of BonDriver_Splitter: it cuts the chunks of a byte stream     *)
(* into packets by their sync bytes, whatever the size of the unit a       *)
(* packet comes in, and carries what is left of a chunk over to the next.  *)
(* A byte of the stream is the packet it belongs to and its place there;   *)
(* the first is the sync byte, and no other byte looks like one.  Bytes of *)
(* the stream may get lost.  m_dwSyncBufPos is Len(m_SyncBuf).             *)
(***************************************************************************)
EXTENDS Integers, Sequences, FiniteSetsExt

CONSTANTS
  UnitSizes,     \* TS_PKTSIZE, TTS_PKTSIZE, TS_FEC_PKTSIZE, TTS_FEC_PKTSIZE
  SyncBufSize,   \* sizeof(m_SyncBuf) (256)
  CheckCount,    \* sync bytes in a row that are enough (8)
  ChunkSizes,    \* values of the ini setting TSPACKET_BUFSIZE
  Wrap,          \* packet numbers are modulo this
  MaxJumps       \* bound: how often bytes get lost

TS_PKTSIZE == UnitSizes[1]

\* The sizes keep the order 188 < 192 < 204 < 208 < 256 < 2 * 188.
ASSUME UnitAssumption ==
  /\ UnitSizes \in Seq(Nat \ {0}) /\ Len(UnitSizes) = 4
  /\ \A t \in 1..3 : UnitSizes[t] < UnitSizes[t + 1]
  /\ SyncBufSize \in Nat /\ UnitSizes[4] < SyncBufSize /\ SyncBufSize < 2 * UnitSizes[1]
ASSUME SizeAssumption ==
  /\ ChunkSizes \subseteq Nat \ {0} /\ CheckCount \in Nat \ {0}
  /\ Wrap \in Nat \ {0} /\ MaxJumps \in Nat

VARIABLES
  unit,                       \* the size the stream really has (external)
  g_TsPacketBufSize,          \* the size of the chunks, all of them full (TsReader)
  cursor,                     \* its next byte
  pc,                         \* "idle", "call", or "wild": behaviour undefined
  pSrc,                       \* what is left of the chunk
  dwCheckStartPos,
  m_dwUnitSize, m_SyncBuf,
  out,                        \* *ppDst, as packets
  jumps,
  last                        \* ghost: the packet delivered last

given == <<unit, g_TsPacketBufSize>>
fields == <<m_dwUnitSize, m_SyncBuf>>
vars == <<given, cursor, pc, pSrc, dwCheckStartPos, fields, out, jumps, last>>

NoPacket == -1

\* The constructor (266-279) leaves m_dwUnitSize and m_dwSyncBufPos as they are in
\* fresh memory; unless they are zero there, the first call is undefined.
Init ==
  /\ unit \in {UnitSizes[t] : t \in 1..4} /\ g_TsPacketBufSize \in ChunkSizes
  /\ cursor \in {0} \X (0..(unit - 1))
  /\ pc \in {"idle", "wild"}
  /\ pSrc = << >> /\ dwCheckStartPos = 0 /\ out = << >>
  /\ m_dwUnitSize = 0 /\ m_SyncBuf = << >>
  /\ jumps = 0 /\ last = NoPacket

-----------------------------------------------------------------------------
(* The stream *)

\* The byte that comes k after b, and the n bytes from b on.
After(b, k) == <<(b[1] + (b[2] + k) \div unit) % Wrap, (b[2] + k) % unit>>
Bytes(b, n) == [k \in 1..n |-> After(b, k - 1)]

Call(bytes, next) ==
  /\ pc = "idle" /\ pc' = "call"
  /\ pSrc' = bytes /\ cursor' = next
  /\ dwCheckStartPos' = 0 /\ out' = << >>

Chunk ==
  /\ Call(Bytes(cursor, g_TsPacketBufSize), After(cursor, g_TsPacketBufSize))
  /\ UNCHANGED <<given, fields, jumps, last>>

\* k bytes on, the stream goes on inside another packet, at another place than
\* was expected.
ChunkWithGap(k) ==
  /\ jumps < MaxJumps /\ jumps' = jumps + 1
  /\ \E i \in (0..(unit - 1)) \ {After(cursor, k)[2]} :
       LET new == <<(After(cursor, k)[1] + 1) % Wrap, i>>
           n == g_TsPacketBufSize - k
       IN  Call(Bytes(cursor, k) \o Bytes(new, n), After(new, n))
  /\ UNCHANGED <<given, fields, last>>

-----------------------------------------------------------------------------
(* In sync *)

IsSync(b) == b[2] = 0
Line == m_SyncBuf \o pSrc                            \* offsets in it count from 0
From(line, off) == SubSeq(line, off + 1, Len(line))

InSync == pc = "call" /\ m_dwUnitSize # 0 /\ Len(m_SyncBuf) <= m_dwUnitSize

\* Where pSrc should have sync bytes and does not.
Broken ==
  {pos \in 0..(Len(pSrc) - 1) :
     /\ pos >= m_dwUnitSize - Len(m_SyncBuf)
     /\ (pos + Len(m_SyncBuf)) % m_dwUnitSize = 0
     /\ ~IsSync(pSrc[pos + 1])}

\* Mutant: the chunk is thrown away and the unit kept.
SyncLostStays ==
  /\ InSync /\ Broken # {}
  /\ pSrc' = << >> /\ pc' = "idle"
  /\ UNCHANGED <<given, cursor, dwCheckStartPos, fields, out, jumps, last>>

\* The rest of the call resynchronises.
SyncLost ==
  /\ InSync /\ Broken # {}
  /\ m_dwUnitSize' = 0 /\ dwCheckStartPos' = Min(Broken)
  /\ UNCHANGED <<given, cursor, pc, pSrc, m_SyncBuf, out, jumps, last>>

\* The packets whose next sync byte is there too.
Whole == (Len(Line) - 1) \div m_dwUnitSize

\* Not one: the chunk is carried over.
SyncedShort ==
  /\ InSync /\ Broken = {} /\ Whole = 0
  /\ m_SyncBuf' = Line /\ pSrc' = << >> /\ pc' = "idle"
  /\ UNCHANGED <<given, cursor, dwCheckStartPos, m_dwUnitSize, out, jumps, last>>

SyncedPackets ==
  /\ InSync /\ Broken = {} /\ Whole > 0
  /\ out' = [k \in 1..Whole |-> SubSeq(From(Line, (k - 1) * m_dwUnitSize), 1, TS_PKTSIZE)]
  /\ last' = out'[Whole][1][1]
  /\ m_SyncBuf' = From(Line, Whole * m_dwUnitSize)
  /\ pSrc' = << >> /\ pc' = "idle"
  /\ UNCHANGED <<given, cursor, dwCheckStartPos, m_dwUnitSize, jumps>>

\* The carry is longer than a unit: m_dwUnitSize - m_dwSyncBufPos wraps around
\* (1338, 1373), and the copies that follow read outside pSrc.
SyncedOverrun ==
  /\ pc = "call" /\ m_dwUnitSize # 0 /\ Len(m_SyncBuf) > m_dwUnitSize
  /\ pc' = "wild" /\ out' = << >> /\ pSrc' = << >>
  /\ UNCHANGED <<given, cursor, dwCheckStartPos, fields, jumps, last>>

-----------------------------------------------------------------------------
(* Resync *)

Resync == pc = "call" /\ m_dwUnitSize = 0

\* Sync bytes follow off at distance u, CheckCount of them or to the end of the
\* chunk, and at least one.
Follow(off, u) ==
  /\ off + u < Len(Line)
  /\ \A k \in 1..CheckCount : off + k * u < Len(Line) => IsSync(Line[off + k * u + 1])

Places ==
  {off \in dwCheckStartPos..(Len(Line) - TS_PKTSIZE - 1) :
     IsSync(Line[off + 1]) /\ \E t \in 1..4 : Follow(off, UnitSizes[t])}

\* Mutant: the carry is taken for used up.
SyncFoundDropping ==
  /\ Resync /\ Places # {}
  /\ LET off == Min(Places)
     IN  /\ m_dwUnitSize' = UnitSizes[Min({t \in 1..4 : Follow(off, UnitSizes[t])})]
         /\ m_SyncBuf' = << >>
         /\ pSrc' = IF off < Len(m_SyncBuf) THEN pSrc ELSE From(pSrc, off - Len(m_SyncBuf))
  /\ dwCheckStartPos' = 0
  /\ UNCHANGED <<given, cursor, pc, out, jumps, last>>

\* The first place, with the smallest unit: the call begins again there.
SyncFound ==
  /\ Resync /\ Places # {}
  /\ LET off == Min(Places)
     IN  /\ m_dwUnitSize' = UnitSizes[Min({t \in 1..4 : Follow(off, UnitSizes[t])})]
         /\ IF off < Len(m_SyncBuf)
            THEN m_SyncBuf' = From(m_SyncBuf, off) /\ UNCHANGED pSrc
            ELSE m_SyncBuf' = << >> /\ pSrc' = From(pSrc, off - Len(m_SyncBuf))
  /\ dwCheckStartPos' = 0
  /\ UNCHANGED <<given, cursor, pc, out, jumps, last>>

\* Mutant: one byte more is kept than there is room for.
KeptAndOne == From(Line, Max({0, Len(Line) - SyncBufSize - 1}))

\* What the carry has room for of the end of both.
Kept == From(Line, Max({0, Len(Line) - SyncBufSize}))

SyncNotFound ==
  /\ Resync /\ Places = {}
  /\ m_SyncBuf' = Kept /\ pSrc' = << >> /\ pc' = "idle" /\ dwCheckStartPos' = 0
  /\ UNCHANGED <<given, cursor, m_dwUnitSize, out, jumps, last>>

-----------------------------------------------------------------------------
Stream == Chunk \/ \E k \in 0..g_TsPacketBufSize : ChunkWithGap(k)

Step ==
  SyncLost \/ SyncedShort \/ SyncedPackets \/ SyncedOverrun \/ SyncFound \/ SyncNotFound

Wild == pc = "wild" /\ UNCHANGED vars

Next == Stream \/ Step \/ Wild

\* The tuner goes on delivering, and a call goes on to its end.
Fairness == WF_vars(Step) /\ WF_vars(Chunk)

Spec == Init /\ [][Next]_vars /\ Fairness

-----------------------------------------------------------------------------
(* Properties *)

AllBytes == (0..(Wrap - 1)) \X (0..(unit - 1))

\* Every variable has its type, and the carry stays inside m_SyncBuf.
TypeOK ==
  /\ g_TsPacketBufSize \in ChunkSizes
  /\ unit \in {UnitSizes[t] : t \in 1..4} /\ m_dwUnitSize \in {UnitSizes[t] : t \in 1..4} \cup {0}
  /\ pc \in {"idle", "call", "wild"} /\ cursor \in AllBytes
  /\ pSrc \in Seq(AllBytes) /\ dwCheckStartPos \in Nat
  /\ m_SyncBuf \in Seq(AllBytes) /\ Len(m_SyncBuf) <= SyncBufSize
  /\ out \in Seq(Seq(AllBytes)) /\ \A k \in 1..Len(out) : Len(out[k]) = TS_PKTSIZE
  /\ jumps \in 0..MaxJumps /\ last \in NoPacket..(Wrap - 1)

Intact(p) == \A k \in 1..TS_PKTSIZE : p[k] = <<p[1][1], k - 1>>

\* While no byte is lost: what TsSync delivers are whole packets, and from the
\* first on each of them, once and in order, however the chunks cut the stream
\* and whatever the unit; once found, sync is never given up.
PacketsInOrder ==
  [][/\ jumps' = 0 /\ out' # out =>
          /\ \A k \in 1..Len(out') : Intact(out'[k])
          /\ \A k \in 1..(Len(out') - 1) : out'[k + 1][1][1] = (out'[k][1][1] + 1) % Wrap
          /\ out' # << >> /\ last # NoPacket => out'[1][1][1] = (last + 1) % Wrap
     /\ jumps' = 0 /\ m_dwUnitSize # 0 => m_dwUnitSize' = unit]_vars

\* Once no more bytes are lost, sync is found with the right unit and kept, and
\* every packet is whole, unless the carry has overrun (SyncedOverrun).
SyncInTheEnd ==
  <>[](\/ pc = "wild"
       \/ m_dwUnitSize = unit /\ \A k \in 1..Len(out) : Intact(out[k]))

(* A comment the code does not keep.                                       *)

\* "The size of the carry buffer must be at most the unit size when in sync", and
\* what would mend it "should not be able to happen with this way of detecting
\* sync" (comments at 1493 and 1495, before code that is compiled out).
CarryFitsUnit == m_dwUnitSize # 0 => Len(m_SyncBuf) <= m_dwUnitSize
=============================================================================
