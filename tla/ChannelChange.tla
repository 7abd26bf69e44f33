---------------------------- MODULE ChannelChange ----------------------------
(***************************************************************************)
(* The TS stream of one driver object on its way to the applications, and  *)
(* a channel change or purge on the same way: the reader thread (TsReader) *)
(* and the command handlers of the connections in the server, and in every *)
(* client the Process thread with the application's control thread         *)
(* (OpenTuner, SetChannel, PurgeTsStream, CloseTuner) and its TS thread    *)
(* (GetTsStream).                                                          *)
(*                                                                         *)
(* A unit of TS is <<epoch, number>>: the channel it was received on, as   *)
(* the count of tunes so far, and its place in the stream.  m_fifoSend,    *)
(* the socket and m_fifoRecv are one queue that loses TS when full.        *)
(***************************************************************************)
EXTENDS Integers, Sequences, FiniteSets

CONSTANTS
  Clients,         \* connections that share the driver object
  BufSize,         \* TSPACKET_BUFSIZE of the server, in units
  ChunkSizes,      \* units a call of the driver's GetTsStream may return
  FifoSize,        \* packets between the server and Process of a client
  TsFifoSize,      \* TSFIFO_SIZE of the client
  MaxUnits,        \* bound: the driver delivers until it has given so many units
  MaxTunes,        \* bound: channel changes
  MaxCalls         \* bound: calls an application makes

ASSUME SizeAssumption ==
  /\ BufSize \in Nat \ {0} /\ FifoSize \in Nat \ {0} /\ TsFifoSize \in Nat \ {0}
  /\ ChunkSizes \subseteq Nat \ {0}
ASSUME BoundAssumption == MaxUnits \in Nat /\ MaxTunes \in Nat /\ MaxCalls \in [Clients -> Nat]

VARIABLES
  (* driver and server *)
  tuned,           \* channel changes the driver has made
  units,           \* units it has delivered
  buf,             \* pTsBuf[0 .. pos)
  ChannelChanged,
  fSignalLevel,    \* the reader's level, as the epoch it was measured in
  TsReceiversList, \* as a set; the reader thread runs while it is not empty
  server,          \* where the connection is in its handler, with its command
  (* between server and client *)
  request,         \* commands sent and not yet handled
  down,            \* m_fifoSend, the socket and m_fifoRecv
  (* client *)
  process,         \* the Process thread
  hand,            \* the packet it works on
  result,          \* m_dwRes or m_bRes with its event
  m_fifoTS, m_fSignalLevel, m_bWaitCNR, m_bTuner,
  app,             \* the application's control thread
  calls,
  epoch            \* ghost: the epoch of the last change the application made

reader == <<units, buf, ChannelChanged, fSignalLevel>>
serverVars == <<tuned, reader, TsReceiversList, server>>
clientVars == <<process, hand, result, m_fifoTS, m_fSignalLevel, m_bWaitCNR, m_bTuner,
                app, calls, epoch>>
vars == <<serverVars, request, down, clientVars>>

Init ==
  /\ tuned = 0 /\ units = 0 /\ buf = << >>
  /\ ChannelChanged = FALSE /\ fSignalLevel = 0
  /\ TsReceiversList = {}
  /\ server = [c \in Clients |-> "idle"]
  /\ request = [c \in Clients |-> << >>] /\ down = [c \in Clients |-> << >>]
  /\ process = [c \in Clients |-> "idle"] /\ hand = [c \in Clients |-> << >>]
  /\ result = [c \in Clients |-> << >>]
  /\ m_fifoTS = [c \in Clients |-> << >>]
  /\ m_fSignalLevel = [c \in Clients |-> 0] /\ m_bWaitCNR = [c \in Clients |-> FALSE]
  /\ m_bTuner = [c \in Clients |-> TRUE]
  /\ app = [c \in Clients |-> "idle"] /\ calls = [c \in Clients |-> 0]
  /\ epoch = [c \in Clients |-> 0]

-----------------------------------------------------------------------------
(* TsReader *)

\* Mutants: a buffer filled to the brim is kept; pos is not reset after a packet.
PackedToTheBrim(chunk, remain) ==
  IF Len(buf) + Len(chunk) <= BufSize
  THEN IF remain THEN [out |-> << >>, buf |-> buf \o chunk]
       ELSE [out |-> <<buf \o chunk>>, buf |-> << >>]
  ELSE [out |-> <<buf \o chunk>>, buf |-> << >>]

PackedTwice(chunk, remain) ==
  IF Len(buf) + Len(chunk) < BufSize
  THEN [out |-> IF remain THEN << >> ELSE <<buf \o chunk>>, buf |-> buf \o chunk]
  ELSE [out |-> <<buf \o SubSeq(chunk, 1, BufSize - Len(buf))>>, buf |-> << >>]

\* The packets made of a chunk, and what stays in pTsBuf.
Packed(chunk, remain) ==
  LET dwSize == Len(chunk)
      dwLen  == BufSize - Len(buf)
      full   == (dwSize - dwLen) \div BufSize
      left   == SubSeq(chunk, dwLen + full * BufSize + 1, dwSize)
  IN  IF Len(buf) + dwSize < BufSize
      THEN IF remain THEN [out |-> << >>, buf |-> buf \o chunk]
           ELSE [out |-> <<buf \o chunk>>, buf |-> << >>]
      ELSE LET whole == <<buf \o SubSeq(chunk, 1, dwLen)>> \o
                        [k \in 1..full |-> SubSeq(chunk, dwLen + (k - 1) * BufSize + 1,
                                                         dwLen + k * BufSize)]
           IN  IF left = << >> \/ remain THEN [out |-> whole, buf |-> left]
               ELSE [out |-> Append(whole, left), buf |-> << >>]

\* cPacketFifo::Push of TS packets: what finds the queue full is dropped.
PushTs(q, packets) ==
  LET room == IF Len(q) >= FifoSize THEN 0 ELSE FifoSize - Len(q)
  IN  q \o SubSeq(packets, 1, IF Len(packets) < room THEN Len(packets) ELSE room)

\* One iteration of the loop, under TsLock; the level is measured again every
\* second, and at once when the channel has changed.
ReadOnce ==
  /\ TsReceiversList # {}
  /\ \E measure \in BOOLEAN, n \in ChunkSizes, remain \in BOOLEAN :
       /\ ChannelChanged => measure
       /\ units < MaxUnits
       /\ LET chunk  == [k \in 1..n |-> <<tuned, units + k>>]
              packed == Packed(chunk, remain)
              level  == IF measure THEN tuned ELSE fSignalLevel
              ts     == [k \in 1..Len(packed.out) |->
                           [type |-> "ts", data |-> packed.out[k], cnr |-> level]]
          IN  /\ fSignalLevel' = level
              /\ buf' = packed.buf
              /\ down' = [c \in Clients |-> IF c \in TsReceiversList
                                            THEN PushTs(down[c], ts) ELSE down[c]]
       /\ units' = units + n
  /\ ChannelChanged' = FALSE
  /\ UNCHANGED <<tuned, TsReceiversList, server, request, clientVars>>

-----------------------------------------------------------------------------
(* The handlers of a connection.  g_Lock lets one of them run at a time,    *)
(* and nothing keeps the reader thread from running between their steps.    *)

Takes(c, command) ==
  /\ \A d \in Clients : server[d] = "idle"
  /\ request[c] # << >> /\ Head(request[c]) = command
  /\ request' = [request EXCEPT ![c] = Tail(@)]

Answer(c, message) == down' = [down EXCEPT ![c] = Append(@, message)]

\* eSetChannel2: c first becomes a receiver of the reader a peer has started,
\* and is refused when a peer has a higher lock (DriverSharing says when).
SetChannelJoin(c) ==
  /\ Takes(c, "SetChannel")
  /\ TsReceiversList' = IF TsReceiversList = {} THEN {} ELSE TsReceiversList \cup {c}
  /\ server' = [server EXCEPT ![c] = "tune"]
  /\ UNCHANGED <<tuned, reader, down, clientVars>>

SetChannelLocked(c) ==
  /\ server[c] = "tune"
  /\ Answer(c, [type |-> "channel", dw |-> 1, epoch |-> tuned])
  /\ server' = [server EXCEPT ![c] = "idle"]
  /\ UNCHANGED <<tuned, reader, TsReceiversList, request, clientVars>>

\* The driver tunes under TsLock, if there is a reader, and what was read
\* before is dropped under the same lock.
Tune(c) ==
  /\ server[c] = "tune" /\ tuned < MaxTunes
  /\ tuned' = tuned + 1
  /\ buf' = << >>
  /\ ChannelChanged' = (TsReceiversList # {})
  /\ server' = [server EXCEPT ![c] = "tuned"]
  /\ UNCHANGED <<units, fSignalLevel, TsReceiversList, request, down, clientVars>>

TuneFails(c) ==
  /\ server[c] = "tune"
  /\ Answer(c, [type |-> "channel", dw |-> 255, epoch |-> tuned])
  /\ server' = [server EXCEPT ![c] = "idle"]
  /\ UNCHANGED <<tuned, reader, TsReceiversList, request, clientVars>>

\* The answer, then a reader thread of its own if there is none yet; its first
\* iteration measures the level (before = 0).
SetChannelDone(c) ==
  /\ server[c] = "tuned"
  /\ Answer(c, [type |-> "channel", dw |-> 0, epoch |-> tuned])
  /\ TsReceiversList' = TsReceiversList \cup {c}
  /\ ChannelChanged' = (ChannelChanged \/ TsReceiversList = {})
  /\ server' = [server EXCEPT ![c] = "idle"]
  /\ UNCHANGED <<tuned, units, buf, fSignalLevel, request, clientVars>>

\* Mutant: every receiver may purge.
PurgeByAnybody(c) ==
  /\ Takes(c, "Purge")
  /\ buf' = IF c \in TsReceiversList THEN << >> ELSE buf
  /\ Answer(c, [type |-> "purge", b |-> c \in TsReceiversList])
  /\ UNCHANGED <<tuned, units, ChannelChanged, fSignalLevel, TsReceiversList, server,
                 clientVars>>

\* ePurgeTsStream: only the sole receiver really purges, but all are told TRUE.
Purge(c) ==
  /\ Takes(c, "Purge")
  /\ buf' = IF TsReceiversList = {c} THEN << >> ELSE buf
  /\ Answer(c, [type |-> "purge", b |-> c \in TsReceiversList])
  /\ UNCHANGED <<tuned, units, ChannelChanged, fSignalLevel, TsReceiversList, server,
                 clientVars>>

\* eCloseTuner, seen from the stream: the last receiver ends the reader thread.
Close(c) ==
  /\ Takes(c, "Close")
  /\ TsReceiversList' = TsReceiversList \ {c}
  /\ IF TsReceiversList \ {c} = {}
     THEN buf' = << >> /\ ChannelChanged' = FALSE /\ fSignalLevel' = 0
     ELSE UNCHANGED <<buf, ChannelChanged, fSignalLevel>>
  /\ UNCHANGED <<tuned, units, server, down, clientVars>>

\* eOpenTuner, seen from the stream: nothing but the driver's answer.
Open(c) ==
  /\ Takes(c, "Open")
  /\ \E b \in BOOLEAN : Answer(c, [type |-> "open", b |-> b])
  /\ UNCHANGED <<tuned, reader, TsReceiversList, server, clientVars>>

-----------------------------------------------------------------------------
(* Process of a client *)

ProcessAnswer(c) ==
  /\ process[c] = "idle" /\ down[c] # << >> /\ Head(down[c]).type # "ts"
  /\ result' = [result EXCEPT ![c] = <<Head(down[c])>>]
  /\ down' = [down EXCEPT ![c] = Tail(@)]
  /\ UNCHANGED <<serverVars, request, process, hand, m_fifoTS, m_fSignalLevel, m_bWaitCNR,
                 m_bTuner, app, calls, epoch>>

\* A TS packet: its level and m_bWaitCNR are written without a lock, then it is
\* pushed.
ProcessLevel(c) ==
  /\ process[c] = "idle" /\ down[c] # << >> /\ Head(down[c]).type = "ts"
  /\ hand' = [hand EXCEPT ![c] = <<Head(down[c])>>]
  /\ m_fSignalLevel' = [m_fSignalLevel EXCEPT ![c] = Head(down[c]).cnr]
  /\ down' = [down EXCEPT ![c] = Tail(@)]
  /\ process' = [process EXCEPT ![c] = "cnr"]
  /\ UNCHANGED <<serverVars, request, result, m_fifoTS, m_bWaitCNR, m_bTuner, app, calls, epoch>>

ProcessCNR(c) ==
  /\ process[c] = "cnr"
  /\ m_bWaitCNR' = [m_bWaitCNR EXCEPT ![c] = FALSE]
  /\ process' = [process EXCEPT ![c] = "push"]
  /\ UNCHANGED <<serverVars, request, down, hand, result, m_fifoTS, m_fSignalLevel, m_bTuner,
                 app, calls, epoch>>

\* cTSFifo::Push: a full queue loses its oldest packet.
ProcessPush(c) ==
  /\ process[c] = "push"
  /\ m_fifoTS' = [m_fifoTS EXCEPT ![c] =
                    Append(IF Len(@) >= TsFifoSize THEN Tail(@) ELSE @, hand[c][1])]
  /\ hand' = [hand EXCEPT ![c] = << >>]
  /\ process' = [process EXCEPT ![c] = "idle"]
  /\ UNCHANGED <<serverVars, request, down, result, m_fSignalLevel, m_bWaitCNR, m_bTuner,
                 app, calls, epoch>>

-----------------------------------------------------------------------------
(* The application *)

Call(c, command) ==
  /\ app[c] = "idle" /\ calls[c] < MaxCalls[c]
  /\ request' = [request EXCEPT ![c] = Append(@, command)]
  /\ calls' = [calls EXCEPT ![c] = @ + 1]

CallSetChannel(c) ==
  /\ m_bTuner[c] /\ Call(c, "SetChannel")
  /\ app' = [app EXCEPT ![c] = "channel"]
  /\ UNCHANGED <<serverVars, down, process, hand, result, m_fifoTS, m_fSignalLevel, m_bWaitCNR,
                 m_bTuner, epoch>>

\* The answer is there: success goes on under m_writeLock, a locked channel is
\* TRUE without a change, anything else is FALSE with level 0.
SetChannelAnswered(c) ==
  /\ app[c] = "channel" /\ result[c] # << >>
  /\ LET dw == result[c][1].dw
     IN  /\ app' = [app EXCEPT ![c] = IF dw = 0 THEN "flush" ELSE "idle"]
         /\ m_fSignalLevel' = IF dw = 255 THEN [m_fSignalLevel EXCEPT ![c] = 0]
                              ELSE m_fSignalLevel
         /\ epoch' = IF dw = 0 THEN [epoch EXCEPT ![c] = result[c][1].epoch] ELSE epoch
  /\ result' = [result EXCEPT ![c] = << >>]
  /\ UNCHANGED <<serverVars, request, down, process, hand, m_fifoTS, m_bWaitCNR, m_bTuner,
                 calls>>

\* Mutant: the TS already in the client is kept.
SetChannelNoFlush(c) ==
  /\ app[c] = "flush"
  /\ app' = [app EXCEPT ![c] = "level"]
  /\ UNCHANGED <<serverVars, request, down, process, hand, result, m_fifoTS, m_fSignalLevel,
                 m_bWaitCNR, m_bTuner, calls, epoch>>

SetChannelFlush(c) ==
  /\ app[c] = "flush"
  /\ m_fifoTS' = [m_fifoTS EXCEPT ![c] = << >>]
  /\ app' = [app EXCEPT ![c] = "level"]
  /\ UNCHANGED <<serverVars, request, down, process, hand, result, m_fSignalLevel, m_bWaitCNR,
                 m_bTuner, calls, epoch>>

SetChannelLevel(c) ==
  /\ app[c] = "level"
  /\ m_fSignalLevel' = [m_fSignalLevel EXCEPT ![c] = 0]
  /\ app' = [app EXCEPT ![c] = "cnr"]
  /\ UNCHANGED <<serverVars, request, down, process, hand, result, m_fifoTS, m_bWaitCNR, m_bTuner,
                 calls, epoch>>

SetChannelCNR(c) ==
  /\ app[c] = "cnr"
  /\ m_bWaitCNR' = [m_bWaitCNR EXCEPT ![c] = TRUE]
  /\ app' = [app EXCEPT ![c] = "idle"]
  /\ UNCHANGED <<serverVars, request, down, process, hand, result, m_fifoTS, m_fSignalLevel,
                 m_bTuner, calls, epoch>>

CallPurge(c) ==
  /\ m_bTuner[c] /\ Call(c, "Purge")
  /\ app' = [app EXCEPT ![c] = "purge"]
  /\ UNCHANGED <<serverVars, down, process, hand, result, m_fifoTS, m_fSignalLevel, m_bWaitCNR,
                 m_bTuner, epoch>>

PurgeAnswered(c) ==
  /\ app[c] = "purge" /\ result[c] # << >>
  /\ m_fifoTS' = IF result[c][1].b THEN [m_fifoTS EXCEPT ![c] = << >>] ELSE m_fifoTS
  /\ result' = [result EXCEPT ![c] = << >>]
  /\ app' = [app EXCEPT ![c] = "idle"]
  /\ UNCHANGED <<serverVars, request, down, process, hand, m_fSignalLevel, m_bWaitCNR,
                 m_bTuner, calls, epoch>>

CallOpen(c) ==
  /\ ~m_bTuner[c] /\ Call(c, "Open")
  /\ app' = [app EXCEPT ![c] = "open"]
  /\ UNCHANGED <<serverVars, down, process, hand, result, m_fifoTS, m_fSignalLevel, m_bWaitCNR,
                 m_bTuner, epoch>>

OpenAnswered(c) ==
  /\ app[c] = "open" /\ result[c] # << >>
  /\ m_bTuner' = [m_bTuner EXCEPT ![c] = result[c][1].b]
  /\ result' = [result EXCEPT ![c] = << >>]
  /\ app' = [app EXCEPT ![c] = "idle"]
  /\ UNCHANGED <<serverVars, request, down, process, hand, m_fifoTS, m_fSignalLevel, m_bWaitCNR,
                 calls, epoch>>

\* CloseTuner is not answered, and leaves m_fifoTS as it is.
CallClose(c) ==
  /\ m_bTuner[c] /\ Call(c, "Close")
  /\ m_bTuner' = [m_bTuner EXCEPT ![c] = FALSE]
  /\ m_bWaitCNR' = [m_bWaitCNR EXCEPT ![c] = FALSE]
  /\ m_fSignalLevel' = [m_fSignalLevel EXCEPT ![c] = 0]
  /\ UNCHANGED <<serverVars, down, process, hand, result, m_fifoTS, app, epoch>>

\* The other thread of the application; m_writeLock keeps it out of the end of
\* a SetChannel.
GetTsStream(c) ==
  /\ m_bTuner[c] /\ app[c] \notin {"level", "cnr"}
  /\ m_fifoTS[c] # << >>
  /\ m_fifoTS' = [m_fifoTS EXCEPT ![c] = Tail(@)]
  /\ UNCHANGED <<serverVars, request, down, process, hand, result, m_fSignalLevel, m_bWaitCNR,
                 m_bTuner, app, calls, epoch>>

Done == (\A c \in Clients : calls[c] = MaxCalls[c]) /\ UNCHANGED vars

Next ==
  \/ ReadOnce
  \/ \E c \in Clients :
       \/ SetChannelJoin(c) \/ SetChannelLocked(c) \/ Tune(c) \/ TuneFails(c)
       \/ SetChannelDone(c) \/ Purge(c) \/ Close(c) \/ Open(c)
       \/ ProcessAnswer(c) \/ ProcessLevel(c) \/ ProcessCNR(c) \/ ProcessPush(c)
       \/ CallSetChannel(c) \/ SetChannelAnswered(c) \/ SetChannelFlush(c)
       \/ SetChannelLevel(c) \/ SetChannelCNR(c)
       \/ CallPurge(c) \/ PurgeAnswered(c) \/ CallOpen(c) \/ OpenAnswered(c)
       \/ CallClose(c) \/ GetTsStream(c)
  \/ Done

Spec == Init /\ [][Next]_vars

-----------------------------------------------------------------------------
(* Properties *)

Units == (0..MaxTunes) \X (Nat \ {0})
Packets == [type : {"ts"}, data : Seq(Units), cnr : 0..MaxTunes]
Answers == [type : {"channel"}, dw : {0, 1, 255}, epoch : 0..MaxTunes]
           \cup [type : {"purge", "open"}, b : BOOLEAN]

\* Every variable has its type, and pTsBuf never holds a whole packet.
TypeOK ==
  /\ tuned \in 0..MaxTunes /\ units \in Nat
  /\ buf \in Seq(Units) /\ Len(buf) < BufSize
  /\ ChannelChanged \in BOOLEAN /\ fSignalLevel \in 0..MaxTunes
  /\ TsReceiversList \subseteq Clients
  /\ server \in [Clients -> {"idle", "tune", "tuned"}]
  /\ request \in [Clients -> Seq({"SetChannel", "Purge", "Open", "Close"})]
  /\ down \in [Clients -> Seq(Packets \cup Answers)]
  /\ process \in [Clients -> {"idle", "cnr", "push"}]
  /\ \A c \in Clients : hand[c] \in {<< >>} \/ hand[c][1] \in Packets
  /\ \A c \in Clients : result[c] = << >> \/ result[c][1] \in Answers
  /\ m_fifoTS \in [Clients -> Seq(Packets)]
  /\ m_fSignalLevel \in [Clients -> 0..MaxTunes] /\ m_bWaitCNR \in [Clients -> BOOLEAN]
  /\ m_bTuner \in [Clients -> BOOLEAN]
  /\ app \in [Clients -> {"idle", "channel", "flush", "level", "cnr", "purge", "open"}]
  /\ \A c \in Clients : calls[c] \in 0..MaxCalls[c]
  /\ epoch \in [Clients -> 0..MaxTunes]

\* What is on its way to the application of c, oldest first, and which of it is TS.
OnTheWay(c) == m_fifoTS[c] \o hand[c] \o down[c]
IsTs(m) == m.type = "ts"
Ts(c) == {k \in 1..Len(OnTheWay(c)) : IsTs(OnTheWay(c)[k])}

\* Once an application's SetChannel has returned, neither the TS it can get nor
\* the level it reads is older than that change, whoever changed last; and, as
\* ReadMe 1.1.5.2 has it ("If SetChannel() was really called on the BonDriver, the
\* TS buffers and CNR sent afterwards are certainly obtained after the channel
\* change"), no packet on its way mixes channels or has the level of another.
FreshAfterSetChannel ==
  \A c \in Clients :
    /\ \A k \in Ts(c) :
         LET p == OnTheWay(c)[k] IN \A u \in 1..Len(p.data) : p.data[u][1] = p.cnr
    /\ app[c] = "idle" =>
         /\ m_fSignalLevel[c] = 0 \/ m_fSignalLevel[c] >= epoch[c]
         /\ \A k \in Ts(c) : OnTheWay(c)[k].cnr >= epoch[c]

\* Whatever is lost, nothing reaches an application twice or out of order.
StreamInOrder ==
  \A c \in Clients :
    \A k, l \in Ts(c) :
      LET d == OnTheWay(c)[k].data
          e == OnTheWay(c)[l].data
      IN  /\ d # << >> /\ Len(d) <= BufSize
          /\ \A u \in 1..(Len(d) - 1) : d[u + 1][2] = d[u][2] + 1
          /\ k < l => d[Len(d)][2] < e[1][2]

\* What the driver delivered is only dropped by a channel change, by a purge of
\* the sole receiver or by a full queue: a receiver with room gets every unit
\* it shares with others, in packets that leave nothing behind.
PurgeSparesOthers ==
  [][\A c \in TsReceiversList :
       buf # << >> /\ buf' = << >> /\ tuned' = tuned /\ Len(down[c]) < FifoSize =>
         \/ Len(down'[c]) > Len(down[c])
         \/ TsReceiversList = {c}]_vars
=============================================================================
