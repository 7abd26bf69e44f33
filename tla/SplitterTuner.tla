---------------------------- MODULE SplitterTuner ----------------------------
(***************************************************************************)
(* BonDriver_Splitter: one BonDriver made of several.  The control thread  *)
(* of the application exchanges the tuner in use (SetChannel, CloseTuner,  *)
(* Release) under m_bonLock, against the TsReader thread, which fills      *)
(* buffers from the tuner under m_writeLock, the TsSplitter thread, which  *)
(* filters one buffer at a time under m_splitterLock, and a second thread  *)
(* of the application that fetches and purges.  Which packets of a buffer  *)
(* pass the filter, with m_bChannelChanged, is the subject of TsSplitter;  *)
(* how TsSync finds the packets in the bytes it is given, that of TsSync:  *)
(* here a packet is where its first byte is, also when a buffer ends in it. *)
(***************************************************************************)
EXTENDS Integers, Sequences

CONSTANTS
  Channels,        \* the entries of g_vstSpace: pairs (space, channel)
  None,            \* no channel, no tuner, no lock holder
  BonNoOf,         \* the tuner (BonDriver) an entry names
  TargetOf,        \* (BonSpace, BonChannel) an entry names
  ServiceOf,       \* its service ID; None where the space does not filter
  BufSize,         \* packets in a buffer (g_TsPacketBufSize)
  ChunkSizes,      \* packets a GetTsStream() of the tuner may return
  FifoSize,        \* g_TsFifoSize
  MaxSets,         \* bound: calls of SetChannel
  MaxOpens,        \* bound: calls of OpenTuner
  MaxUnits         \* bound: packets read from tuners

BonNos == {BonNoOf[c] : c \in Channels}
Targets == {TargetOf[c] : c \in Channels}
Services == {ServiceOf[c] : c \in Channels} \cup {None}
bUseServiceID(c) == c # None /\ ServiceOf[c] # None
DwServiceID(c) == IF c = None THEN None ELSE ServiceOf[c]

ASSUME NoneAssumption ==
  None \notin Channels \cup BonNos \cup Targets /\ None \notin {"control", "app", "splitter"}
ASSUME SizeAssumption ==
  /\ BufSize \in Nat \ {0} /\ FifoSize \in Nat \ {0}
  /\ ChunkSizes \subseteq Nat \ {0}
ASSUME BoundAssumption == {MaxSets, MaxOpens, MaxUnits} \subseteq Nat

VARIABLES
  ctl, req,              \* the control thread and the channel it is setting
  old,                   \* dwOldSpace/Channel, bOldUseServiceID, dwOldServiceID
  m_bTuner,
  m_pIBon2,              \* the loaded tuner; m_iBonNo and m_hBonModule go with it
  tuner,                 \* the state of the tuner itself (external)
  cur,                   \* m_dwSpace and m_dwChannel
  m_dwServiceID, m_bUseServiceID,
  m_hTsRead,             \* is the handle set?
  m_bStopTsRead, m_StopTsSplit,
  reader, splitter,      \* the two threads
  buf, raw, out,         \* pTsBuf of TsReader; pSrc and pTsBuf of TsSplitter
  g_TsSync,              \* the setting TSSYNC
  m_SyncBuf,             \* the packets that TsSync holds back for the next buffer
  held,                  \* ghost: those it held at the last TsFlush()
  m_fifoTS, m_fifoRawTS,
  bonLock, writeLock, splitterLock,
  app,                   \* the other thread of the application
  got,                   \* ghost: the last packet it was given
  sets, opens, units, epoch,  \* calls so far; packets read; tunes that succeeded
  promise,               \* ghost: the channel the last SetChannel answered TRUE for
  unsure                 \* ghost: since it was stored, cur has lost touch with the tuner

settings == <<cur, m_dwServiceID, m_bUseServiceID>>
threads == <<m_hTsRead, m_bStopTsRead, m_StopTsSplit, reader, splitter>>
carry == <<g_TsSync, m_SyncBuf, held>>
data == <<buf, raw, out, carry, m_fifoTS, m_fifoRawTS>>
locks == <<bonLock, writeLock, splitterLock>>
ghosts == <<got, promise, unsure>>
counts == <<sets, opens, units, epoch>>
control == <<ctl, req, old>>
vars == <<control, m_bTuner, m_pIBon2, tuner, settings, threads, data, locks, app, ghosts, counts>>

NoOld == [channel |-> None, use |-> FALSE, service |-> None]

Closed == [open |-> FALSE, at |-> None]

Init ==
  /\ ctl = "idle" /\ req = None /\ old = NoOld
  /\ m_bTuner = FALSE /\ m_pIBon2 = None /\ tuner = Closed
  /\ cur = None /\ m_dwServiceID = None /\ m_bUseServiceID = FALSE
  /\ m_hTsRead = FALSE /\ m_bStopTsRead = FALSE /\ m_StopTsSplit = FALSE
  /\ reader = "none" /\ splitter = "none"
  /\ buf = << >> /\ raw = << >> /\ out = << >> /\ m_fifoTS = << >> /\ m_fifoRawTS = << >>
  /\ g_TsSync \in BOOLEAN /\ m_SyncBuf = << >> /\ held = << >>
  /\ bonLock = None /\ writeLock = None /\ splitterLock = None
  /\ app = "idle" /\ got = <<0, 0>>
  /\ sets = 0 /\ opens = 0 /\ units = 0 /\ epoch = 0
  /\ promise = None /\ unsure = FALSE

-----------------------------------------------------------------------------
(* Helpers *)

\* Mutant: the packet being filtered is not waited for.
TsFlushUnlocked ==
  /\ m_fifoTS' = << >> /\ m_fifoRawTS' = << >>
  /\ buf' = << >> /\ out' = << >> /\ raw' = raw
  /\ held' = m_SyncBuf /\ UNCHANGED <<g_TsSync, m_SyncBuf>>

\* TsFlush(): both queues, and the positions in the two buffers being filled;
\* what TsSync holds back stays.
TsFlush ==
  /\ splitterLock = None
  /\ m_fifoTS' = << >> /\ m_fifoRawTS' = << >>
  /\ buf' = << >> /\ out' = << >> /\ raw' = raw
  /\ held' = m_SyncBuf /\ UNCHANGED <<g_TsSync, m_SyncBuf>>

\* cTSFifo::Push of a sequence of buffers: the oldest are dropped.
Pushed(fifo, buffers) ==
  LET all == fifo \o buffers
      n   == Len(all)
  IN  IF n <= FifoSize THEN all ELSE SubSeq(all, n - FifoSize + 1, n)

\* The packets of ts in buffers of BufSize, and those that fill none.
Whole(ts) == [k \in 1..(Len(ts) \div BufSize) |-> SubSeq(ts, (k - 1) * BufSize + 1, k * BufSize)]

Left(ts) == SubSeq(ts, (Len(ts) \div BufSize) * BufSize + 1, Len(ts))

\* The 256 bytes of m_SyncBuf hold the first byte of at most two packets.
SyncPackets == 2

\* What TsSync makes of the packets held back and those of a buffer: in sync, or
\* in sync again at one of them, it hands on all but the last, which is held
\* back; without sync it hands on none and the last 256 bytes are held back.
Synced(all) ==
  {[whole |-> SubSeq(all, i, Len(all) - 1), rest |-> SubSeq(all, Len(all), Len(all))] :
     i \in 1..Len(all)}
  \cup {[whole |-> << >>, rest |-> SubSeq(all, i, Len(all))] :
     i \in {k \in 1..Len(all) : k + SyncPackets > Len(all)}}

\* The sequences made of some of the packets of ts, in their order.
Selections(ts) ==
  UNION {{[k \in 1..n |-> ts[at[k]]] :
           at \in {f \in [1..n -> 1..Len(ts)] : \A k, l \in 1..n : k < l => f[k] < f[l]}} :
         n \in 0..Len(ts)}

\* A call returns: its variables are gone.
Return == ctl' = "idle" /\ req' = None /\ old' = NoOld

\* err1: the service ID is put back, the call returns FALSE.
Err1 ==
  /\ m_dwServiceID' = old.service
  /\ Return /\ promise' = None

-----------------------------------------------------------------------------
(* OpenTuner, SetChannel, CloseTuner and Release *)

\* Only a flag: the tuner itself is opened by SetChannel.
OpenTuner ==
  /\ ctl = "idle" /\ ~m_bTuner /\ opens < MaxOpens
  /\ m_bTuner' = TRUE /\ opens' = opens + 1
  /\ UNCHANGED <<control, m_pIBon2, tuner, settings, threads, data, locks, app, ghosts,
                 sets, units, epoch>>

\* bLoad and bChange: whether the entry is of another tuner, and if not, whether
\* its channel differs from that of the entry stored last.
bLoad(c) == BonNoOf[c] # m_pIBon2

\* Mutant: entries are compared without their tuner.
bChangeOfTarget(c) == cur = None \/ TargetOf[c] # TargetOf[cur]

bChange(c) == bLoad(c) \/ cur = None \/ TargetOf[c] # TargetOf[cur]

\* m_bonLock is taken; the service ID is stored before anything is known to work.
SetChannel(c) ==
  /\ ctl = "idle" /\ m_bTuner /\ sets < MaxSets /\ bonLock = None
  /\ bonLock' = "control" /\ req' = c /\ sets' = sets + 1
  /\ old' = [old EXCEPT !.service = m_dwServiceID] /\ m_dwServiceID' = ServiceOf[c]
  /\ ctl' = IF ~bChange(c) THEN "keep"
            ELSE IF ~bLoad(c) THEN "tune"
            ELSE IF m_pIBon2 = None THEN "load" ELSE "stop"
  /\ UNCHANGED <<m_bTuner, m_pIBon2, tuner, cur, m_bUseServiceID, threads, data, writeLock,
                 splitterLock, app, ghosts, opens, units, epoch>>

CloseTuner ==
  /\ ctl = "idle" /\ m_bTuner /\ bonLock = None
  /\ bonLock' = "control" /\ promise' = None
  /\ ctl' = IF m_pIBon2 = None THEN "closed" ELSE "closeStop"
  /\ UNCHANGED <<req, old, m_bTuner, m_pIBon2, tuner, settings, threads, data, writeLock,
                 splitterLock, app, got, unsure, counts>>

\* The destructor, called when no other call is under way; it closes the tuner
\* as CloseTuner() does.
Release ==
  /\ ctl = "idle" /\ app = "idle" /\ bonLock = None
  /\ bonLock' = "control" /\ promise' = None
  /\ ctl' = IF m_pIBon2 = None THEN "flushAll"
            ELSE IF m_bTuner THEN "releaseStop" ELSE "releaseDriver"
  /\ UNCHANGED <<req, old, m_bTuner, m_pIBon2, tuner, settings, threads, data, writeLock,
                 splitterLock, app, got, unsure, counts>>

Releasing == {"releaseStop", "releaseDriver", "flushAll", "deleted"}
Stopping == {"stop", "closeStop", "releaseStop"}
AfterStop == [stop |-> "exchange", closeStop |-> "closeDriver", releaseStop |-> "releaseDriver"]

\* m_bStopTsRead = TRUE, if there is a reader to wait for.
StopReader ==
  /\ ctl \in Stopping /\ m_hTsRead /\ ~m_bStopTsRead
  /\ m_bStopTsRead' = TRUE
  /\ UNCHANGED <<control, m_bTuner, m_pIBon2, tuner, settings, m_hTsRead, m_StopTsSplit, reader,
                 splitter, data, locks, app, ghosts, counts>>

\* Mutant: the thread is told to stop but not waited for.
JoinReaderAtOnce ==
  /\ ctl \in Stopping
  /\ m_hTsRead => m_bStopTsRead
  /\ m_hTsRead' = FALSE /\ ctl' = AfterStop[ctl]
  /\ UNCHANGED <<req, old, m_bTuner, m_pIBon2, tuner, settings, m_bStopTsRead, m_StopTsSplit,
                 reader, splitter, data, locks, app, ghosts, counts>>

JoinReader ==
  /\ ctl \in Stopping
  /\ m_hTsRead => m_bStopTsRead /\ reader = "ended"
  /\ m_hTsRead' = FALSE /\ ctl' = AfterStop[ctl]
  /\ UNCHANGED <<req, old, m_bTuner, m_pIBon2, tuner, settings, m_bStopTsRead, m_StopTsSplit,
                 reader, splitter, data, locks, app, ghosts, counts>>

\* The old tuner is closed, released and its library freed.
Exchange ==
  /\ ctl = "exchange"
  /\ tuner' = Closed /\ m_pIBon2' = None /\ ctl' = "load"
  /\ UNCHANGED <<req, old, m_bTuner, settings, threads, data, locks, app, ghosts, counts>>

\* LoadLibrary, CreateBonDriver and OpenTuner of the new one.
Load ==
  /\ ctl = "load"
  /\ m_pIBon2' = BonNoOf[req] /\ tuner' = [open |-> TRUE, at |-> None]
  /\ ctl' = "tune"
  /\ UNCHANGED <<req, old, m_bTuner, settings, threads, data, locks, app, ghosts, counts>>

\* Mutant: the service ID of the failed call stays.
LoadFailsUnrestored ==
  /\ ctl = "load"
  /\ Return /\ promise' = None /\ bonLock' = None
  /\ UNCHANGED <<m_bTuner, m_pIBon2, tuner, settings, threads, data,
                 writeLock, splitterLock, app, got, unsure, counts>>

\* Any of the three fails: no tuner is left.
LoadFails ==
  /\ ctl = "load"
  /\ Err1 /\ bonLock' = None
  /\ UNCHANGED <<m_bTuner, m_pIBon2, tuner, cur, m_bUseServiceID, threads, data,
                 writeLock, splitterLock, app, got, unsure, counts>>

\* The tuner's SetChannel under m_writeLock, which is kept for the flush.
Tune ==
  /\ ctl = "tune" /\ writeLock = None
  /\ writeLock' = "control" /\ ctl' = "flush"
  /\ tuner' = IF tuner.open THEN [tuner EXCEPT !.at = TargetOf[req]] ELSE tuner
  /\ epoch' = epoch + 1 /\ unsure' = ~tuner.open
  /\ UNCHANGED <<req, old, m_bTuner, m_pIBon2, settings, threads, data, bonLock, splitterLock, app,
                 got, promise, sets, opens, units>>

TuneFails ==
  /\ ctl = "tune" /\ writeLock = None
  /\ Err1 /\ bonLock' = None
  /\ unsure' = TRUE
  /\ UNCHANGED <<m_bTuner, m_pIBon2, tuner, cur, m_bUseServiceID, threads, data,
                 writeLock, splitterLock, app, got, counts>>

\* Same tuner, same channel: the tuner is not called at all.
Keep ==
  /\ ctl = "keep" /\ writeLock = None
  /\ writeLock' = "control" /\ ctl' = "flush"
  /\ UNCHANGED <<req, old, m_bTuner, m_pIBon2, tuner, settings, threads, data, bonLock,
                 splitterLock, app, ghosts, counts>>

\* TsFlush(), the new channel is stored, both locks are left.
Store ==
  /\ ctl = "flush"
  /\ TsFlush
  /\ old' = [old EXCEPT !.channel = cur, !.use = m_bUseServiceID]
  /\ cur' = req /\ m_bUseServiceID' = bUseServiceID(req)
  /\ writeLock' = None /\ bonLock' = None /\ ctl' = "start"
  /\ UNCHANGED <<req, m_bTuner, m_pIBon2, tuner, m_dwServiceID, threads, splitterLock, app,
                 ghosts, counts>>

\* A reader is started if none is there; TRUE is returned.
Start ==
  /\ ctl = "start"
  /\ IF m_hTsRead THEN UNCHANGED <<m_hTsRead, m_bStopTsRead, reader>>
     ELSE m_hTsRead' = TRUE /\ m_bStopTsRead' = FALSE /\ reader' = "start"
  /\ Return /\ promise' = req
  /\ UNCHANGED <<m_bTuner, m_pIBon2, tuner, settings, m_StopTsSplit, splitter, data,
                 locks, app, got, unsure, counts>>

\* CreateThread fails (err0): the settings go back, the tuner does not.
StartFails ==
  /\ ctl = "start" /\ ~m_hTsRead
  /\ m_bStopTsRead' = FALSE
  /\ cur' = old.channel /\ m_bUseServiceID' = old.use /\ m_dwServiceID' = old.service
  /\ Return /\ promise' = None /\ unsure' = TRUE
  /\ UNCHANGED <<m_bTuner, m_pIBon2, tuner, m_hTsRead, m_StopTsSplit, reader, splitter,
                 data, locks, app, got, counts>>

\* CloseTuner() of the tuner, then m_bonLock is left.
CloseDriver ==
  /\ ctl = "closeDriver"
  /\ tuner' = Closed /\ unsure' = TRUE /\ ctl' = "closed"
  /\ UNCHANGED <<req, old, m_bTuner, m_pIBon2, settings, threads, data, locks, app, got, promise,
                 counts>>

CloseEnd ==
  /\ ctl = "closed"
  /\ bonLock' = None /\ m_bTuner' = FALSE /\ ctl' = "idle"
  /\ UNCHANGED <<req, old, m_pIBon2, tuner, settings, threads, data, writeLock, splitterLock, app,
                 ghosts, counts>>

ReleaseDriver ==
  /\ ctl = "releaseDriver"
  /\ tuner' = Closed /\ m_pIBon2' = None /\ ctl' = "flushAll"
  /\ UNCHANGED <<req, old, m_bTuner, settings, threads, data, locks, app, ghosts, counts>>

Delete ==
  /\ ctl = "flushAll" /\ writeLock = None
  /\ TsFlush
  /\ bonLock' = None /\ ctl' = "deleted"
  /\ UNCHANGED <<req, old, m_bTuner, m_pIBon2, tuner, settings, threads, writeLock, splitterLock,
                 app, ghosts, counts>>

-----------------------------------------------------------------------------
(* TsReader *)

\* It starts the TsSplitter thread, and gives up at once without it.
ReaderStart ==
  /\ reader = "start"
  /\ \/ splitter' = "wait" /\ reader' = "check" /\ buf' = << >> /\ out' = << >>
     \/ splitter' = "failed" /\ reader' = "ended" /\ UNCHANGED <<buf, out>>
  /\ UNCHANGED <<control, m_bTuner, m_pIBon2, tuner, settings, m_hTsRead, m_bStopTsRead,
                 m_StopTsSplit, raw, carry, m_fifoTS, m_fifoRawTS, locks, app, ghosts, counts>>

\* Mutant: m_bStopTsRead is not looked at.
ReaderNoCheck ==
  /\ reader = "check"
  /\ reader' = "read"
  /\ UNCHANGED <<control, m_bTuner, m_pIBon2, tuner, settings, m_hTsRead, m_bStopTsRead,
                 m_StopTsSplit, splitter, data, locks, app, ghosts, counts>>

\* m_bStopTsRead is looked at before each call of the tuner.
ReaderCheck ==
  /\ reader = "check"
  /\ reader' = IF m_bStopTsRead THEN "stop" ELSE "read"
  /\ UNCHANGED <<control, m_bTuner, m_pIBon2, tuner, settings, m_hTsRead, m_bStopTsRead,
                 m_StopTsSplit, splitter, data, locks, app, ghosts, counts>>

\* Mutant: a chunk that fills the buffer exactly is kept in it.
ReaderReadOffByOne ==
  /\ reader = "read" /\ writeLock = None
  /\ \/ \E n \in ChunkSizes :
          /\ m_pIBon2 # None /\ tuner.open /\ tuner.at # None /\ units + n <= MaxUnits
          /\ LET ts    == buf \o [k \in 1..n |-> <<epoch, units + k>>]
                 whole == IF Len(ts) <= BufSize THEN << >> ELSE Whole(ts)
             IN  /\ buf' = IF Len(ts) <= BufSize THEN ts ELSE Left(ts)
                 /\ IF m_bUseServiceID
                    THEN m_fifoRawTS' = Pushed(m_fifoRawTS, whole) /\ UNCHANGED m_fifoTS
                    ELSE m_fifoTS' = Pushed(m_fifoTS, whole) /\ UNCHANGED m_fifoRawTS
          /\ units' = units + n
     \/ UNCHANGED <<buf, m_fifoTS, m_fifoRawTS, units>>
  /\ reader' = "check"
  /\ UNCHANGED <<control, m_bTuner, m_pIBon2, tuner, settings, m_hTsRead, m_bStopTsRead,
                 m_StopTsSplit, splitter, raw, out, carry, locks, app, ghosts, sets, opens, epoch>>

\* One iteration under m_writeLock: the tuner has nothing, or a chunk that goes
\* into the buffer, which is pushed each time it is full.
ReaderRead ==
  /\ reader = "read" /\ writeLock = None
  /\ \/ \E n \in ChunkSizes :
          /\ m_pIBon2 # None /\ tuner.open /\ tuner.at # None /\ units + n <= MaxUnits
          /\ LET ts == buf \o [k \in 1..n |-> <<epoch, units + k>>]
             IN  /\ buf' = Left(ts)
                 /\ IF m_bUseServiceID
                    THEN m_fifoRawTS' = Pushed(m_fifoRawTS, Whole(ts)) /\ UNCHANGED m_fifoTS
                    ELSE m_fifoTS' = Pushed(m_fifoTS, Whole(ts)) /\ UNCHANGED m_fifoRawTS
          /\ units' = units + n
     \/ UNCHANGED <<buf, m_fifoTS, m_fifoRawTS, units>>
  /\ reader' = "check"
  /\ UNCHANGED <<control, m_bTuner, m_pIBon2, tuner, settings, m_hTsRead, m_bStopTsRead,
                 m_StopTsSplit, splitter, raw, out, carry, locks, app, ghosts, sets, opens, epoch>>

\* Out of the loop: the TsSplitter thread is stopped and waited for.
ReaderStop ==
  /\ reader = "stop"
  /\ m_StopTsSplit' = TRUE /\ reader' = "join"
  /\ UNCHANGED <<control, m_bTuner, m_pIBon2, tuner, settings, m_hTsRead, m_bStopTsRead, splitter,
                 data, locks, app, ghosts, counts>>

ReaderEnd ==
  /\ reader = "join" /\ splitter = "ended"
  /\ m_StopTsSplit' = FALSE /\ reader' = "ended"
  /\ UNCHANGED <<control, m_bTuner, m_pIBon2, tuner, settings, m_hTsRead, m_bStopTsRead, splitter,
                 data, locks, app, ghosts, counts>>

-----------------------------------------------------------------------------
(* TsSplitter *)

\* WaitForMultipleObjects: the stop event first, then the queue's event.
SplitterWake ==
  /\ splitter = "wait"
  /\ \/ m_StopTsSplit /\ splitter' = "ended"
     \/ ~m_StopTsSplit /\ m_fifoRawTS # << >> /\ splitter' = "woken"
  /\ UNCHANGED <<control, m_bTuner, m_pIBon2, tuner, settings, m_hTsRead, m_bStopTsRead,
                 m_StopTsSplit, reader, data, locks, app, ghosts, counts>>

\* The queue may have been flushed since the event.  With TSSYNC the buffer goes
\* through TsSync first.
SplitterTake ==
  /\ splitter = "woken" /\ splitterLock = None
  /\ IF m_fifoRawTS = << >>
     THEN splitter' = "wait" /\ UNCHANGED <<raw, m_SyncBuf, m_fifoRawTS, splitterLock>>
     ELSE /\ IF g_TsSync
             THEN \E s \in Synced(m_SyncBuf \o Head(m_fifoRawTS)) :
                    raw' = s.whole /\ m_SyncBuf' = s.rest
             ELSE raw' = Head(m_fifoRawTS) /\ UNCHANGED m_SyncBuf
          /\ m_fifoRawTS' = Tail(m_fifoRawTS)
          /\ splitterLock' = "splitter" /\ splitter' = "filter"
  /\ UNCHANGED <<control, m_bTuner, m_pIBon2, tuner, settings, m_hTsRead, m_bStopTsRead,
                 m_StopTsSplit, reader, buf, out, g_TsSync, held, m_fifoTS, bonLock, writeLock,
                 app, ghosts, counts>>

\* Some of its packets go into the output buffer, pushed when it is full.
SplitterFilter ==
  /\ splitter = "filter"
  /\ \E kept \in Selections(raw) :
       LET ts == out \o kept
       IN  out' = Left(ts) /\ m_fifoTS' = Pushed(m_fifoTS, Whole(ts))
  /\ raw' = << >> /\ splitterLock' = None /\ splitter' = "wait"
  /\ UNCHANGED <<control, m_bTuner, m_pIBon2, tuner, settings, m_hTsRead, m_bStopTsRead,
                 m_StopTsSplit, reader, buf, carry, m_fifoRawTS, bonLock, writeLock, app, ghosts,
                 counts>>

-----------------------------------------------------------------------------
(* The other thread of the application *)

\* GetTsStream, under m_writeLock.
GetTsStream ==
  /\ app = "idle" /\ m_bTuner /\ ctl \notin Releasing /\ writeLock = None /\ m_fifoTS # << >>
  /\ got' = Head(m_fifoTS)[Len(Head(m_fifoTS))]
  /\ m_fifoTS' = Tail(m_fifoTS)
  /\ UNCHANGED <<control, m_bTuner, m_pIBon2, tuner, settings, threads, buf, raw, out, carry,
                 m_fifoRawTS, locks, app, promise, unsure, counts>>

\* PurgeTsStream: m_bonLock, m_writeLock, then TsFlush().
Purge ==
  /\ app = "idle" /\ m_bTuner /\ ctl \notin Releasing
  /\ app' = "purge"
  /\ UNCHANGED <<control, m_bTuner, m_pIBon2, tuner, settings, threads, data, locks, ghosts, counts>>

PurgeLock ==
  /\ app = "purge" /\ bonLock = None
  /\ bonLock' = "app" /\ app' = "purgeBon"
  /\ UNCHANGED <<control, m_bTuner, m_pIBon2, tuner, settings, threads, data, writeLock,
                 splitterLock, ghosts, counts>>

PurgeWrite ==
  /\ app = "purgeBon" /\ writeLock = None
  /\ writeLock' = "app" /\ app' = "purgeWrite"
  /\ UNCHANGED <<control, m_bTuner, m_pIBon2, tuner, settings, threads, data, bonLock,
                 splitterLock, ghosts, counts>>

PurgeEnd ==
  /\ app = "purgeWrite"
  /\ TsFlush
  /\ bonLock' = None /\ writeLock' = None /\ app' = "idle"
  /\ UNCHANGED <<control, m_bTuner, m_pIBon2, tuner, settings, threads, splitterLock, ghosts, counts>>

-----------------------------------------------------------------------------
Deleted == ctl = "deleted" /\ UNCHANGED vars

ControlStep ==
  \/ StopReader \/ JoinReader \/ Exchange \/ Load \/ LoadFails \/ Tune \/ TuneFails \/ Keep
  \/ Store \/ Start \/ StartFails \/ CloseDriver \/ CloseEnd \/ ReleaseDriver \/ Delete
ReaderStep == ReaderStart \/ ReaderCheck \/ ReaderRead \/ ReaderStop \/ ReaderEnd
SplitterStep == SplitterWake \/ SplitterTake \/ SplitterFilter
AppStep == PurgeLock \/ PurgeWrite \/ PurgeEnd

Next ==
  \/ OpenTuner \/ \E c \in Channels : SetChannel(c)
  \/ CloseTuner \/ Release \/ ControlStep
  \/ ReaderStep \/ SplitterStep
  \/ GetTsStream \/ Purge \/ AppStep
  \/ Deleted

\* Every thread goes on.  Strong fairness where a thread waits for a lock: the
\* reader leaves m_writeLock and sleeps 10 ms when the tuner has no more, and
\* the splitter leaves m_splitterLock for each buffer.
Fairness ==
  /\ SF_vars(ControlStep) /\ SF_vars(ReaderStep) /\ SF_vars(SplitterStep) /\ SF_vars(AppStep)

Spec == Init /\ [][Next]_vars /\ Fairness

-----------------------------------------------------------------------------
(* Properties *)

Units == (0..MaxSets) \X (0..MaxUnits)
Buffers == {ts \in Seq(Units) : Len(ts) <= BufSize}

\* Every variable has its type, and each lock its holder.
TypeOK ==
  /\ ctl \in {"idle", "keep", "tune", "load", "exchange", "flush", "start", "closeDriver",
              "closed", "releaseDriver", "flushAll", "deleted"} \cup Stopping
  /\ req \in Channels \cup {None} /\ cur \in Channels \cup {None}
  /\ old \in [channel : Channels \cup {None}, use : BOOLEAN, service : Services]
  /\ m_bTuner \in BOOLEAN /\ m_pIBon2 \in BonNos \cup {None}
  /\ tuner \in [open : BOOLEAN, at : Targets \cup {None}]
  /\ m_dwServiceID \in Services /\ m_bUseServiceID \in BOOLEAN
  /\ {m_hTsRead, m_bStopTsRead, m_StopTsSplit, unsure} \subseteq BOOLEAN
  /\ reader \in {"none", "start", "check", "read", "stop", "join", "ended"}
  /\ splitter \in {"none", "failed", "wait", "woken", "filter", "ended"}
  /\ Len(buf) < BufSize /\ Len(out) < BufSize /\ got \in Units
  /\ {buf, out} \subseteq Buffers /\ m_fifoTS \in Seq(Buffers) /\ m_fifoRawTS \in Seq(Buffers)
  /\ g_TsSync \in BOOLEAN /\ {raw, m_SyncBuf, held} \subseteq Seq(Units)
  /\ Len(m_SyncBuf) <= SyncPackets /\ Len(raw) < BufSize + SyncPackets
  /\ ~g_TsSync => m_SyncBuf = << >> /\ held = << >>
  /\ Len(m_fifoTS) <= FifoSize /\ Len(m_fifoRawTS) <= FifoSize
  /\ bonLock \in {None, "control", "app"} /\ writeLock \in {None, "control", "app"}
  /\ splitterLock \in {None, "splitter"} /\ (splitterLock = None <=> splitter # "filter")
  /\ app \in {"idle", "purge", "purgeBon", "purgeWrite"}
  /\ sets \in 0..MaxSets /\ opens \in 0..MaxOpens /\ units \in 0..MaxUnits /\ epoch \in 0..MaxSets
  /\ promise \in Channels \cup {None}

\* The reader calls the tuner through m_pIBon2 without m_bonLock (704): while it
\* may do so the tuner stays loaded, through every exchange of tuners, and it
\* is over, with the TsSplitter thread, before the object is deleted.
ReaderOnLiveTuner ==
  /\ reader \in {"start", "check", "read"} => m_pIBon2 # None
  /\ ctl = "deleted" => /\ reader \in {"none", "ended"}
                        /\ splitter \in {"none", "failed", "ended"}

\* Each packet of a line of buffers is newer than those before it.
Ascending(line) ==
  \A k, l \in 1..Len(line) : \A i \in 1..Len(line[k]), j \in 1..Len(line[l]) :
    k < l \/ (k = l /\ i < j) => line[k][i][2] < line[l][j][2]

\* What the splitter has left of its queue: the packets it filters and, while a
\* service is selected, those that TsSync holds back.
Waiting == raw \o (IF m_bUseServiceID THEN m_SyncBuf ELSE << >>)

\* From what the application was given last to what was read last, in the order
\* of the stages, every packet is newer than the one before it, whichever of the
\* two queues is in use; and once SetChannel has answered TRUE nothing read
\* before that change is left on the way (TsFlush, 619).  Two packets at most are
\* an exception, with TSSYNC only: those TsSync held back at the last TsFlush(),
\* which leaves them (BonDriver_Splitter.h:159-167).  They go before the next
\* buffer, and may be of an earlier channel than packets already given.
FreshAndInOrder ==
  LET way == m_fifoTS \o <<out, Waiting>> \o m_fifoRawTS \o <<buf>>
  IN  /\ Ascending(way)
      /\ \A k \in 1..Len(way) : \A i \in 1..Len(way[k]) :
           LET p == way[k][i]
           IN  (\A h \in 1..Len(held) : p # held[h]) =>
                 got[2] < p[2] /\ (promise # None /\ ctl = "idle" => p[1] = epoch)

\* What the splitter filters by belongs to the channel the application sees as
\* current, also after a SetChannel that failed half way (660-666), and packets
\* wait for the filter only while that channel selects a service.
SettingsAgree ==
  /\ ctl \in {"idle", "start", "closed"} =>
       m_dwServiceID = DwServiceID(cur) /\ m_bUseServiceID = bUseServiceID(cur)
  /\ ctl # "start" /\ ~m_bUseServiceID => m_fifoRawTS = << >> /\ raw = << >> /\ out = << >>

\* After TRUE and until the tuner is closed, the tuner that the entry names is
\* loaded and stored and a reader runs on it, unless its TsSplitter thread could
\* not be created (693); and it is on the entry's channel unless, since it was
\* last tuned, it was closed, a tuning failed or a reader could not be started:
\* then a repeated SetChannel finds nothing to change (508-515).
PlaysWhatWasPromised ==
  promise # None /\ ctl = "idle" =>
    /\ m_pIBon2 = BonNoOf[promise] /\ cur = promise
    /\ reader \in {"start", "check", "read"} \/ splitter = "failed"
    /\ unsure \/ tuner = [open |-> TRUE, at |-> TargetOf[promise]]

\* Every call returns, whatever the reader, the splitter and the other thread of
\* the application hold: three locks and two joins, and nobody waits in a ring.
CallsReturn ==
  /\ ctl \notin {"idle", "deleted"} ~> ctl \in {"idle", "deleted"}
  /\ app # "idle" ~> app = "idle"
=============================================================================
