# BonDriverProxy in TLA+

BonDriverProxy lends the TV tuners of one machine to other machines. A *BonDriver* is a Windows
DLL that controls a tuner. The server loads such DLLs and serves them over TCP; the client is
itself a BonDriver DLL that forwards every call to the server; and the splitter is a BonDriver
made of several others, which also cuts one service out of the transport stream (TS). This
directory holds TLA+ models of the three, the TLC configurations that check them, and TLAPS
proofs about them.

Line numbers are those of `src/BonDriverProxy/BonDriverProxy.cpp` ("server"),
`src/BonDriver_Proxy/BonDriver_Proxy.cpp` ("client") or
`src/BonDriver_Splitter/BonDriver_Splitter.cpp` ("splitter") unless another file is named.
`PROJECT.json` maps each definition to its lines. The sources are in CP932.

## 1. Inventory

| Component | Source | State | Operations | Hard because |
|---|---|---|---|---|
| Driver sharing and channel lock | server 156-255 (constructor, destructor), 318-556 and 609-760 (handlers), 1174-1262 | `g_InstanceList`, per instance `m_hModule`, `m_pIBon`, `m_bTunerOpen`, `m_hTsRead`/`m_pTsReaderArg`, `m_bChannelLock`; per reader `TsReceiversList`, `WaitExclusivePrivList`; `g_LoadedDriverList` | `eSelectBonDriver`, `eCreateBonDriver`, `eOpenTuner`, `eCloseTuner`, `eSetChannel2`, `~cProxyServer` | ownership of one object by many instances, no reference count: every handler searches the list for other users, and the order in which clients come and go decides who frees what |
| TS reader thread | server 1078-1172 (`TsReader`), 557-573, 684-698 | `pTsBuf`, `pos`, `ChannelChanged`, level, `TsReceiversList` | one loop iteration; meets `eSetChannel2`, `ePurgeTsStream`, `eCloseTuner` under `TsLock` | TS and level read before a channel change must not be sent after it |
| Connection threads | server 257-317, 893-1076 (`Reception`, `Process`, `Receiver`, `makePacket`, `Sender`) | two queues, `m_Error`, three threads | start, receive, handle, send, join, delete | three threads end each other through one event, on any failure, in any order |
| Packet queue | `src/inc/BdpPacket.h` (`cPacketFifo`) | queue, manual-reset event | `Push`, `Pop` | event and content must agree; full queue drops TS only |
| Listener, shutdown, reload | server 105-154 (`ShutdownInstances`, `CleanUp`), 1319-1450 (`Listen`), 1484-1800 (reload in `WndProc`, exit in `WinMain`, console) | `g_ShutdownEvent`, `g_hListenThread`, `g_Lock` | begin, join listener, count instances, clean up, restart | `g_Lock` held while a thread is waited for; instances that are not listed |
| Windows service | `src/BonDriverProxy/CWinService.cpp`, `ServiceMain.cpp` | `serviceStatus`, `hServerStopEvent`, what the SCM shows | `ServiceMain`, the control handler, `Start`, `Stop`, `Restart` | a STOP while the service is still starting; two threads write one status; polling with a time limit |
| Client: calls and lifetime | client 64-166, 201-494, 640-652, 867-907 and `BonDriver_Proxy.h` | threads, `m_lEndCount`, `m_Error`, a result slot and event for each command | `CreateBonDriver`, calls, `Process`, `Receiver`, `Sender`, `Release`, destructor | threads count themselves out of an object that is about to be deleted; two application threads call at once |
| Client: TS and channel change | client 167-200, 496-527, 533-639, 689-724 | `m_fifoTS`, `m_fSignalLevel`, `m_bWaitCNR` | `OpenTuner`, `SetChannel`, `PurgeTsStream`, `CloseTuner`, `GetTsStream`, `Process` | `Process` and the control thread write the same fields without a common lock |
| Splitter: exchange of tuners | splitter 266-763 | the loaded tuner `m_pIBon2`, current channel and service ID, `m_hTsRead`, two queues, three locks | `OpenTuner`, `SetChannel`, `CloseTuner`, `Release`, `PurgeTsStream`, `GetTsStream`, `TsReader` | every step of an exchange may fail with the others done; the reader calls the tuner without the lock the exchange holds |
| Splitter: service filter | splitter 764-1329 (`TsSplitter`) | PAT, CAT and PMT state, map of PIDs, output buffer | one packet at a time, against `SetChannel` | tables that are split, lost, changed, or of the stream before |
| Splitter: packet sync | splitter 1331-1537 (`TsSync`) | `m_dwUnitSize`, `m_SyncBuf`, `m_dwSyncBufPos` | one chunk at a time | units of four sizes across chunks of any size, with bytes lost |
| Ini settings | server 22-103, client 8-62, splitter 26-264 | constants | `Init` | none: read once, they are the CONSTANTS |
| Driver interfaces | `src/inc/IBonDriver*.h` | external | - | answers of a driver are nondeterministic in the models |
| Information window | server 1452-1646 | display only | - | - |

How they interact. Each accepted connection is one `cProxyServer` with three threads. Its `Process`
thread handles the commands one by one and, because `STRICT_LOCK` is defined (server 4), holds
`g_Lock` during each. Handlers of all connections share `g_InstanceList` and the reader arguments. A
reader thread per driver object pushes TS into the send queue of every instance in its
`TsReceiversList`, holding `TsLock` only. The client's `Process` thread hands answers to waiting
API calls and TS to `m_fifoTS`. The listener thread creates connections; the UI thread, the console
or `ServiceMain` ends all of them. In the splitter the application's control thread exchanges tuners
under `m_bonLock`; a `TsReader` thread fills buffers under `m_writeLock` and, where the channel
selects a service, hands them through `m_fifoRawTS` to a `TsSplitter` thread, which syncs and filters them
under `m_splitterLock` into `m_fifoTS`. The splitter's tuners may themselves be clients.

`PROJECT.json` lists under `hazards` what is hard to test, at its line, with the property that
would catch it.

What makes each component correct:

- *Sharing*: no instance keeps a pointer to a reader, object or library that another instance
  deleted; one reader thread for each driver object, on an open tuner, feeding exactly its holders; a
  tuner is not closed under someone who was told it is open; at most one holder of the exclusive
  channel lock, nobody queues for a lock nobody will pass on, first come first served.
- *Reader and channel change*: a packet is of one channel, with that channel's level; after
  `SetChannel` nothing older reaches the application; a purge hurts nobody else; no TS twice.
- *Connection*: no answer lost, doubled or reordered however much TS is queued; the object is deleted
  after its threads; any error ends the connection.
- *Shutdown and service*: `ShutdownInstances` returns, and then no instance that had a driver when the list was
  looked at exists; a STOP ends in a service shown as stopped, where only a connection that selects after that look can
  still use a driver; every control command comes back.
- *Client*: every call gets its own answer or fails; the destructor returns, and not too early.
- *Splitter*: no thread calls a tuner that was unloaded; what `SetChannel` answered TRUE for is
  played, and nothing older but what the packet sync holds back; a `SetChannel` that failed leaves the filter with the channel that is
  current; the map never keeps a stream of another service and in the end has all of the chosen
  one; packets are whole and in order; every call returns.

## 2. Modules

| Module | What it models | Checked through |
|---|---|---|
| `DriverSharing` | the six state-changing handlers, each one action (they run under `g_Lock`) | `MCDriverSharing` |
| `ExclusivePriv` | abstract: one FIFO lock for each tuner, as the ReadMe promises for `CHANNEL_LOCK=255` | through `DriverPriority` |
| `DriverPriority` | refinement mapping from `DriverSharing` to `ExclusivePriv` | `MCDriverPriority` |
| `DriverSharingProofs` | theorems about `DriverSharing` and `DriverPriority` | TLAPS |
| `PacketFifo` | `cPacketFifo` as operators on a record | through `Connection` |
| `Connection` | the three threads of a connection, its socket and its client | `MCConnection` |
| `ConnectionProofs` | theorems about it | TLAPS |
| `Shutdown` | `ShutdownInstances` and `CleanUp`, Listen thread and connection threads around `g_Lock` | through `Service`; itself for one finding |
| `Service` | extends `Shutdown` by the three programs it is part of: with a window, at a console, as a service with the SCM and a control program | `MCService` |
| `ServiceProofs` | theorems about both | TLAPS |
| `ChannelChange` | reader thread, handlers, and the TS side of several clients | `MCChannelChange` |
| `ChannelChangeProofs` | theorems about it | TLAPS |
| `ClientCalls` | one `cProxyClient` from `CreateBonDriver()` to its destructor | `MCClientCalls` |
| `ClientCallsProofs` | theorems about it | TLAPS |
| `SplitterTuner` | the splitter's control thread, `TsReader` and `TsSplitter` threads, and a second thread of the application, around three locks and two queues | `MCSplitterTuner` |
| `SplitterTunerProofs` | theorems about it | TLAPS |
| `TsSplitter` | the filter, one action for each kind of packet, with the broadcaster and `SetChannel` | `MCTsSplitter` |
| `TsSplitterProofs` | theorems about it | TLAPS |
| `TsSync` | packet synchronisation, with the stream | `MCTsSync` |
| `TsSyncProofs` | theorems about it | TLAPS |

Names of variables and actions are those of the code where TLA+ allows; the comment above an action
says what has been folded into it.

**DriverSharing.** A function from `Instances` for each `cProxyServer` field, a function from
`Readers` for each field of `stTsReaderArg`, a set or count for libraries and driver objects. `m_hTsRead` and
`m_pTsReaderArg` are set and cleared together and are one variable. List order is abstracted to a
choice where a loop stops at the first match, so every order is covered. `StopReader` and
`Unsubscribe` are the two ends a reader leaves an instance by, shared by `eCloseTuner` and the
destructor as they are textually repeated in the code. Both the client's half of the protocol
(a call passes only after the calls before it succeeded) and disconnection at any time are in it.
A TsReader iteration changes none of this state, so that the handlers are atomic with respect to
each other is exact, and that they may wait for the thread is covered in `ChannelChange`.

**ChannelChange.** A unit of TS carries the number of the tune it was received on and its place in
the stream, and nothing else: what the properties need to tell old from new. A tune in `eSetChannel2`
is split where the lock is released, client code where another thread can come in: also between level and
`m_bWaitCNR`, which `Process` (client 192-193) and `SetChannel` (712-713) both write one after the other.

**Connection, ClientCalls, Shutdown, Service.** One variable for the program counter of each thread, one
action for each stretch of code between two points where another thread can interfere.
`Connection` keeps `WaitForMultipleObjects`' lowest-index rule, the Receiver's look at `m_Error`
before each `select()`, and the queue event. `Shutdown` reduces a connection to what it does with
`g_Lock`, `g_InstanceList` and its driver (`m_hModule`, here the set of instances in which it is not NULL); the ghost
`late` marks those that got theirs after the last look at the list. In `Service` each field of `serviceStatus` is
written on its own, since the handler and `ServiceMain` share it without a lock, and `Start` begins a
new process, whose memory is that of `ServiceInit`.

**SplitterTuner.** The control thread's counter `ctl` stops at each lock, join and failing
call of `SetChannel`, `CloseTuner` and `Release`; the reader's and the splitter thread's stop where they take and
leave theirs. A packet is its tune and its number, buffers hold `BufSize` of them. Which packets pass the filter
is left to `TsSplitter`: here any of them may. What `TsSync` does to bytes is left to `TsSync`: with `TSSYNC` on
(`g_TsSync`), `SplitterTake` puts the packets held back in `m_SyncBuf` before the buffer and holds back the last one, or, while sync
is lost, the two at most that have their first byte in its 256 bytes; it may drop any at the front (`Synced`). `TsFlush` leaves
`m_SyncBuf` as it is, and the ghost `held` is what it left. `old` has the variables of a call of `SetChannel` and is reset when it
returns. `unsure` is a ghost that records when the stored channel
loses touch with the tuner's (see `PlaysWhatWasPromised`).

**TsSplitter.** A packet is its PID and, for a table, the section and part it carries; CRC and bytes are left out. The
three kinds of table are actions (`Pat`, `Cat`, `PmtStart` with `PmtCont`), the air repeats them in
any order, loses up to `MaxLost` parts of a PMT and changes the PMT's version. `SetChannel` takes part with the
fields it shares with the thread. Three ghosts say which service's PMT was applied last
(`by`), that `m_bChannelChanged` missed the PMT it was meant for (`flagLost`), and that tables of one stream were
read under the name of another (`mixed`).

**TsSync.** A byte is the packet it belongs to and its place there; the first is the sync byte. That no
payload byte imitates a sync byte wherever the code looks for one is assumed: a unit is taken for right when sync bytes follow at its distance
eight times over, or as often as the chunk has room for (1434-1454), which near its end is once. The branches of the function are the actions; a call
ends with `pc = "idle"`. The constructor (266-279) does not set `m_dwUnitSize` and `m_dwSyncBufPos`: the
model starts with zeros or with `pc = "wild"`, behaviour undefined.

## 3. Runs

Bounds are constants of the modules (`Max...`, sizes of sets, queue sizes) and given in the cfg.

| Run | Question | Bounds, and why they suffice |
|---|---|---|
| `sharing` | ten properties of `DriverSharing` | 3 connections on 2 names, libraries, objects and readers. Sharing hazards need a holder, a sharer and a third party leaving between them; the second name brings loops (`LoopNames`) and independence of drivers. Priorities 255, 255, 100: exclusive, competing, lower. Objects and readers are symmetric, connections are not (their priorities differ) |
| `priority` | refinement of `ExclusivePriv` | 4 connections with lock 255 on 1 driver: a holder and a queue of 3, the smallest with a middle to leave from |
| `connection` | safety and termination of one connection | queue size 1, 1 packet in the socket, 2 commands, 2 TS packets: queue and socket are both full and overflow, and every thread can fail |
| `service` | shutdown in all three programs, and the SCM | 2 connections with the window (one may be listed and one not), 1 for the service and the console; 2 control commands, so that a restart follows a start or meets a stop; 1 poll in a hint, so that polling ends both ways; `CreateThread` may fail |
| `channel_change` | TS and level across channel changes and reopening | 2 clients, the first with 3 calls, the second with 1; 2 tunes; the driver delivers chunks of 1 and 3 units until it has given 2, so up to 4: a chunk falls short of, fills and overflows the buffer of 2, and a packet may straddle a change made by either; queues of 1. States that differ in `m_bWaitCNR` alone count as one (VIEW `ButWaitCNR`): no guard and no property but `TypeOK` reads it |
| `client_calls` | answers, returning calls, destructor | 2 application threads with different commands, 2 calls each, all thread creations may fail |
| `splitter_tuner` | six properties of the exchange of tuners | 3 channels: two of one tuner, one of another with the same number there, and two of them select a service; buffer 2, chunks of 1 and 3, queues of 1, 2 calls of `SetChannel`, 2 of `OpenTuner`, 4 packets, `TSSYNC` on and off: a change of tuner and of channel, with and without the filter, while both threads have data |
| `splitter_filter` | the map of PIDs | 3 services in 2 transport streams; the PMTs of two services in different streams have the same PID, one is split over 3 packets, one changes its version; 2 channel changes, 1 lost packet, counters modulo 2, buffer of 2 |
| `splitter_sync` | packet synchronisation | units 5, 6, 7, 8 for 188, 192, 204, 208 and a carry of 9 for 256, in the same order and with the same 2 * 188 > 256; 2 sync bytes in a row for 8; chunks of 1, 4, 9, 16 bytes: shorter than a unit, one and several; packet numbers modulo 7; bytes are lost once |
| `tuner_left_open`, `select_during_cleanup`, `splitter_carry` | one claim of a document or comment each that the code does not keep | see Findings |

`CHECK_DEADLOCK FALSE` stands in `ClientCalls.cfg` (an application may stop calling for ever) and in
`Service.cfg` (a program at rest waits for a command, and with a failing `CreateThread` two threads
really deadlock: `ListenerStuck`, below).

Two parameters need a word. `ReopenMayFail` is FALSE in the runs and the theorems: the model otherwise lets
a driver that is open answer FALSE to a second `OpenTuner()`, which clears `m_bTunerOpen` of an instance
that has a reader (server 465); the hazard is listed and not covered. The library's reference count
`mapped` grows without bound when two names load one library, because only one reference is ever
freed, so passing runs use one library for each name.

### Fairness

- `Connection`: weak fairness of each of the three threads and of the client's Receiver. A thread of
  Windows that can run does run; the client reads because its own Receiver thread does nothing else.
  Commands, disconnection and shutdown have no fairness. If the client stalls without closing,
  `send()` blocks and the connection does not end: a listed hazard outside the assumption.
- `Service` (and `Shutdown`): strong fairness of the threads that meet at `g_Lock`: its holders are short and the UI
  thread sleeps 10 ms between two looks at the list. Strong fairness of `WaitEnd` stands for the synchronous
  protocol: a client has one command under way, so its queue runs empty and `WaitForMultipleObjects`, which
  prefers commands, sees the shutdown event. Weak fairness of `ServiceMain`, the control handler, the console and
  the control program, which wait for no lock. Commands, connections and disconnections are free.
- `ClientCalls`: weak fairness of the threads and of a connected server's answers. Calls, `Release()` and
  disconnection are free.
- `SplitterTuner`: strong fairness of the control thread, `TsReader`, `TsSplitter` and the application's other
  thread, once it is in a call. They wait for locks that are held briefly and left again and again: the
  reader sleeps 10 ms outside `m_writeLock` when the tuner has no more. Which calls are made, and whether the tuner has data,
  is free.
- `TsSplitter`: weak fairness of the arrival of PAT, CAT and PMT packets, since a broadcaster repeats its
  tables many times a second, and of the end of `SetChannel`. Losses and channel changes are free and bounded.
- `TsSync`: weak fairness of the next chunk and of the steps of a call.
- `DriverSharing`, `ChannelChange`: safety only, no fairness.

### Exceptions named in properties

Some properties exclude a state in which the code does not do what one would wish, and that no document
speaks of. Each is named, so that it can be read off, and everything else stays checked:

- `ListenerStuck` (`ShutdownReturnsUnlessStuck`, `ServiceStops`): `ShutdownInstances` holds `g_Lock` while it
  waits for the Listen thread (server 112-119); when `CreateThread` fails there, `delete pProxy` (1436) wants `g_Lock`.
- `Overlap` (`ServiceStops`): a STOP that meets `ServiceStopped` overwrites the status it reports.
- `unsure` (`PlaysWhatWasPromised`): since the channel was stored, its tuner was closed, a tuning failed or a reader
  could not be started. `SetChannel` for that same channel then finds nothing to change (splitter 508-515), so
  TRUE does not mean that the tuner is on it; after `CloseTuner` and `OpenTuner` the tuner even stays closed (301).
- `splitter = "failed"` (`PlaysWhatWasPromised`): `TsReader` ends at once when its splitting thread cannot be created (693),
  and `m_hTsRead` stays set.
- `late` (`StoppedUsesNoDriver`): a connection accepted before the listener ended that selects its driver after the list
  was seen empty (finding 2). It keeps its tuner through a reload; a service is shown as stopped around it, and until its process
  has ended `restart` runs the new one beside it.
- `held` (`FreshAndInOrder`), with `TSSYNC=1` only: `TsFlush()` (`BonDriver_Splitter.h` 159-167) clears neither `m_SyncBuf` nor
  its position, and nothing else does when a reader or tuner goes. The packets held back, one in sync and two at most, go
  before the first buffer of the next reader or channel (splitter 1361-1372), and if the filter lets them pass the application is given
  packets of the channel before.
- `flagLost` (`MapIsOwn`): `m_bChannelChanged`, set before the tuner is called (517) and cleared by a failure (665),
  was used up by a PMT that was not the first of the new channel, or cleared before that PMT came.
- `mixed` (`MapInTheEnd`): tables read between a change of stream and its first PAT, followed by a change back before it.
- `pc = "wild"` (`SyncInTheEnd`): the overrun of finding 3, and the uninitialised fields.
- `Started` (`ClientCalls`): `CreateThread` failed for the client and `m_lEndCount` counts nothing.

### Findings

1. `tuner_left_open`. A client that is cut off leaves the tuner open with no user if another instance of
   the library exists that has not opened it: the destructor's shared branch (server 207-251) never calls
   `CloseTuner()`. ReadMe.txt:160 says such a path was fixed.
2. `select_during_cleanup`. A connection that has not selected a driver is not counted by
   `ShutdownInstances` (127) and can use `g_LoadedDriverList` while `CleanUp` empties it; the comment at 1723
   says nobody can.
3. `splitter_carry`. Comments at splitter 1493 and 1495 say that with this way of detecting sync the carry cannot be
   longer than the unit. When bytes were lost, a resync may start inside a carry of up to 256 bytes and settle on a smaller
   unit; `m_dwUnitSize - m_dwSyncBufPos` (1338, 1374) then wraps around. The default buffer of 48128 bytes does not prevent it.

Known disagreements that no run is kept for: ReadMe.txt:62-63 says sharing goes by the BONDRIVER value alone, while
`eCreateBonDriver` (server 385) searches by library handle, and two spellings of a path have one handle; and
`SetChannel` (client 712-713) can fall between the two assignments at client 192-193, after which
`GetSignalLevel()` returns 0 unblocked, against ReadMe.txt:141-142.

## 4. Proofs

Every theorem holds for every value of the module's constants: any number of connections, threads, channels and
commands, any priorities, bounds and queue sizes. Assumptions: the named ASSUMEs of the modules (types of the constants, and
that the null values are none of their elements) and the ones given below.

| Module | Theorem | Property | Assumes |
|---|---|---|---|
| `DriverSharingProofs` | `TypeCorrect` | `TypeOK` | |
| | `PointersValid` | `NoDangling` | `~ReopenMayFail` |
| | `DeliveryExact` | `ReceiversExact` | `~ReopenMayFail` |
| | `ReaderHasTuner` | `ReaderOnOpenDriver` | `~ReopenMayFail` |
| | `FlagsTrue` | `OpenIsOpen` | `~ReopenMayFail` |
| | `OneObject` | `OneObjectPerModule` | `~ReopenMayFail` |
| | `MutualExclusion` | `ExclusiveLock` | `~ReopenMayFail` |
| | `NobodyWaitsInVain` | `WaitersHaveHolder` | `~ReopenMayFail` |
| | `HolderKeepsLock` | `NoPreemption` (action property) | `~ReopenMayFail` |
| | `TunedByHighest` | `LockHonoured` (action property) | |
| | `QueueInOrder` | `HandedOverInOrder` (action property, proved only) | `~ReopenMayFail` |
| | `LockIsFifo` | `ImplementsPriv` (refinement of `ExclusivePriv`) | `~ReopenMayFail` |
| `ConnectionProofs` | `EventTellsQueue` | `TypeOK` | |
| | `DeletedAfterThreads` | `NoThreadOutlivesObject` | |
| | `EachAnswerOnce` | `AnswersInOrder` | |
| `ChannelChangeProofs` | `TypesCorrect` | `TypeOK` | |
| | `Freshness` | `FreshAfterSetChannel` | |
| | `Order` | `StreamInOrder` | |
| | `PurgeSpares` | `PurgeSparesOthers` (action property) | |
| `ClientCallsProofs` | `TypeCorrect` | `TypeOK` | |
| | `DeletedAfterThreads` | `NoThreadOutlivesObject` | |
| | `AnswersAreOwn` | `OwnAnswer` | `Distinct` |
| `SplitterTunerProofs` | `TunerOutlivesReader` | `ReaderOnLiveTuner` | |
| | `SettingsStayWithChannel` | `SettingsAgree` | |
| | `PromiseIsKept` | `PlaysWhatWasPromised` | |
| | `TypesCorrect` | `TypeOK` | |
| | `StreamInOrder` | `FreshAndInOrder` | |
| `TsSplitterProofs` | `NothingForeignPasses` | `MapIsOwn` | `Apart` |
| | `NeverLeftFull` | `TypeOK` | `Apart` |
| `TsSyncProofs` | `TypesCorrect` | `TypeOK` | |
| | `Order` | `PacketsInOrder` (action property) | |
| `ServiceProofs` | `ServiceTypeCorrect` | `ServiceTypeOK` | |
| | `StoppedIsOver` | `StoppedUsesNoDriver` | |

`~ReopenMayFail`: a driver whose tuner is open does not answer FALSE to `OpenTuner()`. `Distinct`: no two threads of the
application call the same command, which is all the client promises (`BonDriver_Proxy.h` 169). `Apart`: no PAT, CAT or PMT gives a
table the PID of a stream.

**DriverSharing.** None of the properties is inductive alone. The inductive invariant is

    IInv == Typed /\ Shared /\ Streams /\ Locking

- `Typed`: `TypeOK` and `HasObject` (a client that passed `CreateBonDriver` has an object). `OpenTuner` calls
  through the pointer unchecked, so its type depends on this.
- `Shared`: `Unlisted` (who is not listed holds nothing), `Libraries`, `Objects`, `OneObjectPerModule`,
  `OpenIsOpen`. The destructor decides by *library* whether it is the last user (184) but then releases the
  *object*. `Objects` (an object comes from the holder's library) is what makes "last of the library"
  imply "last of the object" (lemma `LastOfLibrary`).
- `Streams`: `Holders`, `Receivers`, `Running`. `eCloseTuner` decides by `m_bTunerOpen` of the peers whether to
  stop the reader; `Holders` (who has a reader has its own flag set, on the reader's driver) makes that right
  (lemma `CloseLeaving`). Otherwise the reader is stopped when its receivers run out, which is right only
  because `Receivers` counts every holder exactly once.
- `Locking`: `Locks`, `ExclusiveLock`, `HolderHasStream`, `Queues`, `WaitersHaveHolder`. `eSetChannel2` queues
  an instance on the reader it finds, while the holder is found by object. `HolderHasStream` (a holder without
  a stream has no peer with one) says that these meet: the reader found is the holder's (lemma
  `QueuedLocking`), so its departure serves the queue.

Each action has a lemma `...Step` that shows `Shared' /\ Streams' /\ Locking'`; the two ways of leaving, closing
and destruction, share the `Leaving...` lemmas, and the outcomes of `eSetChannel2` share `AttachStreams` and
`PrioLocking`. The action properties follow from `IInv`, `LeavingLocks` and `SetChannelLocks`.

**The refinement.** The mapping picks holder and reader of a driver with CHOOSE; `ViewHolds` shows, from `IInv`, that there is
never more than one to pick. `Change(d)` lists what one step may do to the lock of driver `d`. `StepOfOne` and `StepOfNone` turn
a change at one driver, with the others as they were, into a step or stutter of `ExclusivePriv`; the lemmas about leaving
(`LeavingHolder` hands over to the head of the queue, `LeavingNoHolder` leaves it from any place) and
`SetChannelPriv` (taking, waiting, replacing a holder without stream) show that each action is such a change.

**Connection.** `IInv == TypeOK /\ Starting /\ NoThreadOutlivesObject`. `Starting` is the only strengthening: while
`Reception` is starting threads, those not started do not exist, so its failure paths join exactly those that do. The
queue lemmas `PushFifo` and `PopFifo` carry the agreement of event and content. For `AnswersInOrder` the invariant is
`OInv == IInv /\ Sending /\ AnswersInOrder`: Sender holds a packet exactly while it is in `send()`. `Answers` is a
recursive function on the positions of a sequence; that it is defined for sequences of any length, and what it
gives for an appended or a concatenated one, is proved by induction over the length (lemmas `Least`, `Induction`, `Exists` to `AnswersConcat`).

**ChannelChange.** `IInv == Types /\ ReaderInv /\ \A c \in Clients : ClientInv(c)`, where `ClientInv` is `Protocol /\ Fresh /\ Line`.
`ReaderInv`: what is in `pTsBuf` are the last units of the stream, all of one channel, and the level need not be measured again
unless `ChannelChanged` is set. `Protocol`: the command an application waits for is under way exactly once, asked, in its
handler, answered or returned. It is what makes an answer in the queue that of the last call. `Fresh`: nothing on the way
behind an answer to `SetChannel` (`FreshAnswers`), and nothing at all once it was taken, is older than that change; `TsFlush` clears the
one queue for which that is not so. `Line`: every stage holds older units than the one behind it. `PackedIs` says what the
packing loop (`Packed`) makes of a buffer and a chunk: the units between them, cut into packets that leave less than one.

**ClientCalls.** `Counting` says what `m_lEndCount` counts: nothing before the trigger is set (so that no thread can
have counted itself when it is reset to 0, line 136), afterwards the threads that have ended, and -1 only where no three
threads exist. `Owned` is about `Line`, all queues and buffers between a call and its answer read as one sequence: each
request in it is that of a thread that still waits, there is one at most for each command, and none while
its slot is filled. Every step has one of four effects on `Line` (`Quiet`, `Asked`, `Taken`, `Returned`). On an error calls
return without their answer, so `Owned` holds as long as `m_Error` is not set, which is for ever when it is.

**SplitterTuner.** `Lives == Places /\ Handles /\ Nested /\ Told`: where the control thread stands, that `m_hTsRead` is set only with
a tuner loaded and the reader joined before the tuner goes, that the splitting thread lives inside the reader's life, and that a reader ends
only if told or failed. `Stored` and `Waits` say what the settings are at each step of a call and that nothing waits for the
filter when no service is chosen; `Touch` that tuner and stored channel agree unless `unsure`; `Promised` that
the promise is the stored channel, with a reader. `Flows` is about the packets on the way, by their stages: the
application's queue, the splitter's two buffers, the raw queue and the reader's buffer (`Sized`), each in order and older than
what is behind it (`Ordered`), and all of the current tune except between the tuner's `SetChannel` and the flush. What `TsSync`
holds back is in order and at most two packets (`Holds`), and is on that way while a service is chosen (`Waiting`); the claims
against `got` and about the current tune are made of the packets on the way that were not held at the last flush (`Fresh`). When
`StartFails` takes the choice of a service back, the way was flushed and nothing has been read since (`NothingRead`). There is one lemma
for each kind of move between stages (`ReadToFilter`, `ReadPastFilter`, `TakenToFilter`, `Filtered`, `Given`, `Restarted`); `Parted` says
that cutting a sequence into full buffers and a remainder keeps order and content, `Selected` that filtering does. `Counted` (a
tune for a call at most) bounds `epoch`.

**TsSplitter.** `IInv == Types /\ Tuned /\ Settled /\ Own`. `Tuned`: the stream received is that of the chosen service, or of the old one
during a tuning. `Settled`: when neither a first PMT is awaited nor one was missed, the PMT received, and the last one applied, are
the chosen service's. `Own`: `pids`, and `p_old_pids` which the next PMT may merge into it, hold only streams of the service
applied last. A PMT that finds the flag clear merges; `Settled` says that it is then of the same service, which keeps `Own`.
The second half of `flagLost` in `SetChannelFails` matters only from three channel changes on: to a service of the same stream, back
before its PMT, and on to another stream, which fails and clears the flag the change back had set. The run has two (with three,
the search for liveness takes more than five minutes; the invariants alone hold there too, over 1.4 million states with
`MaxSets = 3`), and the theorem covers any number.

**TsSync.** `IInv == TypeOK /\ Taken /\ Unbroken /\ NoneYet`. `Unbroken` holds while no byte is lost: carry and chunk together are a
contiguous stretch of the stream that ends where the next chunk begins (`OnTrack`); in sync the stretch begins with a sync byte, of the packet
after the last delivered one, and the unit is the stream's. Hence no sync byte is missing (`NoneBroken`), and a unit found by two sync
bytes is right: it is a multiple of the stream's, and `SyncBufSize < 2 * UnitSizes[1]` leaves one (`OnlyUnit`). `AfterIs` and `PacketAfter`
carry the arithmetic of the stream, from `Divided` and `Reduced`.

**Service.** `Server` (types, `Locked`, `Accepting`, `Going`) is inductive for `Shutdown`: an instance with a driver is
on the list or in its destructor, which holds `g_Lock`; so one that is counted under `g_Lock` to be off the list has none, and
only those that select later do. `Serving` adds that `ServiceMain` stands where the shutdown does (`Follows`; a service
that never came as far as its listener is `Unused`) and that what the SCM or `serviceStatus` calls stopped is over (`Shown`).

Every invariant and every action property that a passing run checks is the subject of a theorem. Only model-checked is
liveness (`ConnectionEnds`, `CommandsServed`, `CallsReturn` of `ClientCalls` and of `SplitterTuner`, `ShutdownReturnsUnlessStuck`, `ServiceStops`,
`MapInTheEnd`, `SyncInTheEnd`), which is with ENABLED out of this prover's reach. The library's induction theorems take an
operator as a parameter, which the installed provers cannot instantiate; where induction over data is needed (`Answers`), it is done
for sets, from the well-foundedness of the natural numbers. Elsewhere sequences are described by their elements (`Ascending`,
`Run`, `Selections`, `Bytes`), not by recursion. Every property with a theorem is also checked by a run, except `HandedOverInOrder`,
which run `priority` covers as part of the refinement.

## 5. Not modelled

- `Init`'s parsing of the ini files in all three; window painting and the tray icon; opening of listening sockets;
  `Install` and `Remove` of the service (`CWinService.cpp` 25-99), which only register the program.
- In the client: `Connect`, `DllMain`'s detach, the ring of eight result strings. At process exit without `Release()` the threads
  are gone and `SleepLock(3)` cannot end; which threads are left then is up to Windows.
- In the server: `eEnumTuningSpace`, `eEnumChannelName`, `eGetTotalDeviceNum`, `eGetActiveDeviceNum`,
  `eSetLnbPower`, `eGetClientInfo`, which change no state of the server (`Connection` treats them as "ask").
- In the splitter: the calls that only read, tables of fixed PID (`g_dwDelFlag`), continuity counters of what is sent, CRC.
- The byte layout of packets: a packet is its command, and a bad head is a "malformed" packet.

## 6. Plan

Done: driver sharing with its abstract lock, connection threads, TS path and channel change, client calls, shutdown in all
three programs with the SCM, the splitter's tuner exchange, filter and sync; proofs of all 32 safety properties that are run (27 invariants, 4 action
properties and the refinement). Left, in this order:

1. The safety half of liveness, as invariants with proofs: where each thread that waits finds somebody who will wake it
   (`Connection`, `ClientCalls`, `SplitterTuner`), so that nobody waits on everybody.
2. `ClientLifecycle`: several clients of one process and `DllMain`'s detach.
3. Composition of `Connection` with `ClientCalls` in place of the reduced peers each of them has.
