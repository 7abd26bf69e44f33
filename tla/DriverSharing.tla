---------------------------- MODULE DriverSharing ----------------------------
(***************************************************************************)
(* How the connections of one BonDriverProxy server share the tuner        *)
(* drivers: the instance list, the loaded libraries, the driver objects,   *)
(* the tuner-open flags, the TS reader threads with their receivers, and   *)
(* the channel lock with its queue (src/BonDriverProxy/BonDriverProxy.cpp, *)
(* cProxyServer).                                                          *)
(*                                                                         *)
(* STRICT_LOCK is defined (line 4), so a command handler holds g_Lock from *)
(* the Pop to the end of the switch, as the destructor does: each is one   *)
(* action here.  A TsReader iteration touches none of this state; that the *)
(* handlers may wait for the thread under g_Lock is seen in ChannelChange.   *)
(*                                                                         *)
(* The commands come from the client DLL of src/BonDriver_Proxy, which     *)
(* lets a call through only after SelectBonDriver, CreateBonDriver and     *)
(* OpenTuner have succeeded; bBonDriver and bTuner are its two flags.      *)
(***************************************************************************)
EXTENDS Integers, Sequences, FiniteSets

CONSTANTS
  Instances,        \* connections (cProxyServer objects) that can exist at once
  Names,            \* values of BONDRIVER, the driver a client asks for
  LoopNames,        \* those that begin with BonDriver_Proxy (line 404)
  Modules,          \* library handles
  ModuleOf,         \* the handle LoadLibrary returns for a name (external)
  Drivers,          \* IBonDriver objects (bound: live or leaked at once)
  Readers,          \* stTsReaderArg objects, each with its reader thread
  Prio,             \* CHANNEL_LOCK of the client behind a connection
  DisableUnload,    \* g_DisableUnloadBonDriver
  ReopenMayFail,    \* may a driver answer FALSE to OpenTuner while open?
  NULL

EXCLUSIVE == 255    \* 0xff: exclusive, first come first served
WAITING   == 254    \* 0xfe: asked for 0xff, waits for its turn

ASSUME PrioAssumption == Prio \in [Instances -> 0..EXCLUSIVE]
ASSUME ModuleAssumption == ModuleOf \in [Names -> Modules]
ASSUME LoopAssumption == LoopNames \subseteq Names
ASSUME FlagAssumption == DisableUnload \in BOOLEAN /\ ReopenMayFail \in BOOLEAN
ASSUME NullAssumption ==
  /\ NULL \notin Instances
  /\ NULL \notin Names
  /\ NULL \notin Modules
  /\ NULL \notin Drivers
  /\ NULL \notin Readers

VARIABLES
  up,               \* constructed and not yet destroyed instances
  g_InstanceList,   \* instances that have selected a driver
  error,            \* instances whose own handler set m_Error
  m_strBonDriver, m_hModule, m_pIBon, m_bTunerOpen,
  m_hTsRead,        \* m_hTsRead and m_pTsReaderArg, set and cleared together
  m_bChannelLock,
  bBonDriver,       \* clients whose CreateBonDriver succeeded (m_bBonDriver)
  bTuner,           \* clients whose tuner is open to them (m_bTuner)
  mapped,           \* LoadLibrary reference count of each library
  g_LoadedDriverList, \* names kept loaded
  live,             \* driver objects that exist
  module,           \* the library a driver object comes from
  tunerOpen,        \* driver objects whose tuner is open
  channel,          \* the instance whose channel the driver is tuned to
  running,          \* stTsReaderArg objects that exist, their thread running
  readerDriver,     \* stTsReaderArg::pIBon
  receivers,        \* TsReceiversList: how often each instance is in it
  waitList          \* WaitExclusivePrivList

instVars   == <<m_strBonDriver, m_hModule, m_pIBon, m_bTunerOpen, m_hTsRead, m_bChannelLock>>
libVars    == <<mapped, g_LoadedDriverList>>
driverVars == <<live, module, tunerOpen, channel>>
readerVars == <<running, readerDriver, receivers, waitList>>
clientVars == <<bBonDriver, bTuner>>
vars == <<up, g_InstanceList, error, instVars, clientVars, libVars, driverVars, readerVars>>

-----------------------------------------------------------------------------
Nobody == [i \in Instances |-> 0]

\* The driver's other users: every loop over g_InstanceList that skips `this'
\* and compares m_pIBon.
Peers(i) == {j \in g_InstanceList \ {i} : m_pIBon[i] # NULL /\ m_pIBon[j] = m_pIBon[i]}

\* Mutant: the handlers do not ask whether the instance is still constructed.
ServingDestroyed(i) == i \notin error

\* WFMO reports m_Error before m_fifoRecv: no command is served after it.
Serving(i) == i \in up \ error

\* Mutant: the leaving instance stays in the queue.
WithoutNothing(q, i) == q

\* std::list::remove of an instance that is in the list at most once
\* (push_back at 667 is guarded by the search at 655-665).
Without(q, i) ==
  IF \E k \in 1..Len(q) : q[k] = i
  THEN LET at == CHOOSE k \in 1..Len(q) : q[k] = i
       IN  [k \in 1..(Len(q) - 1) |-> IF k < at THEN q[k] ELSE q[k + 1]]
  ELSE q

\* StopTsRead, join, CloseHandle, delete m_pTsReaderArg.
StopReader(a) ==
  /\ running' = running \ {a}
  /\ readerDriver' = [readerDriver EXCEPT ![a] = NULL]
  /\ receivers' = [receivers EXCEPT ![a] = Nobody]
  /\ waitList' = [waitList EXCEPT ![a] = << >>]

\* The lock instance i would pass on, and to whom, when it leaves reader a.
Heir(i, a) == IF m_bChannelLock[i] = EXCLUSIVE /\ waitList[a] # << >>
              THEN Head(waitList[a]) ELSE NULL

\* Mutant: the reader is stopped without a look at its other receivers.
UnsubscribeAll(i, a) == StopReader(a)

\* Leaving a reader others still use: off the receivers, the channel lock to
\* the head of the queue or self out of the queue, and the reader stopped if
\* nobody receives any more.
Unsubscribe(i, a) ==
  LET left == [receivers[a] EXCEPT ![i] = IF @ > 0 THEN @ - 1 ELSE 0]
  IN  IF left = Nobody
      THEN StopReader(a)
      ELSE /\ receivers' = [receivers EXCEPT ![a] = left]
           /\ waitList' = [waitList EXCEPT ![a] =
                             IF m_bChannelLock[i] # EXCLUSIVE THEN Without(@, i)
                             ELSE IF @ = << >> THEN @ ELSE Tail(@)]
           /\ UNCHANGED <<running, readerDriver>>

LockAfterLeaving(i, a) ==
  [j \in Instances |-> IF j = i THEN 0
                       ELSE IF a # NULL /\ j = Heir(i, a) THEN EXCLUSIVE
                       ELSE m_bChannelLock[j]]

-----------------------------------------------------------------------------
Init ==
  /\ up = {} /\ g_InstanceList = {} /\ error = {}
  /\ m_strBonDriver = [i \in Instances |-> NULL]
  /\ m_hModule = [i \in Instances |-> NULL]
  /\ m_pIBon = [i \in Instances |-> NULL]
  /\ m_bTunerOpen = [i \in Instances |-> FALSE]
  /\ m_hTsRead = [i \in Instances |-> NULL]
  /\ m_bChannelLock = [i \in Instances |-> 0]
  /\ bBonDriver = {} /\ bTuner = {}
  /\ mapped = [m \in Modules |-> 0]
  /\ g_LoadedDriverList = {}
  /\ live = {} /\ tunerOpen = {}
  /\ module = [d \in Drivers |-> NULL]
  /\ channel = [d \in Drivers |-> NULL]
  /\ running = {}
  /\ readerDriver = [a \in Readers |-> NULL]
  /\ receivers = [a \in Readers |-> Nobody]
  /\ waitList = [a \in Readers |-> << >>]

\* The listener accepts a connection and constructs its instance.
Accept(i) ==
  /\ i \notin up
  /\ up' = up \cup {i}
  /\ UNCHANGED <<g_InstanceList, error, instVars, clientVars, libVars, driverVars, readerVars>>

-----------------------------------------------------------------------------
(* eSelectBonDriver: an official client sends it once, first. *)

SelectShared(i, j) ==
  /\ m_hModule' = [m_hModule EXCEPT ![i] = m_hModule[j]]
  /\ m_strBonDriver' = [m_strBonDriver EXCEPT ![i] = m_strBonDriver[j]]
  /\ m_pIBon' = [m_pIBon EXCEPT ![i] = m_pIBon[j]]
  /\ UNCHANGED libVars

SelectLoad(i, n) ==
  /\ m_hModule' = [m_hModule EXCEPT ![i] = ModuleOf[n]]
  /\ m_strBonDriver' = [m_strBonDriver EXCEPT ![i] = n]
  /\ mapped' = IF n \in g_LoadedDriverList THEN mapped
               ELSE [mapped EXCEPT ![ModuleOf[n]] = @ + 1]
  /\ g_LoadedDriverList' = IF DisableUnload THEN g_LoadedDriverList \cup {n}
                           ELSE g_LoadedDriverList
  /\ UNCHANGED m_pIBon

\* A UNC path or a library that does not load changes nothing (lines 1176,
\* 1193), so the client's failure leaves the connection unselected.
SelectBonDriver(i, n) ==
  /\ Serving(i) /\ i \notin g_InstanceList
  /\ LET same == {j \in g_InstanceList : m_strBonDriver[j] = n}
     IN  \/ \E j \in same : SelectShared(i, j)
         \/ same = {} /\ SelectLoad(i, n)
  /\ g_InstanceList' = g_InstanceList \cup {i}
  /\ UNCHANGED <<up, error, m_bTunerOpen, m_hTsRead, m_bChannelLock, clientVars,
                 driverVars, readerVars>>

-----------------------------------------------------------------------------
(* eCreateBonDriver.  The list is searched in order, first object or first *)
(* loop suspect wins; its order is abstracted to a choice.                 *)

\* Mutant: other users of the library are looked for by driver object.
SameObject(i) == {j \in g_InstanceList \ {i} : m_pIBon[j] # NULL /\ m_pIBon[j] = m_pIBon[i]}


SameModule(i) == {j \in g_InstanceList \ {i} : m_hModule[j] = m_hModule[i]}

CreateShared(i) ==
  /\ \/ m_pIBon[i] # NULL /\ UNCHANGED m_pIBon
     \/ /\ m_pIBon[i] = NULL
        /\ \E j \in SameModule(i) : /\ m_pIBon[j] # NULL
                                    /\ m_pIBon' = [m_pIBon EXCEPT ![i] = m_pIBon[j]]
  /\ bBonDriver' = bBonDriver \cup {i}
  /\ UNCHANGED <<error, driverVars>>

CreateLoop(i) ==
  /\ m_pIBon[i] = NULL /\ m_strBonDriver[i] \in LoopNames
  /\ \E j \in SameModule(i) : m_pIBon[j] = NULL
  /\ error' = error \cup {i}
  /\ UNCHANGED <<m_pIBon, bBonDriver, driverVars>>

\* The library's CreateBonDriver() is called; the object may be missing, or no
\* IBonDriver2: then the client is told FALSE and m_Error is set.
CreateObject(i) ==
  /\ m_pIBon[i] = NULL
  /\ \A j \in SameModule(i) : m_pIBon[j] = NULL
  /\ m_strBonDriver[i] \in LoopNames => SameModule(i) = {}
  /\ \/ error' = error \cup {i} /\ UNCHANGED <<m_pIBon, bBonDriver, driverVars>>
     \/ \E d \in Drivers \ live :
          /\ m_pIBon' = [m_pIBon EXCEPT ![i] = d]
          /\ live' = live \cup {d}
          /\ module' = [module EXCEPT ![d] = m_hModule[i]]
          /\ \/ bBonDriver' = bBonDriver \cup {i} /\ UNCHANGED error
             \/ error' = error \cup {i} /\ UNCHANGED bBonDriver
          /\ UNCHANGED <<tunerOpen, channel>>

CreateBonDriver(i) ==
  /\ Serving(i) /\ i \in g_InstanceList \ bBonDriver
  /\ CreateShared(i) \/ CreateLoop(i) \/ CreateObject(i)
  /\ UNCHANGED <<up, g_InstanceList, m_strBonDriver, m_hModule, m_bTunerOpen, m_hTsRead,
                 m_bChannelLock, bTuner, libVars, readerVars>>

-----------------------------------------------------------------------------
(* eOpenTuner: the client does not check whether it is open already. *)

OpenTuner(i) ==
  /\ Serving(i) /\ i \in bBonDriver
  /\ \/ /\ \E j \in Peers(i) : m_bTunerOpen[j]
        /\ m_bTunerOpen' = [m_bTunerOpen EXCEPT ![i] = TRUE]
        /\ bTuner' = bTuner \cup {i}
        /\ UNCHANGED tunerOpen
     \/ /\ \A j \in Peers(i) : ~m_bTunerOpen[j]
        /\ \E b \in BOOLEAN :
             /\ m_pIBon[i] \in tunerOpen /\ ~ReopenMayFail => b
             /\ m_bTunerOpen' = [m_bTunerOpen EXCEPT ![i] = b]
             /\ bTuner' = IF b THEN bTuner \cup {i} ELSE bTuner
             /\ tunerOpen' = IF b THEN tunerOpen \cup {m_pIBon[i]} ELSE tunerOpen
  /\ UNCHANGED <<up, g_InstanceList, error, m_strBonDriver, m_hModule, m_pIBon, m_hTsRead,
                 m_bChannelLock, bBonDriver, libVars, live, module, channel, readerVars>>

(* eCloseTuner: sent only while the client has the tuner open. *)

\* Mutant: the tuner is closed without a look at who else has it open.
CloseAlways(i) ==
  /\ IF m_hTsRead[i] # NULL THEN StopReader(m_hTsRead[i]) ELSE UNCHANGED readerVars
  /\ tunerOpen' = tunerOpen \ {m_pIBon[i]}
  /\ channel' = [channel EXCEPT ![m_pIBon[i]] = NULL]
  /\ m_bChannelLock' = LockAfterLeaving(i, NULL)

\* Nobody else has the tuner open: the reader stops before the driver closes.
CloseLast(i) ==
  /\ \A j \in Peers(i) : ~m_bTunerOpen[j]
  /\ IF m_hTsRead[i] # NULL THEN StopReader(m_hTsRead[i]) ELSE UNCHANGED readerVars
  /\ tunerOpen' = tunerOpen \ {m_pIBon[i]}
  /\ channel' = [channel EXCEPT ![m_pIBon[i]] = NULL]
  /\ m_bChannelLock' = LockAfterLeaving(i, NULL)

CloseShared(i) ==
  /\ \E j \in Peers(i) : m_bTunerOpen[j]
  /\ IF m_hTsRead[i] # NULL THEN Unsubscribe(i, m_hTsRead[i]) ELSE UNCHANGED readerVars
  /\ m_bChannelLock' = LockAfterLeaving(i, m_hTsRead[i])
  /\ UNCHANGED <<tunerOpen, channel>>

CloseTuner(i) ==
  /\ Serving(i) /\ i \in bTuner
  /\ CloseLast(i) \/ CloseShared(i)
  /\ m_hTsRead' = [m_hTsRead EXCEPT ![i] = NULL]
  /\ m_bTunerOpen' = [m_bTunerOpen EXCEPT ![i] = FALSE]
  /\ bTuner' = bTuner \ {i}
  /\ UNCHANGED <<up, g_InstanceList, error, m_strBonDriver, m_hModule, m_pIBon, bBonDriver,
                 libVars, live, module>>

-----------------------------------------------------------------------------
(* eSetChannel2. *)

\* Mutant: the comparison of the locks is the wrong way round.
HigherSwapped(i) == {j \in Peers(i) : m_bChannelLock[j] < Prio[i]}


Higher(i) == {j \in Peers(i) : m_bChannelLock[j] > Prio[i]}
HavePriv(i) == {j \in Peers(i) : Prio[i] = EXCLUSIVE /\ m_bChannelLock[j] = EXCLUSIVE}

\* Mutant: no look for a reader a peer already runs.
StreamOwn(i) == {m_hTsRead[i]}

\* The reader i uses after the loop: its own, or one a peer already runs.
StreamOf(i) ==
  LET running_with_peers == {m_hTsRead[j] : j \in Peers(i)} \ {NULL}
  IN  IF m_hTsRead[i] # NULL THEN {m_hTsRead[i]}
      ELSE IF running_with_peers # {} THEN running_with_peers
      ELSE {NULL}

\* Mutant: push_back at every channel change.
AttachAgain(i, a) ==
  /\ m_hTsRead' = [m_hTsRead EXCEPT ![i] = a]
  /\ receivers' = IF a # NULL THEN [receivers EXCEPT ![a][i] = @ + 1] ELSE receivers

\* push_back into TsReceiversList when the reader is a new one for i.
Attach(i, a) ==
  /\ m_hTsRead' = [m_hTsRead EXCEPT ![i] = a]
  /\ receivers' = IF m_hTsRead[i] = NULL /\ a # NULL
                  THEN [receivers EXCEPT ![a][i] = @ + 1] ELSE receivers

\* A peer has a higher lock: answered 0x01, nothing tuned.
SetChannelLocked(i) ==
  /\ Higher(i) # {} /\ HavePriv(i) = {}
  /\ m_bChannelLock' = [m_bChannelLock EXCEPT ![i] = Prio[i]]
  /\ \E a \in StreamOf(i) : Attach(i, a)
  /\ UNCHANGED <<error, running, readerDriver, waitList, channel>>

\* Mutants: the lock of a waiter is not lowered; the queue is a stack.
QueuedUnlowered(i) ==
  /\ HavePriv(i) # {}
  /\ m_bChannelLock' = [m_bChannelLock EXCEPT ![i] = EXCLUSIVE]
  /\ \E a \in StreamOf(i) \ {NULL} : Attach(i, a) /\ UNCHANGED waitList
  /\ UNCHANGED <<error, running, readerDriver, channel>>

QueuedInFront(i) ==
  /\ HavePriv(i) # {}
  /\ m_bChannelLock' = [m_bChannelLock EXCEPT ![i] = WAITING]
  /\ \E a \in StreamOf(i) \ {NULL} :
       /\ Attach(i, a)
       /\ waitList' = [waitList EXCEPT ![a] =
                         IF \E k \in 1..Len(@) : @[k] = i THEN @ ELSE <<i>> \o @]
  /\ UNCHANGED <<error, running, readerDriver, channel>>

\* Another instance holds 255 and a stream runs: i queues up with lock 254.
SetChannelQueued(i) ==
  /\ HavePriv(i) # {}
  /\ m_bChannelLock' = [m_bChannelLock EXCEPT ![i] = WAITING]
  /\ \E a \in StreamOf(i) \ {NULL} :
       /\ Attach(i, a)
       /\ waitList' = [waitList EXCEPT ![a] =
                         IF \E k \in 1..Len(@) : @[k] = i THEN @ ELSE Append(@, i)]
  /\ UNCHANGED <<error, running, readerDriver, channel>>

\* Mutant: the lock is taken from a holder that is being served.
StealAlways(i) ==
  /\ \E h \in HavePriv(i) :
       m_bChannelLock' = [m_bChannelLock EXCEPT ![h] = 0, ![i] = EXCLUSIVE]
  /\ UNCHANGED <<error, m_hTsRead, readerVars, channel>>

\* The holder never got a stream: its lock is taken away.
SetChannelSteal(i) ==
  /\ StreamOf(i) = {NULL}
  /\ \E h \in HavePriv(i) :
       m_bChannelLock' = [m_bChannelLock EXCEPT ![h] = 0, ![i] = EXCLUSIVE]
  /\ UNCHANGED <<error, m_hTsRead, readerVars, channel>>

\* The driver is asked to tune; a first success starts the reader thread.
SetChannelTune(i) ==
  /\ Higher(i) = {} /\ HavePriv(i) = {}
  /\ m_bChannelLock' = [m_bChannelLock EXCEPT ![i] = Prio[i]]
  /\ \E a \in StreamOf(i) :
       \/ Attach(i, a) /\ UNCHANGED <<error, running, readerDriver, channel>>   \* FALSE
       \/ /\ channel' = [channel EXCEPT ![m_pIBon[i]] = i]
          /\ \/ a # NULL /\ Attach(i, a) /\ UNCHANGED <<error, running, readerDriver>>
             \/ /\ a = NULL
                /\ \E b \in Readers \ running :
                     /\ running' = running \cup {b}
                     /\ readerDriver' = [readerDriver EXCEPT ![b] = m_pIBon[i]]
                     /\ Attach(i, b)
                /\ UNCHANGED error
             \/ /\ a = NULL                                      \* CreateThread fails
                /\ error' = error \cup {i}
                /\ UNCHANGED <<m_hTsRead, receivers, running, readerDriver>>
  /\ UNCHANGED waitList

SetChannel2(i) ==
  /\ Serving(i) /\ i \in bTuner
  /\ SetChannelLocked(i) \/ SetChannelQueued(i) \/ SetChannelSteal(i) \/ SetChannelTune(i)
  /\ UNCHANGED <<up, g_InstanceList, m_strBonDriver, m_hModule, m_pIBon, m_bTunerOpen,
                 clientVars, libVars, live, module, tunerOpen>>

-----------------------------------------------------------------------------
(* The destructor: eRelease, a lost connection, a bad packet, a handler's  *)
(* m_Error and the shutdown event all end here.                            *)

DestroyLast(i) ==
  /\ SameModule(i) = {} \/ m_hModule[i] = NULL
  /\ IF m_hTsRead[i] # NULL THEN StopReader(m_hTsRead[i]) ELSE UNCHANGED readerVars
  /\ live' = live \ {m_pIBon[i]}
  /\ tunerOpen' = tunerOpen \ {m_pIBon[i]}
  /\ module' = [d \in Drivers |-> IF d = m_pIBon[i] THEN NULL ELSE module[d]]
  /\ channel' = [d \in Drivers |-> IF d = m_pIBon[i] THEN NULL ELSE channel[d]]
  /\ mapped' = IF m_hModule[i] # NULL /\ ~DisableUnload
               THEN [mapped EXCEPT ![m_hModule[i]] = @ - 1] ELSE mapped
  /\ m_bChannelLock' = LockAfterLeaving(i, NULL)

DestroyShared(i) ==
  /\ SameModule(i) # {} /\ m_hModule[i] # NULL
  /\ IF m_hTsRead[i] # NULL THEN Unsubscribe(i, m_hTsRead[i]) ELSE UNCHANGED readerVars
  /\ m_bChannelLock' = LockAfterLeaving(i, m_hTsRead[i])
  /\ UNCHANGED <<mapped, driverVars>>

Destroy(i) ==
  /\ i \in up
  /\ DestroyLast(i) \/ DestroyShared(i)
  /\ up' = up \ {i} /\ g_InstanceList' = g_InstanceList \ {i} /\ error' = error \ {i}
  /\ m_strBonDriver' = [m_strBonDriver EXCEPT ![i] = NULL]
  /\ m_hModule' = [m_hModule EXCEPT ![i] = NULL]
  /\ m_pIBon' = [m_pIBon EXCEPT ![i] = NULL]
  /\ m_bTunerOpen' = [m_bTunerOpen EXCEPT ![i] = FALSE]
  /\ m_hTsRead' = [m_hTsRead EXCEPT ![i] = NULL]
  /\ bBonDriver' = bBonDriver \ {i} /\ bTuner' = bTuner \ {i}
  /\ UNCHANGED g_LoadedDriverList

Next ==
  \E i \in Instances :
    \/ Accept(i)
    \/ \E n \in Names : SelectBonDriver(i, n)
    \/ CreateBonDriver(i)
    \/ OpenTuner(i)
    \/ CloseTuner(i)
    \/ SetChannel2(i)
    \/ Destroy(i)

Spec == Init /\ [][Next]_vars
-----------------------------------------------------------------------------
(* Properties.                                                             *)

\* Every variable has its type.
TypeOK ==
  /\ up \subseteq Instances
  /\ g_InstanceList \subseteq up /\ error \subseteq up
  /\ m_strBonDriver \in [Instances -> Names \cup {NULL}]
  /\ m_hModule \in [Instances -> Modules \cup {NULL}]
  /\ m_pIBon \in [Instances -> Drivers \cup {NULL}]
  /\ m_bTunerOpen \in [Instances -> BOOLEAN]
  /\ m_hTsRead \in [Instances -> Readers \cup {NULL}]
  /\ m_bChannelLock \in [Instances -> 0..EXCLUSIVE]
  /\ bBonDriver \subseteq g_InstanceList /\ bTuner \subseteq bBonDriver
  /\ mapped \in [Modules -> Int]
  /\ g_LoadedDriverList \subseteq Names
  /\ live \subseteq Drivers /\ tunerOpen \subseteq Drivers
  /\ module \in [Drivers -> Modules \cup {NULL}]
  /\ channel \in [Drivers -> Instances \cup {NULL}]
  /\ running \subseteq Readers
  /\ readerDriver \in [Readers -> Drivers \cup {NULL}]
  /\ receivers \in [Readers -> [Instances -> Nat]]
  /\ waitList \in [Readers -> Seq(Instances)]

\* The pointers an instance keeps after a handler are to objects that exist:
\* its reader argument is not deleted under it (ReadMe 1.1.4.9), the driver
\* object it calls is not released, and its library is not unloaded.
NoDangling ==
  \A i \in up :
    /\ m_hTsRead[i] # NULL => m_hTsRead[i] \in running
    /\ m_pIBon[i] # NULL => m_pIBon[i] \in live
    /\ m_hModule[i] # NULL => mapped[m_hModule[i]] > 0

\* A reader delivers to each instance that holds it once, and to no other: no
\* client gets a TS block twice and no deleted instance gets one.
ReceiversExact ==
  \A a \in running, i \in Instances :
    receivers[a][i] = IF m_hTsRead[i] = a THEN 1 ELSE 0

\* One reader thread per driver object, and only on a driver that exists and
\* whose tuner is open: CloseTuner() never runs under a reading thread
\* (ReadMe 1.1.4.6), and two threads never split one driver's stream.
ReaderOnOpenDriver ==
  \A a \in running :
    /\ readerDriver[a] \in live \cap tunerOpen
    /\ \E i \in g_InstanceList : m_hTsRead[i] = a
    /\ \A b \in running : readerDriver[a] = readerDriver[b] => a = b
    /\ \A i \in g_InstanceList : m_hTsRead[i] = a => m_pIBon[i] = readerDriver[a]

\* An instance whose flag says open has an open tuner, and so has every client
\* that was told TRUE: sharing the flag never outlives the tuner.
OpenIsOpen ==
  /\ \A i \in g_InstanceList : m_bTunerOpen[i] => m_pIBon[i] \in tunerOpen
  /\ bTuner = {i \in g_InstanceList : m_bTunerOpen[i]}

\* At most one instance of a driver holds the exclusive lock.
ExclusiveLock ==
  \A i, j \in g_InstanceList :
    /\ m_bChannelLock[i] = EXCLUSIVE /\ m_bChannelLock[j] = EXCLUSIVE
    /\ m_pIBon[i] = m_pIBon[j]
    => i = j

\* Nobody waits in vain: whoever queues for the exclusive lock is queued once,
\* with lock 254 and the stream running, and behind an instance that holds the
\* lock on the same reader and will hand it over.
WaitersHaveHolder ==
  \A a \in running :
    \A k \in 1..Len(waitList[a]) :
      LET w == waitList[a][k]
      IN  /\ m_hTsRead[w] = a /\ m_bChannelLock[w] = WAITING
          /\ \A l \in 1..Len(waitList[a]) : waitList[a][l] = w => l = k
          /\ \E h \in g_InstanceList : m_hTsRead[h] = a /\ m_bChannelLock[h] = EXCLUSIVE

\* A driver is never tuned for an instance while another user of the same
\* object keeps a higher channel lock (ReadMe, CHANNEL_LOCK).
LockHonoured ==
  [][\A d \in Drivers :
       channel'[d] # channel[d] /\ channel'[d] # NULL =>
         \A j \in g_InstanceList' :
           m_pIBon'[j] = d => m_bChannelLock'[j] <= m_bChannelLock'[channel'[d]]]_vars

\* While a stream runs, an exclusive lock is lost only by its holder closing or
\* leaving: no request of another client takes it away.
NoPreemption ==
  [][\A i \in Instances :
       m_bChannelLock[i] = EXCLUSIVE /\ m_hTsRead[i] # NULL /\ m_bTunerOpen'[i] =>
         m_bChannelLock'[i] = EXCLUSIVE]_vars

\* The exclusive lock passes to the waiters strictly in the order of their
\* requests (ReadMe 1.1.6.1), and passes on whenever somebody waits.
HandedOverInOrder ==
  [][\A a \in running \cap running' :
       /\ waitList[a] # << >> /\ (\E h \in Instances : m_hTsRead[h] = a
             /\ m_bChannelLock[h] = EXCLUSIVE /\ m_hTsRead'[h] # a)
          => m_bChannelLock'[Head(waitList[a])] = EXCLUSIVE
       /\ \A k \in 2..Len(waitList[a]) : m_bChannelLock'[waitList[a][k]] # EXCLUSIVE]_vars

\* Same library, same object: two instances that selected one library never
\* use two driver objects of it.
OneObjectPerModule ==
  \A i, j \in g_InstanceList :
    m_hModule[i] = m_hModule[j] /\ m_pIBon[i] # NULL /\ m_pIBon[j] # NULL =>
      m_pIBon[i] = m_pIBon[j]

(* A claim of the ReadMe that the code does not keep.                      *)

\* "Fixed: a code path that should pass CloseTuner() did not" (ReadMe:160):
\* a tuner nobody has open is closed.
TunerClosedWhenUnused ==
  \A d \in tunerOpen : \E i \in g_InstanceList : m_pIBon[i] = d /\ m_bTunerOpen[i]
=============================================================================
