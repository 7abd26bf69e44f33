------------------------- MODULE DriverSharingProofs -------------------------
(* Theorems about DriverSharing and DriverPriority, for every value of     *)
(* their constants.                                                        *)
EXTENDS DriverPriority, SequenceTheorems, TLAPS

-----------------------------------------------------------------------------
(* Type correctness *)

ReaderTypes ==
  /\ running \subseteq Readers
  /\ readerDriver \in [Readers -> Drivers \cup {NULL}]
  /\ receivers \in [Readers -> [Instances -> Nat]]
  /\ waitList \in [Readers -> Seq(Instances)]

\* Without shortens a queue of instances to a queue of instances.
LEMMA WithoutType ==
  ASSUME NEW q \in Seq(Instances), NEW i \in Instances
  PROVE  Without(q, i) \in Seq(Instances)
<1>1. CASE \E k \in 1..Len(q) : q[k] = i
  <2> DEFINE at == CHOOSE k \in 1..Len(q) : q[k] = i
             e(k) == IF k < at THEN q[k] ELSE q[k + 1]
  <2>1. at \in 1..Len(q)
    BY <1>1
  <2>2. Len(q) \in Nat /\ Len(q) - 1 \in Nat
    BY <2>1, LenProperties
  <2>3. \A k \in 1..(Len(q) - 1) : e(k) \in Instances
    <3> TAKE k \in 1..(Len(q) - 1)
    <3>1. k \in 1..Len(q) /\ k + 1 \in 1..Len(q)
      BY <2>2
    <3>2. q[k] \in Instances /\ q[k + 1] \in Instances
      BY <3>1, ElementOfSeq
    <3> QED
      BY <3>2
  <2>4. [k \in 1..(Len(q) - 1) |-> e(k)] \in Seq(Instances)
    <3> HIDE DEF e
    <3> QED
      BY <2>2, <2>3, IsASeq
  <2> QED
    BY <1>1, <2>4 DEF Without
<1>2. CASE ~ \E k \in 1..Len(q) : q[k] = i
  BY <1>2 DEF Without
<1> QED
  BY <1>1, <1>2

\* Stopping a reader keeps the types of the readers.
LEMMA StopReaderType ==
  ASSUME ReaderTypes, NEW a \in Readers, StopReader(a)
  PROVE  ReaderTypes'
<1>1. Nobody \in [Instances -> Nat]
  BY DEF Nobody
<1>2. << >> \in Seq(Instances)
  BY EmptySeq
<1> QED
  BY <1>1, <1>2 DEF ReaderTypes, StopReader

\* So does leaving a reader.
LEMMA UnsubscribeType ==
  ASSUME ReaderTypes, NEW i \in Instances, NEW a \in Readers, Unsubscribe(i, a)
  PROVE  ReaderTypes'
<1> DEFINE left == [receivers[a] EXCEPT ![i] = IF @ > 0 THEN @ - 1 ELSE 0]
<1>1. CASE left = Nobody
  <2>1. StopReader(a)
    BY <1>1 DEF Unsubscribe
  <2> QED
    BY <2>1, StopReaderType
<1>2. CASE left # Nobody
  <2>1. left \in [Instances -> Nat]
    BY DEF ReaderTypes
  <2>2. waitList[a] \in Seq(Instances)
    BY DEF ReaderTypes
  <2>3. /\ Without(waitList[a], i) \in Seq(Instances)
        /\ waitList[a] # << >> => Tail(waitList[a]) \in Seq(Instances)
    BY <2>2, WithoutType, HeadTailProperties
  <2> DEFINE q == IF m_bChannelLock[i] # EXCLUSIVE THEN Without(waitList[a], i)
                  ELSE IF waitList[a] = << >> THEN waitList[a] ELSE Tail(waitList[a])
  <2>4. q \in Seq(Instances)
    BY <2>2, <2>3
  <2>5. /\ receivers' = [receivers EXCEPT ![a] = left]
        /\ waitList' = [waitList EXCEPT ![a] = q]
        /\ UNCHANGED <<running, readerDriver>>
    BY <1>2 DEF Unsubscribe, ReaderTypes
  <2> QED
    BY <2>1, <2>4, <2>5 DEF ReaderTypes
<1> QED
  BY <1>1, <1>2

\* A handler finds its own reader, a peer's, or none.
LEMMA StreamOfType ==
  ASSUME m_hTsRead \in [Instances -> Readers \cup {NULL}],
         g_InstanceList \subseteq Instances, NEW i \in Instances
  PROVE  StreamOf(i) \subseteq Readers \cup {NULL}
<1>1. Peers(i) \subseteq Instances
  BY DEF Peers
<1>2. {m_hTsRead[j] : j \in Peers(i)} \subseteq Readers \cup {NULL}
  BY <1>1
<1> QED
  BY <1>2 DEF StreamOf

\* Attaching an instance to a reader, or to none, keeps the types.
LEMMA AttachType ==
  ASSUME m_hTsRead \in [Instances -> Readers \cup {NULL}],
         receivers \in [Readers -> [Instances -> Nat]],
         NEW i \in Instances, NEW a \in Readers \cup {NULL}, Attach(i, a)
  PROVE  /\ m_hTsRead' \in [Instances -> Readers \cup {NULL}]
         /\ receivers' \in [Readers -> [Instances -> Nat]]
<1>1. m_hTsRead' \in [Instances -> Readers \cup {NULL}]
  BY DEF Attach
<1>2. CASE a \in Readers
  <2>1. [receivers[a] EXCEPT ![i] = @ + 1] \in [Instances -> Nat]
    BY <1>2
  <2>2. [receivers EXCEPT ![a][i] = @ + 1] \in [Readers -> [Instances -> Nat]]
    BY <1>2, <2>1
  <2> QED
    BY <1>1, <2>2 DEF Attach
<1>3. CASE a \notin Readers
  BY <1>1, <1>3 DEF Attach
<1> QED
  BY <1>2, <1>3

\* A client that was told TRUE by CreateBonDriver has an object: what keeps
\* OpenTuner() from being called on no object.
HasObject == \A i \in bBonDriver : m_pIBon[i] # NULL

Typed == TypeOK /\ HasObject

LEMMA TypedInit == Init => Typed
<1> SUFFICES ASSUME Init PROVE Typed
  OBVIOUS
<1>1. << >> \in Seq(Instances)
  BY EmptySeq
<1>2. 0 \in 0..EXCLUSIVE
  BY DEF EXCLUSIVE
<1> QED
  BY <1>1, <1>2 DEF Init, Typed, TypeOK, HasObject, Nobody

LEMMA TypedStep == Typed /\ [Next]_vars => Typed'
<1> SUFFICES ASSUME Typed, [Next]_vars PROVE Typed'
  OBVIOUS
<1> USE DEF Typed, TypeOK, HasObject
<1>1. ASSUME NEW i \in Instances, Accept(i) PROVE Typed'
  BY <1>1 DEF Accept, instVars, clientVars, libVars, driverVars, readerVars
<1>2. ASSUME NEW i \in Instances, NEW n \in Names, SelectBonDriver(i, n) PROVE Typed'
  <2>1. i \in up /\ i \notin g_InstanceList
    BY <1>2 DEF SelectBonDriver, Serving
  <2>2. CASE \E j \in g_InstanceList : SelectShared(i, j)
    <3> PICK j \in g_InstanceList : SelectShared(i, j)
      BY <2>2
    <3> QED
      BY <1>2, <2>1 DEF SelectBonDriver, SelectShared, clientVars, libVars, driverVars, readerVars
  <2>3. CASE SelectLoad(i, n)
    <3>1. ModuleOf[n] \in Modules
      BY ModuleAssumption
    <3>2. mapped' \in [Modules -> Int] /\ g_LoadedDriverList' \subseteq Names
      BY <2>3, <3>1 DEF SelectLoad
    <3> QED
      BY <1>2, <2>1, <2>3, <3>1, <3>2 DEF SelectBonDriver, SelectLoad, clientVars, driverVars, readerVars
  <2> QED
    BY <1>2, <2>2, <2>3 DEF SelectBonDriver
<1>3. ASSUME NEW i \in Instances, CreateBonDriver(i) PROVE Typed'
  <2>1. i \in up /\ i \in g_InstanceList
    BY <1>3 DEF CreateBonDriver, Serving
  <2> DEFINE Changed == /\ error' \subseteq up
                        /\ m_pIBon' \in [Instances -> Drivers \cup {NULL}]
                        /\ live' \subseteq Drivers /\ tunerOpen' \subseteq Drivers
                        /\ module' \in [Drivers -> Modules \cup {NULL}]
                        /\ channel' \in [Drivers -> Instances \cup {NULL}]
                        /\ bBonDriver \subseteq bBonDriver'
                        /\ bBonDriver' \subseteq g_InstanceList
                        /\ HasObject'
  <2>2. ASSUME CreateShared(i) PROVE Changed
    <3>1. CASE m_pIBon[i] # NULL /\ m_pIBon' = m_pIBon
      BY <2>1, <2>2, <3>1 DEF CreateShared, driverVars
    <3>2. CASE \E j \in SameModule(i) : /\ m_pIBon[j] # NULL
                                        /\ m_pIBon' = [m_pIBon EXCEPT ![i] = m_pIBon[j]]
      BY <2>1, <2>2, <3>2 DEF CreateShared, SameModule, driverVars
    <3> QED
      BY <2>2, <3>1, <3>2 DEF CreateShared
  <2>3. ASSUME CreateLoop(i) PROVE Changed
    BY <2>1, <2>3 DEF CreateLoop, driverVars
  <2>4. ASSUME CreateObject(i) PROVE Changed
    <3>1. CASE error' = error \cup {i} /\ UNCHANGED <<m_pIBon, bBonDriver, driverVars>>
      BY <2>1, <3>1 DEF driverVars
    <3>2. CASE \E d \in Drivers \ live :
                 /\ m_pIBon' = [m_pIBon EXCEPT ![i] = d]
                 /\ live' = live \cup {d}
                 /\ module' = [module EXCEPT ![d] = m_hModule[i]]
                 /\ \/ bBonDriver' = bBonDriver \cup {i} /\ UNCHANGED error
                    \/ error' = error \cup {i} /\ UNCHANGED bBonDriver
                 /\ UNCHANGED <<tunerOpen, channel>>
      <4> PICK d \in Drivers \ live :
                 /\ m_pIBon' = [m_pIBon EXCEPT ![i] = d]
                 /\ live' = live \cup {d}
                 /\ module' = [module EXCEPT ![d] = m_hModule[i]]
                 /\ \/ bBonDriver' = bBonDriver \cup {i} /\ UNCHANGED error
                    \/ error' = error \cup {i} /\ UNCHANGED bBonDriver
                 /\ UNCHANGED <<tunerOpen, channel>>
        BY <3>2
      <4> QED
        BY <2>1, NullAssumption
    <3> QED
      BY <2>4, <3>1, <3>2 DEF CreateObject
  <2>5. Changed
    BY <1>3, <2>2, <2>3, <2>4 DEF CreateBonDriver
  <2> QED
    BY <1>3, <2>5 DEF CreateBonDriver, libVars, readerVars
<1>4. ASSUME NEW i \in Instances, OpenTuner(i) PROVE Typed'
  BY <1>4 DEF OpenTuner, Serving, libVars, readerVars
<1>5. ASSUME NEW i \in Instances, CloseTuner(i) PROVE Typed'
  <2>1. \A a : LockAfterLeaving(i, a) \in [Instances -> 0..EXCLUSIVE]
    BY DEF LockAfterLeaving, EXCLUSIVE
  <2>2. ReaderTypes'
    BY <1>5, StopReaderType, UnsubscribeType
       DEF CloseTuner, CloseLast, CloseShared, readerVars, ReaderTypes
  <2>3. tunerOpen' \subseteq Drivers /\ channel' \in [Drivers -> Instances \cup {NULL}]
    BY <1>5 DEF CloseTuner, CloseLast, CloseShared
  <2>4. m_bChannelLock' \in [Instances -> 0..EXCLUSIVE]
    BY <1>5, <2>1 DEF CloseTuner, CloseLast, CloseShared
  <2> QED
    BY <1>5, <2>2, <2>3, <2>4 DEF CloseTuner, Serving, ReaderTypes, libVars
<1>6. ASSUME NEW i \in Instances, SetChannel2(i) PROVE Typed'
  <2>1. Prio[i] \in 0..EXCLUSIVE /\ WAITING \in 0..EXCLUSIVE /\ EXCLUSIVE \in 0..EXCLUSIVE
        /\ 0 \in 0..EXCLUSIVE
    BY PrioAssumption DEF WAITING, EXCLUSIVE
  <2>2. \A a \in StreamOf(i) : a \in Readers \cup {NULL}
    BY StreamOfType
  <2>3. ASSUME NEW a \in Readers \cup {NULL}, Attach(i, a)
        PROVE  /\ m_hTsRead' \in [Instances -> Readers \cup {NULL}]
               /\ receivers' \in [Readers -> [Instances -> Nat]]
    BY <2>3, AttachType
  <2> DEFINE Changed == /\ error' \subseteq up
                        /\ m_hTsRead' \in [Instances -> Readers \cup {NULL}]
                        /\ m_bChannelLock' \in [Instances -> 0..EXCLUSIVE]
                        /\ channel' \in [Drivers -> Instances \cup {NULL}]
                        /\ ReaderTypes'
  <2>4. ASSUME SetChannelLocked(i) PROVE Changed
    <3> PICK a \in StreamOf(i) : Attach(i, a)
      BY <2>4 DEF SetChannelLocked
    <3> QED
      BY <2>1, <2>2, <2>3, <2>4 DEF SetChannelLocked, ReaderTypes
  <2>5. ASSUME SetChannelQueued(i) PROVE Changed
    <3> PICK a \in StreamOf(i) \ {NULL} :
               /\ Attach(i, a)
               /\ waitList' = [waitList EXCEPT ![a] =
                                 IF \E k \in 1..Len(@) : @[k] = i THEN @ ELSE Append(@, i)]
      BY <2>5 DEF SetChannelQueued
    <3>1. a \in Readers
      BY <2>2
    <3>2. Append(waitList[a], i) \in Seq(Instances)
      BY <3>1, AppendProperties
    <3>3. waitList' \in [Readers -> Seq(Instances)]
      BY <3>1, <3>2
    <3> QED
      BY <2>1, <2>3, <2>5, <3>1, <3>3 DEF SetChannelQueued, ReaderTypes
  <2>6. ASSUME SetChannelSteal(i) PROVE Changed
    <3> PICK h \in HavePriv(i) : m_bChannelLock' = [m_bChannelLock EXCEPT ![h] = 0, ![i] = EXCLUSIVE]
      BY <2>6 DEF SetChannelSteal
    <3>1. m_bChannelLock' \in [Instances -> 0..EXCLUSIVE]
      BY <2>1
    <3> QED
      BY <2>6, <3>1 DEF SetChannelSteal, ReaderTypes, readerVars
  <2>7. ASSUME SetChannelTune(i) PROVE Changed
    <3>1. /\ m_bChannelLock' \in [Instances -> 0..EXCLUSIVE]
          /\ waitList' = waitList
      BY <2>1, <2>7 DEF SetChannelTune
    <3>2. i \in up
      BY <1>6 DEF SetChannel2, Serving
    <3>3. PICK a \in StreamOf(i) :
            \/ Attach(i, a) /\ UNCHANGED <<error, running, readerDriver, channel>>
            \/ /\ channel' = [channel EXCEPT ![m_pIBon[i]] = i]
               /\ \/ a # NULL /\ Attach(i, a) /\ UNCHANGED <<error, running, readerDriver>>
                  \/ /\ a = NULL
                     /\ \E b \in Readers \ running :
                          /\ running' = running \cup {b}
                          /\ readerDriver' = [readerDriver EXCEPT ![b] = m_pIBon[i]]
                          /\ Attach(i, b)
                     /\ UNCHANGED error
                  \/ /\ a = NULL
                     /\ error' = error \cup {i}
                     /\ UNCHANGED <<m_hTsRead, receivers, running, readerDriver>>
      BY <2>7 DEF SetChannelTune
    <3>4. channel' \in [Drivers -> Instances \cup {NULL}]
      BY <3>3
    <3>5. error' \subseteq up
      BY <3>2, <3>3
    <3>6. /\ m_hTsRead' \in [Instances -> Readers \cup {NULL}]
          /\ receivers' \in [Readers -> [Instances -> Nat]]
      BY <2>2, <2>3, <3>3
    <3>7. /\ running' \subseteq Readers
          /\ readerDriver' \in [Readers -> Drivers \cup {NULL}]
      <4>1. CASE UNCHANGED <<running, readerDriver>>
        BY <4>1
      <4>2. CASE \E b \in Readers : /\ running' = running \cup {b}
                                    /\ readerDriver' = [readerDriver EXCEPT ![b] = m_pIBon[i]]
        BY <4>2
      <4> QED
        BY <3>3, <4>1, <4>2
    <3> QED
      BY <3>1, <3>4, <3>5, <3>6, <3>7 DEF ReaderTypes
  <2>8. Changed
    BY <1>6, <2>4, <2>5, <2>6, <2>7 DEF SetChannel2
  <2> QED
    BY <1>6, <2>8 DEF SetChannel2, ReaderTypes, clientVars, libVars
<1>7. ASSUME NEW i \in Instances, Destroy(i) PROVE Typed'
  <2>1. \A a : LockAfterLeaving(i, a) \in [Instances -> 0..EXCLUSIVE]
    BY DEF LockAfterLeaving, EXCLUSIVE
  <2>2. ReaderTypes'
    BY <1>7, StopReaderType, UnsubscribeType
       DEF Destroy, DestroyLast, DestroyShared, readerVars, ReaderTypes
  <2>3. /\ live' \subseteq Drivers /\ tunerOpen' \subseteq Drivers
        /\ module' \in [Drivers -> Modules \cup {NULL}]
        /\ channel' \in [Drivers -> Instances \cup {NULL}]
        /\ mapped' \in [Modules -> Int]
    BY <1>7 DEF Destroy, DestroyLast, DestroyShared, driverVars
  <2>4. m_bChannelLock' \in [Instances -> 0..EXCLUSIVE]
    BY <1>7, <2>1 DEF Destroy, DestroyLast, DestroyShared
  <2> QED
    BY <1>7, <2>2, <2>3, <2>4 DEF Destroy, ReaderTypes
<1>8. CASE UNCHANGED vars
  BY <1>8 DEF vars, instVars, clientVars, libVars, driverVars, readerVars
<1> QED
  BY <1>1, <1>2, <1>3, <1>4, <1>5, <1>6, <1>7, <1>8 DEF Next

\* Every variable has its type, in every reachable state.
THEOREM TypeCorrect == Spec => []TypeOK
<1>1. Typed => TypeOK
  BY DEF Typed
<1> QED
  BY <1>1, TypedInit, TypedStep, PTL DEF Spec

-----------------------------------------------------------------------------
(* The inductive invariant, in parts.                                      *)

\* An instance that has not selected a driver, or is not there, holds nothing.
Unlisted ==
  \A i \in Instances \ g_InstanceList :
    /\ m_hModule[i] = NULL /\ m_pIBon[i] = NULL /\ m_hTsRead[i] = NULL
    /\ m_bTunerOpen[i] = FALSE /\ m_bChannelLock[i] = 0

\* One that has selected holds a library, which is mapped; with DisableUnload
\* the names kept loaded stay mapped.
Libraries ==
  /\ \A m \in Modules : mapped[m] >= 0
  /\ \A i \in g_InstanceList : m_hModule[i] # NULL /\ mapped[m_hModule[i]] > 0
  /\ \A n \in g_LoadedDriverList : mapped[ModuleOf[n]] > 0
  /\ ~DisableUnload => g_LoadedDriverList = {}

\* The object an instance holds exists and comes from its library, so that the
\* last instance of a library is the last of the object too.
Objects ==
  \A i \in g_InstanceList :
    m_pIBon[i] # NULL => m_pIBon[i] \in live /\ module[m_pIBon[i]] = m_hModule[i]

\* A reader belongs to instances that have its driver's tuner open.
Holders ==
  \A i \in g_InstanceList :
    m_hTsRead[i] # NULL =>
      /\ m_hTsRead[i] \in running /\ m_bTunerOpen[i]
      /\ readerDriver[m_hTsRead[i]] = m_pIBon[i]

\* The receivers of a reader, running or not, are the instances that hold it.
Receivers ==
  \A a \in Readers, i \in Instances :
    receivers[a][i] = IF m_hTsRead[i] = a THEN 1 ELSE 0

\* A running reader has a holder, and no other reader its driver.
Running ==
  \A a \in running :
    /\ \E i \in g_InstanceList : m_hTsRead[i] = a
    /\ \A b \in running : readerDriver[a] = readerDriver[b] => a = b

\* A lock belongs to an instance with an open tuner, the exclusive one to an
\* instance that asked for it.
Locks ==
  \A i \in g_InstanceList :
    /\ m_bChannelLock[i] # 0 => m_bTunerOpen[i]
    /\ m_bChannelLock[i] = EXCLUSIVE => Prio[i] = EXCLUSIVE

\* A holder of the exclusive lock without a stream has no peer with one.
HolderHasStream ==
  \A h, j \in g_InstanceList :
    /\ m_bChannelLock[h] = EXCLUSIVE /\ m_hTsRead[h] = NULL
    /\ m_pIBon[j] = m_pIBon[h]
    => m_hTsRead[j] = NULL

\* The queue of a reader that does not run is empty, and who is in a queue
\* asked for the exclusive lock.
Queues ==
  /\ \A a \in Readers \ running : waitList[a] = << >>
  /\ \A a \in running : \A k \in 1..Len(waitList[a]) : Prio[waitList[a][k]] = EXCLUSIVE

Shared == Unlisted /\ Libraries /\ Objects /\ OneObjectPerModule /\ OpenIsOpen
Streams == Holders /\ Receivers /\ Running
Locking == Locks /\ ExclusiveLock /\ HolderHasStream /\ Queues /\ WaitersHaveHolder
IInv == Typed /\ Shared /\ Streams /\ Locking

LEMMA IInvInit == Init => IInv
<1> SUFFICES ASSUME Init PROVE IInv
  OBVIOUS
<1>1. Typed
  BY TypedInit
<1>2. Shared
  BY DEF Init, Shared, Unlisted, Libraries, Objects, OneObjectPerModule, OpenIsOpen
<1>3. Streams
  BY NullAssumption DEF Init, Streams, Holders, Receivers, Running, Nobody
<1>4. Locking
  BY DEF Init, Locking, Locks, ExclusiveLock, HolderHasStream, Queues, WaitersHaveHolder
<1> QED
  BY <1>1, <1>2, <1>3, <1>4 DEF IInv

-----------------------------------------------------------------------------
(* Accept, SelectBonDriver, CreateBonDriver, OpenTuner: no reader, no lock.  *)

LEMMA AcceptStep ==
  ASSUME IInv, NEW i \in Instances, Accept(i)
  PROVE  Shared' /\ Streams' /\ Locking'
<1>1. UNCHANGED <<g_InstanceList, instVars, clientVars, libVars, driverVars, readerVars>>
  BY DEF Accept
<1> USE DEF IInv, instVars, clientVars, libVars, driverVars, readerVars
<1>2. Shared'
  BY <1>1 DEF Shared, Unlisted, Libraries, Objects, OneObjectPerModule, OpenIsOpen
<1>3. Streams'
  BY <1>1 DEF Streams, Holders, Receivers, Running
<1>4. Locking'
  BY <1>1 DEF Locking, Locks, ExclusiveLock, HolderHasStream, Queues, WaitersHaveHolder
<1> QED
  BY <1>2, <1>3, <1>4

\* What both ways of selecting have in common: i gets a library X and object Y
\* that an instance of the same library already had, if any.
LEMMA SelectStep ==
  ASSUME IInv, NEW i \in Instances, NEW n \in Names, SelectBonDriver(i, n)
  PROVE  Shared' /\ Streams' /\ Locking'
<1> USE DEF IInv
<1>1. /\ i \notin g_InstanceList /\ g_InstanceList' = g_InstanceList \cup {i}
      /\ UNCHANGED <<m_bTunerOpen, m_hTsRead, m_bChannelLock, bBonDriver, bTuner, live, module,
                     tunerOpen, channel, running, readerDriver, receivers, waitList>>
  BY DEF SelectBonDriver, clientVars, driverVars, readerVars
<1>2. /\ m_hModule[i] = NULL /\ m_pIBon[i] = NULL /\ m_hTsRead[i] = NULL
      /\ m_bTunerOpen[i] = FALSE /\ m_bChannelLock[i] = 0
  BY <1>1 DEF Shared, Unlisted
<1>3. \E X \in Modules, Y \in Drivers \cup {NULL} :
        /\ m_hModule' = [m_hModule EXCEPT ![i] = X]
        /\ m_pIBon' = [m_pIBon EXCEPT ![i] = Y]
        /\ Y # NULL => \E j \in g_InstanceList : m_hModule[j] = X /\ m_pIBon[j] = Y
        /\ mapped'[X] > 0
        /\ \A m \in Modules : mapped'[m] >= mapped[m]
        /\ \A k \in g_LoadedDriverList' : mapped'[ModuleOf[k]] > 0
        /\ ~DisableUnload => g_LoadedDriverList' = {}
  <2>1. CASE \E j \in g_InstanceList : SelectShared(i, j)
    <3> PICK j \in g_InstanceList : SelectShared(i, j)
      BY <2>1
    <3>1. /\ m_hModule' = [m_hModule EXCEPT ![i] = m_hModule[j]]
          /\ m_pIBon' = [m_pIBon EXCEPT ![i] = m_pIBon[j]]
          /\ UNCHANGED <<mapped, g_LoadedDriverList>>
      BY DEF SelectShared, libVars
    <3>2. /\ m_hModule[j] \in Modules /\ m_pIBon[j] \in Drivers \cup {NULL}
          /\ mapped[m_hModule[j]] > 0
      BY DEF Typed, TypeOK, Shared, Libraries
    <3>3. /\ \A k \in g_LoadedDriverList : mapped[ModuleOf[k]] > 0
          /\ ~DisableUnload => g_LoadedDriverList = {}
          /\ \A m \in Modules : mapped'[m] >= mapped[m]
      BY <3>1 DEF Typed, TypeOK, Shared, Libraries
    <3> USE <3>2
    <3> WITNESS m_hModule[j] \in Modules, m_pIBon[j] \in Drivers \cup {NULL}
    <3> QED
      BY <3>1, <3>2, <3>3
  <2>2. CASE SelectLoad(i, n)
    <3>1. ModuleOf[n] \in Modules /\ \A k \in g_LoadedDriverList : ModuleOf[k] \in Modules
      BY ModuleAssumption DEF Typed, TypeOK
    <3>2. /\ mapped'[ModuleOf[n]] > 0
          /\ \A m \in Modules : mapped'[m] >= mapped[m] /\ mapped[m] \in Int /\ mapped'[m] \in Int
      BY <2>2, <3>1 DEF SelectLoad, Typed, TypeOK, Shared, Libraries
    <3>3. /\ \A k \in g_LoadedDriverList' : mapped'[ModuleOf[k]] > 0
          /\ ~DisableUnload => g_LoadedDriverList' = {}
      BY <2>2, <3>1, <3>2 DEF SelectLoad, Shared, Libraries
    <3>4. /\ m_hModule' = [m_hModule EXCEPT ![i] = ModuleOf[n]]
          /\ m_pIBon' = [m_pIBon EXCEPT ![i] = NULL]
      BY <1>2, <2>2 DEF SelectLoad, Typed, TypeOK
    <3> QED
      BY <3>1, <3>2, <3>3, <3>4
  <2> QED
    BY <2>1, <2>2 DEF SelectBonDriver
<1> PICK X \in Modules, Y \in Drivers \cup {NULL} :
        /\ m_hModule' = [m_hModule EXCEPT ![i] = X]
        /\ m_pIBon' = [m_pIBon EXCEPT ![i] = Y]
        /\ Y # NULL => \E j \in g_InstanceList : m_hModule[j] = X /\ m_pIBon[j] = Y
        /\ mapped'[X] > 0
        /\ \A m \in Modules : mapped'[m] >= mapped[m]
        /\ \A k \in g_LoadedDriverList' : mapped'[ModuleOf[k]] > 0
        /\ ~DisableUnload => g_LoadedDriverList' = {}
  BY <1>3
<1>4. /\ m_hModule'[i] = X /\ m_pIBon'[i] = Y
      /\ \A j \in g_InstanceList : j # i /\ m_hModule'[j] = m_hModule[j] /\ m_pIBon'[j] = m_pIBon[j]
      /\ \A j \in Instances \ {i} : m_hModule'[j] = m_hModule[j] /\ m_pIBon'[j] = m_pIBon[j]
  BY <1>1 DEF Typed, TypeOK
<1>5. Shared'
  <2>1. Unlisted'
    BY <1>1, <1>4 DEF Shared, Unlisted
  <2>2. Libraries'
    <3>1. \A j \in g_InstanceList : m_hModule[j] \in Modules
      BY DEF Typed, TypeOK, Shared, Libraries
    <3>2. mapped' \in [Modules -> Int] /\ mapped \in [Modules -> Int]
      BY TypedStep DEF Next, Typed, TypeOK
    <3> QED
      BY <1>1, <1>4, <3>1, <3>2, NullAssumption DEF Shared, Libraries
  <2>3. Objects'
    BY <1>1, <1>4 DEF Shared, Objects
  <2>4. OneObjectPerModule'
    BY <1>1, <1>4 DEF Shared, OneObjectPerModule
  <2>5. OpenIsOpen'
    BY <1>1, <1>2, <1>4 DEF Shared, OpenIsOpen
  <2> QED
    BY <2>1, <2>2, <2>3, <2>4, <2>5 DEF Shared
<1>6. Streams'
  BY <1>1, <1>2, <1>4 DEF Streams, Holders, Receivers, Running
<1>7. Locking'
  <2>1. Locks'
    BY <1>1, <1>2 DEF Locking, Locks, EXCLUSIVE
  <2>2. ExclusiveLock'
    BY <1>1, <1>2, <1>4 DEF Locking, ExclusiveLock, EXCLUSIVE
  <2>3. HolderHasStream'
    BY <1>1, <1>2, <1>4 DEF Locking, HolderHasStream, EXCLUSIVE
  <2>4. Queues' /\ WaitersHaveHolder'
    BY <1>1 DEF Locking, Queues, WaitersHaveHolder
  <2> QED
    BY <2>1, <2>2, <2>3, <2>4 DEF Locking
<1> QED
  BY <1>5, <1>6, <1>7

LEMMA CreateStep ==
  ASSUME IInv, NEW i \in Instances, CreateBonDriver(i)
  PROVE  Shared' /\ Streams' /\ Locking'
<1> USE DEF IInv
<1>1. /\ i \in g_InstanceList \ bBonDriver
      /\ UNCHANGED <<g_InstanceList, m_hModule, m_bTunerOpen, m_hTsRead, m_bChannelLock, bTuner,
                     mapped, g_LoadedDriverList, running, readerDriver, receivers, waitList>>
  BY DEF CreateBonDriver, libVars, readerVars
<1>2. m_bTunerOpen[i] = FALSE /\ m_hTsRead[i] = NULL /\ m_bChannelLock[i] = 0
  <2>1. m_bTunerOpen[i] = FALSE
    BY <1>1 DEF Shared, OpenIsOpen, Typed, TypeOK
  <2> QED
    BY <1>1, <2>1 DEF Streams, Holders, Locking, Locks
<1>3. \/ UNCHANGED <<m_pIBon, live, module, tunerOpen>>
      \/ \E Y \in Drivers :
           /\ m_pIBon[i] = NULL
           /\ m_pIBon' = [m_pIBon EXCEPT ![i] = Y]
           /\ tunerOpen' = tunerOpen
           /\ Y \in live' /\ live \subseteq live' /\ module'[Y] = m_hModule[i]
           /\ \A d \in live : module'[d] = module[d]
           /\ \A k \in g_InstanceList \ {i} : m_hModule[k] = m_hModule[i] => m_pIBon[k] \in {NULL, Y}
  <2>1. CASE CreateShared(i)
    <3>1. CASE m_pIBon' = m_pIBon
      BY <2>1, <3>1 DEF CreateShared, driverVars
    <3>2. CASE \E j \in SameModule(i) : /\ m_pIBon[i] = NULL /\ m_pIBon[j] # NULL
                                        /\ m_pIBon' = [m_pIBon EXCEPT ![i] = m_pIBon[j]]
      <4> PICK j \in SameModule(i) : /\ m_pIBon[i] = NULL /\ m_pIBon[j] # NULL
                                     /\ m_pIBon' = [m_pIBon EXCEPT ![i] = m_pIBon[j]]
        BY <3>2
      <4>1. j \in g_InstanceList /\ m_hModule[j] = m_hModule[i] /\ m_pIBon[j] \in Drivers
        BY DEF SameModule, Typed, TypeOK
      <4>2. m_pIBon[j] \in live /\ module[m_pIBon[j]] = m_hModule[i]
        BY <4>1 DEF Shared, Objects
      <4>3. \A k \in g_InstanceList : m_hModule[k] = m_hModule[i] => m_pIBon[k] \in {NULL, m_pIBon[j]}
        BY <4>1 DEF Shared, OneObjectPerModule
      <4> QED
        BY <2>1, <4>1, <4>2, <4>3 DEF CreateShared, driverVars
    <3> QED
      BY <2>1, <3>1, <3>2 DEF CreateShared
  <2>2. CASE CreateLoop(i)
    BY <2>2 DEF CreateLoop, driverVars
  <2>3. CASE CreateObject(i)
    <3>1. CASE UNCHANGED <<m_pIBon, bBonDriver, driverVars>>
      BY <3>1 DEF driverVars
    <3>2. CASE \E d \in Drivers \ live : /\ m_pIBon' = [m_pIBon EXCEPT ![i] = d]
                                         /\ live' = live \cup {d}
                                         /\ module' = [module EXCEPT ![d] = m_hModule[i]]
                                         /\ UNCHANGED <<tunerOpen, channel>>
      <4> PICK d \in Drivers \ live : /\ m_pIBon' = [m_pIBon EXCEPT ![i] = d]
                                      /\ live' = live \cup {d}
                                      /\ module' = [module EXCEPT ![d] = m_hModule[i]]
                                      /\ UNCHANGED <<tunerOpen, channel>>
        BY <3>2
      <4>1. m_pIBon[i] = NULL /\ \A k \in g_InstanceList \ {i} : m_hModule[k] = m_hModule[i] => m_pIBon[k] = NULL
        BY <2>3 DEF CreateObject, SameModule
      <4>2. module'[d] = m_hModule[i] /\ \A e \in live : module'[e] = module[e]
        BY DEF Typed, TypeOK
      <4> QED
        BY <4>1, <4>2
    <3> QED
      BY <2>3, <3>1, <3>2 DEF CreateObject
  <2> QED
    BY <2>1, <2>2, <2>3 DEF CreateBonDriver
<1>4. CASE UNCHANGED <<m_pIBon, live, module, tunerOpen>>
  <2>1. Shared'
    BY <1>1, <1>4 DEF Shared, Unlisted, Libraries, Objects, OneObjectPerModule, OpenIsOpen
  <2>2. Streams'
    BY <1>1, <1>4 DEF Streams, Holders, Receivers, Running
  <2>3. Locking'
    BY <1>1, <1>4 DEF Locking, Locks, ExclusiveLock, HolderHasStream, Queues, WaitersHaveHolder
  <2> QED
    BY <2>1, <2>2, <2>3
<1>5. ASSUME NEW Y \in Drivers,
             /\ m_pIBon[i] = NULL
             /\ m_pIBon' = [m_pIBon EXCEPT ![i] = Y]
             /\ tunerOpen' = tunerOpen
             /\ Y \in live' /\ live \subseteq live' /\ module'[Y] = m_hModule[i]
             /\ \A d \in live : module'[d] = module[d]
             /\ \A k \in g_InstanceList \ {i} : m_hModule[k] = m_hModule[i] => m_pIBon[k] \in {NULL, Y}
      PROVE  Shared' /\ Streams' /\ Locking'
  <2>1. m_pIBon'[i] = Y /\ \A j \in Instances \ {i} : m_pIBon'[j] = m_pIBon[j]
    BY <1>5 DEF Typed, TypeOK
  <2>2. g_InstanceList \subseteq Instances
    BY DEF Typed, TypeOK
  <2>3. Shared'
    <3>1. Unlisted' /\ Libraries'
      BY <1>1, <2>1, <2>2 DEF Shared, Unlisted, Libraries
    <3>2. Objects'
      BY <1>1, <1>5, <2>1, <2>2 DEF Shared, Objects
    <3>3. OneObjectPerModule'
      BY <1>1, <1>5, <2>1, <2>2 DEF Shared, OneObjectPerModule
    <3>4. OpenIsOpen'
      BY <1>1, <1>2, <1>5, <2>1, <2>2 DEF Shared, OpenIsOpen
    <3> QED
      BY <3>1, <3>2, <3>3, <3>4 DEF Shared
  <2>4. Streams'
    BY <1>1, <1>2, <2>1, <2>2 DEF Streams, Holders, Receivers, Running
  <2>5. Locking'
    <3>1. Locks' /\ Queues' /\ WaitersHaveHolder'
      BY <1>1 DEF Locking, Locks, Queues, WaitersHaveHolder
    <3>2. ExclusiveLock'
      BY <1>1, <1>2, <2>1, <2>2 DEF Locking, ExclusiveLock, EXCLUSIVE
    <3>3. HolderHasStream'
      BY <1>1, <1>2, <2>1, <2>2 DEF Locking, HolderHasStream, EXCLUSIVE
    <3> QED
      BY <3>1, <3>2, <3>3 DEF Locking
  <2> QED
    BY <2>3, <2>4, <2>5
<1> QED
  BY <1>3, <1>4, <1>5

LEMMA OpenStep ==
  ASSUME IInv, ~ReopenMayFail, NEW i \in Instances, OpenTuner(i)
  PROVE  Shared' /\ Streams' /\ Locking'
<1> USE DEF IInv
<1>1. /\ i \in bBonDriver /\ i \in g_InstanceList /\ m_pIBon[i] \in Drivers
      /\ UNCHANGED <<g_InstanceList, m_hModule, m_pIBon, m_hTsRead, m_bChannelLock, mapped,
                     g_LoadedDriverList, live, module, running, readerDriver, receivers, waitList>>
  BY DEF OpenTuner, libVars, readerVars, Typed, TypeOK, HasObject
<1>2. PICK b \in BOOLEAN :
        /\ m_bTunerOpen' = [m_bTunerOpen EXCEPT ![i] = b]
        /\ bTuner' = IF b THEN bTuner \cup {i} ELSE bTuner
        /\ m_bTunerOpen[i] => b
        /\ b => m_pIBon[i] \in tunerOpen'
        /\ tunerOpen \subseteq tunerOpen'
  <2>1. m_bTunerOpen[i] => m_pIBon[i] \in tunerOpen
    BY <1>1 DEF Shared, OpenIsOpen
  <2>2. ASSUME NEW j \in Peers(i), m_bTunerOpen[j]
        PROVE  m_pIBon[i] \in tunerOpen
    BY <2>2 DEF Peers, Shared, OpenIsOpen
  <2> QED
    BY <1>1, <2>1, <2>2 DEF OpenTuner
<1>3. m_bTunerOpen'[i] = b /\ \A j \in Instances \ {i} : m_bTunerOpen'[j] = m_bTunerOpen[j]
  BY <1>2 DEF Typed, TypeOK
<1>4. g_InstanceList \subseteq Instances
  BY DEF Typed, TypeOK
<1>5. Shared'
  <2>1. Unlisted' /\ Libraries' /\ Objects' /\ OneObjectPerModule'
    BY <1>1, <1>3 DEF Shared, Unlisted, Libraries, Objects, OneObjectPerModule
  <2>2. OpenIsOpen'
    BY <1>1, <1>2, <1>3, <1>4 DEF Shared, OpenIsOpen
  <2> QED
    BY <2>1, <2>2 DEF Shared
<1>6. Streams'
  BY <1>1, <1>2, <1>3, <1>4 DEF Streams, Holders, Receivers, Running
<1>7. Locking'
  <2>1. Locks'
    BY <1>1, <1>2, <1>3, <1>4 DEF Locking, Locks
  <2>2. ExclusiveLock' /\ HolderHasStream' /\ Queues' /\ WaitersHaveHolder'
    BY <1>1 DEF Locking, ExclusiveLock, HolderHasStream, Queues, WaitersHaveHolder
  <2> QED
    BY <2>1, <2>2 DEF Locking
<1> QED
  BY <1>5, <1>6, <1>7

-----------------------------------------------------------------------------
(* CloseTuner and the destructor: an instance leaves its reader.            *)

\* Without drops i from a queue it occurs in once, and nothing else.
LEMMA WithoutElements ==
  ASSUME NEW q \in Seq(Instances), NEW i \in Instances,
         \A k, l \in 1..Len(q) : q[k] = q[l] => k = l
  PROVE  LET w == Without(q, i)
         IN  /\ \A k \in 1..Len(w) : w[k] # i /\ \E l \in 1..Len(q) : w[k] = q[l]
             /\ \A k, l \in 1..Len(w) : w[k] = w[l] => k = l
<1>1. CASE \E k \in 1..Len(q) : q[k] = i
  <2> DEFINE at == CHOOSE k \in 1..Len(q) : q[k] = i
             w == [k \in 1..(Len(q) - 1) |-> IF k < at THEN q[k] ELSE q[k + 1]]
  <2>1. at \in 1..Len(q) /\ q[at] = i
    BY <1>1
  <2>2. Len(q) \in Nat /\ Len(q) - 1 \in Nat
    BY <2>1, LenProperties
  <2>3. Without(q, i) = w
    BY <1>1 DEF Without
  <2>4. DOMAIN w = 1..(Len(q) - 1) /\ Len(w) = Len(q) - 1
    BY <2>2
  <2> HIDE DEF at
  <2>5. ASSUME NEW k \in 1..Len(w)
        PROVE  \E l \in 1..Len(q) : l # at /\ w[k] = q[l] /\ l = (IF k < at THEN k ELSE k + 1)
    <3>1. k \in 1..(Len(q) - 1)
      BY <2>4
    <3>2. CASE k < at
      BY <2>2, <3>1, <3>2
    <3>3. CASE ~(k < at)
      BY <2>1, <2>2, <3>1, <3>3
    <3> QED
      BY <3>2, <3>3
  <2>6. \A k \in 1..Len(w) : w[k] # i /\ \E l \in 1..Len(q) : w[k] = q[l]
    BY <2>1, <2>5
  <2>7. ASSUME NEW k \in 1..Len(w), NEW l \in 1..Len(w), w[k] = w[l]
        PROVE  k = l
    <3>1. (IF k < at THEN k ELSE k + 1) = (IF l < at THEN l ELSE l + 1)
      BY <2>5, <2>7
    <3> QED
      BY <2>1, <2>2, <2>4, <3>1
  <2> HIDE DEF w
  <2> QED
    BY <2>3, <2>6, <2>7
<1>2. CASE ~ \E k \in 1..Len(q) : q[k] = i
  BY <1>2 DEF Without
<1> QED
  BY <1>1, <1>2

\* The instances that hold one reader use its driver, with the tuner open.
LEMMA ReaderMates ==
  ASSUME IInv, NEW i \in Instances, NEW j \in Instances,
         m_hTsRead[i] # NULL, m_hTsRead[j] = m_hTsRead[i]
  PROVE  /\ i \in g_InstanceList /\ j \in g_InstanceList
         /\ m_hTsRead[i] \in running /\ m_hTsRead[i] \in Readers
         /\ m_bTunerOpen[i] /\ m_bTunerOpen[j]
         /\ m_pIBon[i] = readerDriver[m_hTsRead[i]] /\ m_pIBon[j] = m_pIBon[i]
         /\ m_pIBon[i] \in Drivers
<1>1. i \in g_InstanceList /\ j \in g_InstanceList
  BY DEF IInv, Shared, Unlisted
<1>2. /\ m_hTsRead[i] \in running /\ m_bTunerOpen[i] /\ m_bTunerOpen[j]
      /\ m_pIBon[i] = readerDriver[m_hTsRead[i]] /\ m_pIBon[j] = m_pIBon[i]
  BY <1>1 DEF IInv, Streams, Holders
<1>3. m_pIBon[i] \in Drivers
  BY <1>1, <1>2 DEF IInv, Typed, TypeOK, HasObject, Shared, OpenIsOpen
<1> QED
  BY <1>1, <1>2, <1>3 DEF IInv, Typed, TypeOK

\* What the two ways of leaving have in common, whether the instance closes its
\* tuner or is destroyed.
Leaving(i) ==
  /\ m_hTsRead' = [m_hTsRead EXCEPT ![i] = NULL]
  /\ m_bTunerOpen' = [m_bTunerOpen EXCEPT ![i] = FALSE]
  /\ g_InstanceList' \subseteq g_InstanceList /\ g_InstanceList \ {i} \subseteq g_InstanceList'
  /\ \A j \in Instances \ {i} : m_pIBon'[j] = m_pIBon[j]

\* The last user of a tuner stops its reader.
LeavingLast(i) ==
  /\ IF m_hTsRead[i] # NULL THEN StopReader(m_hTsRead[i]) ELSE UNCHANGED readerVars
  /\ m_bChannelLock' = LockAfterLeaving(i, NULL)
  /\ m_hTsRead[i] # NULL => \A j \in Instances \ {i} : m_hTsRead[j] # m_hTsRead[i]

\* Any other user leaves it to the rest.
LeavingShared(i) ==
  /\ IF m_hTsRead[i] # NULL THEN Unsubscribe(i, m_hTsRead[i]) ELSE UNCHANGED readerVars
  /\ m_bChannelLock' = LockAfterLeaving(i, m_hTsRead[i])

\* What leaving does to the readers: the reader of i stops if i was its last
\* receiver, and goes on without i otherwise.
LEMMA LeavingReaders ==
  ASSUME IInv, NEW i \in Instances, Leaving(i), LeavingLast(i) \/ LeavingShared(i)
  PROVE  \/ m_hTsRead[i] = NULL /\ UNCHANGED readerVars
         \/ /\ m_hTsRead[i] # NULL /\ StopReader(m_hTsRead[i])
            /\ \A j \in Instances \ {i} : m_hTsRead[j] # m_hTsRead[i]
         \/ /\ m_hTsRead[i] # NULL /\ LeavingShared(i)
            /\ \E j \in Instances \ {i} : m_hTsRead[j] = m_hTsRead[i]
            /\ receivers' = [receivers EXCEPT ![m_hTsRead[i]][i] = 0]
            /\ waitList' = [waitList EXCEPT ![m_hTsRead[i]] =
                              IF m_bChannelLock[i] # EXCLUSIVE THEN Without(@, i)
                              ELSE IF @ = << >> THEN @ ELSE Tail(@)]
            /\ UNCHANGED <<running, readerDriver>>
<1>1. CASE m_hTsRead[i] = NULL
  BY <1>1 DEF LeavingLast, LeavingShared
<1>2. CASE m_hTsRead[i] # NULL /\ LeavingLast(i)
  BY <1>2 DEF LeavingLast
<1>3. CASE m_hTsRead[i] # NULL /\ LeavingShared(i)
  <2> DEFINE a == m_hTsRead[i]
             left == [receivers[a] EXCEPT ![i] = IF @ > 0 THEN @ - 1 ELSE 0]
  <2>1. a \in Readers /\ receivers \in [Readers -> [Instances -> Nat]]
    BY <1>3 DEF IInv, Typed, TypeOK
  <2>2. \A j \in Instances : receivers[a][j] = IF m_hTsRead[j] = a THEN 1 ELSE 0
    BY <2>1 DEF IInv, Streams, Receivers
  <2>3. left \in [Instances -> Nat] /\ left[i] = 0 /\ \A j \in Instances \ {i} : left[j] = receivers[a][j]
    BY <2>1, <2>2
  <2>4. left = [receivers[a] EXCEPT ![i] = 0]
    BY <2>1, <2>2
  <2>5. Unsubscribe(i, a)
    BY <1>3 DEF LeavingShared
  <2>6. CASE left = Nobody
    <3>1. StopReader(a)
      BY <2>5, <2>6 DEF Unsubscribe
    <3>2. \A j \in Instances \ {i} : left[j] = 0
      BY <2>6 DEF Nobody
    <3>3. \A j \in Instances \ {i} : m_hTsRead[j] # a
      BY <2>2, <2>3, <3>2
    <3> QED
      BY <1>3, <3>1, <3>3
  <2>7. CASE left # Nobody
    <3>1. /\ receivers' = [receivers EXCEPT ![a] = left]
          /\ waitList' = [waitList EXCEPT ![a] =
                             IF m_bChannelLock[i] # EXCLUSIVE THEN Without(@, i)
                             ELSE IF @ = << >> THEN @ ELSE Tail(@)]
          /\ UNCHANGED <<running, readerDriver>>
      BY <2>5, <2>7 DEF Unsubscribe
    <3>2. receivers' = [receivers EXCEPT ![a][i] = 0]
      BY <2>4, <3>1
    <3>3. \E j \in Instances : left[j] # 0
      <4>1. SUFFICES ASSUME \A j \in Instances : left[j] = 0 PROVE FALSE
        OBVIOUS
      <4>2. left = Nobody
        BY <2>3, <4>1 DEF Nobody
      <4> QED
        BY <2>7, <4>2
    <3>4. \E j \in Instances \ {i} : m_hTsRead[j] = a
      BY <2>2, <2>3, <3>3
    <3> QED
      BY <1>3, <3>1, <3>2, <3>4
  <2> QED
    BY <2>6, <2>7
<1> QED
  BY <1>1, <1>2, <1>3

LEMMA LeavingStreams ==
  ASSUME IInv, NEW i \in Instances, Leaving(i), LeavingLast(i) \/ LeavingShared(i)
  PROVE  Streams'
<1> DEFINE a == m_hTsRead[i]
<1>1. /\ m_hTsRead'[i] = NULL /\ \A j \in Instances \ {i} : m_hTsRead'[j] = m_hTsRead[j]
      /\ m_bTunerOpen'[i] = FALSE
      /\ \A j \in Instances \ {i} : m_bTunerOpen'[j] = m_bTunerOpen[j]
      /\ \A j \in Instances \ {i} : m_pIBon'[j] = m_pIBon[j]
  BY DEF Leaving, IInv, Typed, TypeOK
<1>2. /\ g_InstanceList' \subseteq g_InstanceList /\ g_InstanceList \ {i} \subseteq g_InstanceList'
      /\ g_InstanceList \subseteq Instances
  BY DEF Leaving, IInv, Typed, TypeOK
<1>3. Holders /\ Receivers /\ Running
  BY DEF IInv, Streams
<1>4. running \subseteq Readers /\ receivers \in [Readers -> [Instances -> Nat]]
      /\ readerDriver \in [Readers -> Drivers \cup {NULL}] /\ a \in Readers \cup {NULL}
  BY DEF IInv, Typed, TypeOK
<1>5. CASE a = NULL /\ UNCHANGED readerVars
  BY <1>1, <1>2, <1>3, <1>4, <1>5, NullAssumption DEF readerVars, Streams, Holders, Receivers, Running
<1>6. CASE /\ a # NULL /\ StopReader(a)
           /\ \A j \in Instances \ {i} : m_hTsRead[j] # a
  <2>1. /\ running' = running \ {a}
        /\ \A b \in Readers \ {a} : readerDriver'[b] = readerDriver[b] /\ receivers'[b] = receivers[b]
        /\ \A j \in Instances : receivers'[a][j] = 0
    BY <1>4, <1>6 DEF StopReader, Nobody
  <2>2. Holders'
    BY <1>1, <1>2, <1>3, <1>4, <1>6, <2>1 DEF Holders
  <2>3. Receivers'
    BY <1>1, <1>3, <1>4, <1>6, <2>1, NullAssumption DEF Receivers
  <2>4. Running'
    BY <1>1, <1>2, <1>3, <1>4, <2>1 DEF Running
  <2> QED
    BY <2>2, <2>3, <2>4 DEF Streams
<1>7. CASE /\ a # NULL
           /\ \E j \in Instances \ {i} : m_hTsRead[j] = a
           /\ receivers' = [receivers EXCEPT ![a][i] = 0]
           /\ UNCHANGED <<running, readerDriver>>
  <2>1. /\ receivers'[a][i] = 0
        /\ \A j \in Instances \ {i} : receivers'[a][j] = receivers[a][j]
        /\ \A b \in Readers \ {a} : receivers'[b] = receivers[b]
    BY <1>4, <1>7
  <2>2. Holders'
    BY <1>1, <1>2, <1>3, <1>7 DEF Holders
  <2>3. Receivers'
    BY <1>1, <1>3, <1>4, <1>7, <2>1, NullAssumption DEF Receivers
  <2>4. Running'
    <3> SUFFICES ASSUME NEW b \in running PROVE \E j \in g_InstanceList' : m_hTsRead'[j] = b
      BY <1>3, <1>7 DEF Running
    <3>1. CASE b = a
      <4> PICK j \in Instances \ {i} : m_hTsRead[j] = a
        BY <1>7
      <4>1. j \in g_InstanceList
        BY <1>7 DEF IInv, Shared, Unlisted
      <4> QED
        BY <1>1, <1>2, <3>1, <4>1
    <3>2. CASE b # a
      BY <1>1, <1>2, <1>3, <3>2 DEF Running
    <3> QED
      BY <3>1, <3>2
  <2> QED
    BY <2>2, <2>3, <2>4 DEF Streams
<1> QED
  BY <1>5, <1>6, <1>7, LeavingReaders

\* The lock i had, if it was exclusive, goes to the head of the queue of its
\* reader, a waiter, and to nobody if nobody waits; no other lock changes.
LEMMA LeavingLocks ==
  ASSUME IInv, NEW i \in Instances, Leaving(i), LeavingLast(i) \/ LeavingShared(i)
  PROVE  /\ m_bChannelLock'[i] = 0
         /\ \/ /\ \A j \in Instances \ {i} : m_bChannelLock'[j] = m_bChannelLock[j]
               /\ LeavingShared(i) /\ m_hTsRead[i] # NULL /\ m_bChannelLock[i] = EXCLUSIVE
                    => LeavingLast(i) \/ waitList[m_hTsRead[i]] = << >>
            \/ \E h \in Instances \ {i} :
                 /\ m_hTsRead[i] # NULL /\ m_bChannelLock[i] = EXCLUSIVE
                 /\ waitList[m_hTsRead[i]] # << >> /\ h = waitList[m_hTsRead[i]][1]
                 /\ m_hTsRead[h] = m_hTsRead[i] /\ Prio[h] = EXCLUSIVE
                 /\ m_bChannelLock'[h] = EXCLUSIVE
                 /\ \A j \in Instances \ {i, h} : m_bChannelLock'[j] = m_bChannelLock[j]
<1> DEFINE a == m_hTsRead[i]
           h == Heir(i, a)
<1>1. CASE LeavingLast(i)
  BY <1>1 DEF LeavingLast, LockAfterLeaving
<1>2. CASE LeavingShared(i)
  <2>1. m_bChannelLock' = LockAfterLeaving(i, a)
    BY <1>2 DEF LeavingShared
  <2>2. CASE a = NULL \/ m_bChannelLock[i] # EXCLUSIVE \/ waitList[a] = << >>
    BY <2>1, <2>2, NullAssumption DEF LockAfterLeaving, Heir
  <2>3. CASE a # NULL /\ m_bChannelLock[i] = EXCLUSIVE /\ waitList[a] # << >>
    <3>1. a \in Readers /\ waitList[a] \in Seq(Instances)
      BY <2>3 DEF IInv, Typed, TypeOK
    <3>2. a \in running
      BY <2>3, <3>1, ReaderMates
    <3>3. 1 \in 1..Len(waitList[a]) /\ h = waitList[a][1]
      BY <2>3, <3>1, EmptySeq, LenProperties DEF Heir
    <3>4. /\ h \in Instances /\ m_hTsRead[h] = a /\ m_bChannelLock[h] = WAITING
          /\ Prio[h] = EXCLUSIVE
      BY <3>1, <3>2, <3>3, ElementOfSeq DEF IInv, Locking, Queues, WaitersHaveHolder
    <3>5. h # i
      BY <2>3, <3>4 DEF EXCLUSIVE, WAITING
    <3>6. /\ m_bChannelLock'[i] = 0 /\ m_bChannelLock'[h] = EXCLUSIVE
          /\ \A j \in Instances \ {i, h} : m_bChannelLock'[j] = m_bChannelLock[j]
      <4> HIDE DEF h
      <4> QED
        BY <2>1, <2>3, <3>4, <3>5 DEF LockAfterLeaving, h
    <3> QED
      BY <2>3, <3>3, <3>4, <3>5, <3>6
  <2> QED
    BY <2>2, <2>3
<1> QED
  BY <1>1, <1>2

LEMMA LeavingLocking ==
  ASSUME IInv, NEW i \in Instances, Leaving(i), LeavingLast(i) \/ LeavingShared(i)
  PROVE  Locking'
<1> DEFINE a == m_hTsRead[i]
           NoHeir == /\ \A j \in Instances \ {i} : m_bChannelLock'[j] = m_bChannelLock[j]
                     /\ LeavingShared(i) /\ a # NULL /\ m_bChannelLock[i] = EXCLUSIVE
                          => LeavingLast(i) \/ waitList[a] = << >>
           IsHeir(h) == /\ a # NULL /\ m_bChannelLock[i] = EXCLUSIVE
                        /\ waitList[a] # << >> /\ h = waitList[a][1]
                        /\ m_hTsRead[h] = a /\ Prio[h] = EXCLUSIVE
                        /\ m_bChannelLock'[h] = EXCLUSIVE
                        /\ \A j \in Instances \ {i, h} : m_bChannelLock'[j] = m_bChannelLock[j]
<1>1. /\ m_hTsRead'[i] = NULL /\ \A j \in Instances \ {i} : m_hTsRead'[j] = m_hTsRead[j]
      /\ \A j \in Instances \ {i} : m_bTunerOpen'[j] = m_bTunerOpen[j]
      /\ \A j \in Instances \ {i} : m_pIBon'[j] = m_pIBon[j]
  BY DEF Leaving, IInv, Typed, TypeOK
<1>2. /\ g_InstanceList' \subseteq g_InstanceList /\ g_InstanceList \ {i} \subseteq g_InstanceList'
      /\ g_InstanceList \subseteq Instances
  BY DEF Leaving, IInv, Typed, TypeOK
<1>3. Locks /\ ExclusiveLock /\ HolderHasStream /\ Queues /\ WaitersHaveHolder
  BY DEF IInv, Locking
<1>4. /\ m_bChannelLock'[i] = 0 /\ EXCLUSIVE # 0
      /\ NoHeir \/ \E h \in Instances \ {i} : IsHeir(h)
  BY LeavingLocks DEF EXCLUSIVE
<1>5. running \subseteq Readers /\ waitList \in [Readers -> Seq(Instances)] /\ a \in Readers \cup {NULL}
  BY DEF IInv, Typed, TypeOK
\* The heir, if any, is of the same driver, with the tuner open.
<1>6. ASSUME NEW h \in Instances \ {i}, IsHeir(h)
      PROVE  /\ h \in g_InstanceList /\ i \in g_InstanceList /\ m_bTunerOpen[h]
             /\ m_pIBon[h] = m_pIBon[i] /\ m_hTsRead[h] # NULL
  BY <1>6, ReaderMates
<1> HIDE DEF a
<1>7. Locks'
  <2>1. CASE NoHeir
    BY <1>1, <1>2, <1>3, <1>4, <2>1 DEF Locks
  <2>2. ASSUME NEW h \in Instances \ {i}, IsHeir(h) PROVE Locks'
    BY <1>1, <1>2, <1>3, <1>4, <1>6, <2>2 DEF Locks
  <2> QED
    BY <1>4, <2>1, <2>2
<1>8. ExclusiveLock'
  <2>1. CASE NoHeir
    BY <1>1, <1>2, <1>3, <1>4, <2>1 DEF ExclusiveLock
  <2>2. ASSUME NEW h \in Instances \ {i}, IsHeir(h) PROVE ExclusiveLock'
    <3>1. \A j \in g_InstanceList \ {i, h} : m_bChannelLock[j] = EXCLUSIVE => m_pIBon[j] # m_pIBon[h]
      BY <1>3, <1>6, <2>2 DEF ExclusiveLock
    <3> QED
      BY <1>1, <1>2, <1>3, <1>4, <2>2, <3>1 DEF ExclusiveLock
  <2> QED
    BY <1>4, <2>1, <2>2
<1>9. HolderHasStream'
  <2>1. CASE NoHeir
    BY <1>1, <1>2, <1>3, <1>4, <2>1 DEF HolderHasStream
  <2>2. ASSUME NEW h \in Instances \ {i}, IsHeir(h) PROVE HolderHasStream'
    BY <1>1, <1>2, <1>3, <1>4, <1>6, <2>2 DEF HolderHasStream
  <2> QED
    BY <1>4, <2>1, <2>2
\* The queues: those of other readers do not change and do not contain i.
<1>10. ASSUME NEW b \in running, b # a, waitList'[b] = waitList[b], NEW k \in 1..Len(waitList[b])
       PROVE  LET w == waitList[b][k]
              IN  /\ w \in Instances \ {i} /\ m_hTsRead'[w] = b /\ m_bChannelLock'[w] = WAITING
                  /\ \E h \in g_InstanceList' : m_hTsRead'[h] = b /\ m_bChannelLock'[h] = EXCLUSIVE
  <2> DEFINE w == waitList[b][k]
  <2>1. w \in Instances /\ m_hTsRead[w] = b /\ m_bChannelLock[w] = WAITING /\ w # i
    BY <1>3, <1>5, <1>10, ElementOfSeq DEF WaitersHaveHolder, a
  <2>2. PICK h \in g_InstanceList : m_hTsRead[h] = b /\ m_bChannelLock[h] = EXCLUSIVE
    BY <1>3 DEF WaitersHaveHolder
  <2>3. h # i /\ h \in g_InstanceList' /\ h \in Instances
    BY <1>2, <1>10, <2>2 DEF a
  <2>4. m_bChannelLock'[w] = WAITING /\ m_bChannelLock'[h] = EXCLUSIVE
    BY <1>4, <1>10, <2>1, <2>2, <2>3
  <2> HIDE DEF w
  <2>5. m_hTsRead'[w] = b /\ m_hTsRead'[h] = b
    BY <1>1, <2>1, <2>2, <2>3
  <2> QED
    BY <2>1, <2>3, <2>4, <2>5 DEF w
\* The queue of the reader i leaves to others: without i, or without its head.
<1>11. ASSUME a # NULL, LeavingShared(i), \E j \in Instances \ {i} : m_hTsRead[j] = a,
              waitList' = [waitList EXCEPT ![a] =
                             IF m_bChannelLock[i] # EXCLUSIVE THEN Without(@, i)
                             ELSE IF @ = << >> THEN @ ELSE Tail(@)]
       PROVE  \A k \in 1..Len(waitList'[a]) :
                LET w == waitList'[a][k]
                IN  /\ m_hTsRead'[w] = a /\ m_bChannelLock'[w] = WAITING /\ Prio[w] = EXCLUSIVE
                    /\ \A l \in 1..Len(waitList'[a]) : waitList'[a][l] = w => l = k
                    /\ \E h \in g_InstanceList' : m_hTsRead'[h] = a /\ m_bChannelLock'[h] = EXCLUSIVE
  <2> DEFINE q == waitList[a]
  <2>1. a \in Readers /\ a \in running /\ q \in Seq(Instances) /\ Len(q) \in Nat
    BY <1>5, <1>11, ReaderMates, LenProperties DEF a
  <2>2. /\ \A k \in 1..Len(q) : /\ q[k] \in Instances /\ Prio[q[k]] = EXCLUSIVE
                                 /\ m_hTsRead[q[k]] = a /\ m_bChannelLock[q[k]] = WAITING
        /\ \A k, l \in 1..Len(q) : q[k] = q[l] => k = l
    BY <1>3, <2>1, ElementOfSeq DEF Queues, WaitersHaveHolder
  <2>3. CASE m_bChannelLock[i] # EXCLUSIVE
    <3>1. waitList'[a] = Without(q, i)
      BY <1>5, <2>1, <2>3, <1>11
    <3>2. /\ \A k \in 1..Len(Without(q, i)) :
                Without(q, i)[k] # i /\ \E l \in 1..Len(q) : Without(q, i)[k] = q[l]
          /\ \A k, l \in 1..Len(Without(q, i)) : Without(q, i)[k] = Without(q, i)[l] => k = l
      BY <2>1, <2>2, WithoutElements
    <3>3. \A j \in Instances \ {i} : m_bChannelLock'[j] = m_bChannelLock[j]
      BY <1>4, <2>3
    <3>4. ASSUME NEW k \in 1..Len(Without(q, i))
          PROVE  \E h \in g_InstanceList' : m_hTsRead'[h] = a /\ m_bChannelLock'[h] = EXCLUSIVE
      <4>1. \E l \in 1..Len(q) : TRUE
        BY <3>2
      <4> PICK h \in g_InstanceList : m_hTsRead[h] = a /\ m_bChannelLock[h] = EXCLUSIVE
        BY <1>3, <2>1, <4>1 DEF WaitersHaveHolder
      <4> QED
        BY <1>1, <1>2, <2>3, <3>3
    <3>5. ASSUME NEW k \in 1..Len(Without(q, i))
          PROVE  LET w == Without(q, i)[k]
                 IN  m_hTsRead'[w] = a /\ m_bChannelLock'[w] = WAITING /\ Prio[w] = EXCLUSIVE
      <4> PICK l \in 1..Len(q) : Without(q, i)[k] = q[l]
        BY <3>2
      <4>1. q[l] \in Instances \ {i}
        BY <2>2, <3>2
      <4> QED
        BY <1>1, <2>2, <3>3, <4>1
    <3> QED
      BY <3>1, <3>2, <3>4, <3>5
  <2>4. CASE m_bChannelLock[i] = EXCLUSIVE /\ q = << >>
    <3>1. waitList'[a] = << >>
      BY <1>5, <2>1, <2>4, <1>11
    <3> QED
      BY <3>1, EmptySeq
  <2>5. CASE m_bChannelLock[i] = EXCLUSIVE /\ q # << >>
    <3>1. /\ waitList'[a] = Tail(q) /\ Len(Tail(q)) = Len(q) - 1
          /\ \A k \in 1..Len(Tail(q)) : Tail(q)[k] = q[k + 1]
      BY <1>5, <1>11, <2>1, <2>5, HeadTailProperties
    <3>2. ~NoHeir
      BY <1>11, <2>5 DEF LeavingLast, a
    <3>3. PICK h \in Instances \ {i} : IsHeir(h)
      BY <1>4, <3>2
    <3>4. h \in g_InstanceList'
      BY <1>2, <1>6, <3>3
    <3>5. m_hTsRead'[h] = a /\ m_bChannelLock'[h] = EXCLUSIVE
      BY <1>1, <3>3
    <3>6. ASSUME NEW k \in 1..Len(Tail(q))
          PROVE  /\ k + 1 \in 1..Len(q) /\ Tail(q)[k] = q[k + 1]
                 /\ Tail(q)[k] \in Instances \ {i, h}
      <4>1. k + 1 \in 1..Len(q) /\ 1 \in 1..Len(q) /\ k + 1 # 1
        BY <2>1, <3>1
      <4>2. q[k + 1] # q[1] /\ q[k + 1] # i
        BY <2>2, <2>5, <4>1 DEF EXCLUSIVE, WAITING
      <4> QED
        BY <2>2, <3>1, <3>3, <4>1, <4>2
    <3>7. \A k, l \in 1..Len(Tail(q)) : Tail(q)[l] = Tail(q)[k] => l = k
      <4> TAKE k, l \in 1..Len(Tail(q))
      <4>1. q[l + 1] = q[k + 1] => l + 1 = k + 1
        BY <2>2, <3>6
      <4>2. k \in Int /\ l \in Int
        BY <2>1, <3>1
      <4> QED
        BY <3>6, <4>1, <4>2
    <3> QED
      BY <1>1, <2>2, <3>1, <3>3, <3>4, <3>5, <3>6, <3>7
  <2> QED
    BY <2>3, <2>4, <2>5
<1>12. Queues' /\ WaitersHaveHolder'
  <2>1. \/ running' = running /\ waitList' = waitList /\ a = NULL
        \/ /\ a # NULL /\ running' = running \ {a}
           /\ waitList' = [waitList EXCEPT ![a] = << >>]
        \/ /\ a # NULL /\ LeavingShared(i) /\ running' = running
           /\ \E j \in Instances \ {i} : m_hTsRead[j] = a
           /\ waitList' = [waitList EXCEPT ![a] =
                             IF m_bChannelLock[i] # EXCLUSIVE THEN Without(@, i)
                             ELSE IF @ = << >> THEN @ ELSE Tail(@)]
    BY LeavingReaders DEF StopReader, readerVars, a
  <2>2. /\ running' \subseteq running
        /\ \A b \in running' \ {a} : waitList'[b] = waitList[b]
        /\ \A b \in Readers \ running' : waitList'[b] = << >>
    BY <1>3, <1>5, <2>1, ReaderMates, NullAssumption DEF Queues, a
  <2>3. ASSUME NEW b \in running' \ {a}, NEW k \in 1..Len(waitList'[b])
        PROVE  LET w == waitList'[b][k]
               IN  /\ m_hTsRead'[w] = b /\ m_bChannelLock'[w] = WAITING /\ Prio[w] = EXCLUSIVE
                   /\ \A l \in 1..Len(waitList'[b]) : waitList'[b][l] = w => l = k
                   /\ \E h \in g_InstanceList' : m_hTsRead'[h] = b /\ m_bChannelLock'[h] = EXCLUSIVE
    BY <1>3, <1>10, <2>2 DEF Queues, WaitersHaveHolder
  <2>4. ASSUME a \in running', NEW k \in 1..Len(waitList'[a])
        PROVE  LET w == waitList'[a][k]
               IN  /\ m_hTsRead'[w] = a /\ m_bChannelLock'[w] = WAITING /\ Prio[w] = EXCLUSIVE
                   /\ \A l \in 1..Len(waitList'[a]) : waitList'[a][l] = w => l = k
                   /\ \E h \in g_InstanceList' : m_hTsRead'[h] = a /\ m_bChannelLock'[h] = EXCLUSIVE
    BY <1>5, <1>11, <2>1, <2>4, NullAssumption
  <2>5. Queues'
    BY <2>2, <2>3, <2>4 DEF Queues
  <2>6. WaitersHaveHolder'
    BY <2>3, <2>4 DEF WaitersHaveHolder
  <2> QED
    BY <2>5, <2>6
<1> QED
  BY <1>7, <1>8, <1>9, <1>12 DEF Locking

\* CloseTuner leaves the reader as its last user, or leaves it to the others.
LEMMA CloseLeaving ==
  ASSUME IInv, NEW i \in Instances, CloseTuner(i)
  PROVE  Leaving(i) /\ (LeavingLast(i) \/ LeavingShared(i))
<1>1. /\ i \in bTuner /\ i \in g_InstanceList /\ m_pIBon[i] \in Drivers
      /\ m_hTsRead' = [m_hTsRead EXCEPT ![i] = NULL]
      /\ m_bTunerOpen' = [m_bTunerOpen EXCEPT ![i] = FALSE]
      /\ UNCHANGED <<g_InstanceList, m_pIBon>>
  BY DEF CloseTuner, IInv, Typed, TypeOK, HasObject
<1>2. Leaving(i)
  BY <1>1 DEF Leaving
<1>3. ASSUME NEW j \in g_InstanceList \ {i}, m_pIBon[j] = m_pIBon[i]
      PROVE  j \in Peers(i)
  BY <1>1, <1>3, NullAssumption DEF Peers
<1>4. LeavingLast(i) \/ LeavingShared(i)
  <2>1. ASSUME CloseLast(i), m_hTsRead[i] # NULL, NEW j \in Instances \ {i}
        PROVE  m_hTsRead[j] # m_hTsRead[i]
    <3>1. ~(j \in Peers(i) /\ m_bTunerOpen[j])
      BY <2>1 DEF CloseLast
    <3> QED
      BY <1>3, <2>1, <3>1, ReaderMates
  <2> QED
    BY <2>1 DEF CloseTuner, CloseLast, CloseShared, LeavingLast, LeavingShared
<1> QED
  BY <1>2, <1>4

LEMMA CloseStep ==
  ASSUME IInv, NEW i \in Instances, CloseTuner(i)
  PROVE  Shared' /\ Streams' /\ Locking'
<1>1. /\ i \in bTuner /\ i \in g_InstanceList /\ m_pIBon[i] \in Drivers
      /\ m_hTsRead' = [m_hTsRead EXCEPT ![i] = NULL]
      /\ m_bTunerOpen' = [m_bTunerOpen EXCEPT ![i] = FALSE]
      /\ bTuner' = bTuner \ {i}
      /\ UNCHANGED <<g_InstanceList, m_hModule, m_pIBon, mapped, g_LoadedDriverList, live, module>>
  BY DEF CloseTuner, libVars, IInv, Typed, TypeOK, HasObject
<1>2. Leaving(i) /\ (LeavingLast(i) \/ LeavingShared(i))
  BY CloseLeaving
<1>3. ASSUME NEW j \in g_InstanceList \ {i}, m_pIBon[j] = m_pIBon[i]
      PROVE  j \in Peers(i)
  BY <1>1, <1>3, NullAssumption DEF Peers
<1>5. Streams' /\ Locking'
  BY <1>2, LeavingStreams, LeavingLocking
<1>6. /\ m_bTunerOpen'[i] = FALSE
      /\ \A j \in Instances \ {i} : m_bTunerOpen'[j] = m_bTunerOpen[j] /\ m_hTsRead'[j] = m_hTsRead[j]
      /\ g_InstanceList \subseteq Instances
  BY <1>1 DEF IInv, Typed, TypeOK
<1>7. Unlisted'
  <2>1. \A j \in Instances \ g_InstanceList : m_bChannelLock'[j] = 0
    <3> SUFFICES ASSUME NEW j \in Instances \ g_InstanceList PROVE m_bChannelLock'[j] = 0
      OBVIOUS
    <3>1. j # i /\ m_bChannelLock[j] = 0 /\ m_hTsRead[j] = NULL
      BY <1>1 DEF IInv, Shared, Unlisted
    <3> QED
      BY <1>2, <3>1, LeavingLocks
  <2> QED
    BY <1>1, <1>6, <2>1 DEF IInv, Shared, Unlisted
<1>8. Libraries' /\ Objects' /\ OneObjectPerModule'
  BY <1>1 DEF IInv, Shared, Libraries, Objects, OneObjectPerModule
<1>9. OpenIsOpen'
  <2>1. ASSUME NEW j \in g_InstanceList \ {i}, m_bTunerOpen[j]
        PROVE  m_pIBon[j] \in tunerOpen'
    <3>1. m_pIBon[j] \in tunerOpen
      BY <2>1 DEF IInv, Shared, OpenIsOpen
    <3>2. CASE CloseLast(i)
      BY <1>3, <2>1, <3>1, <3>2 DEF CloseLast
    <3>3. CASE CloseShared(i)
      BY <3>1, <3>3 DEF CloseShared
    <3> QED
      BY <3>2, <3>3 DEF CloseTuner
  <2> QED
    BY <1>1, <1>6, <2>1 DEF IInv, Shared, OpenIsOpen
<1> QED
  BY <1>5, <1>7, <1>8, <1>9 DEF Shared

\* The last instance of a library is the last of its object.
LEMMA LastOfLibrary ==
  ASSUME IInv, NEW i \in Instances, DestroyLast(i), NEW j \in g_InstanceList \ {i}
  PROVE  m_hModule[j] # m_hModule[i] /\ (m_pIBon[j] # NULL => m_pIBon[j] # m_pIBon[i])
<1>1. m_hModule[j] # NULL
  BY DEF IInv, Shared, Libraries
<1>2. m_hModule[j] # m_hModule[i]
  BY <1>1 DEF DestroyLast, SameModule
<1>3. CASE i \in g_InstanceList
  BY <1>2, <1>3 DEF IInv, Shared, Objects
<1>4. CASE i \notin g_InstanceList
  BY <1>2, <1>4 DEF IInv, Shared, Unlisted
<1> QED
  BY <1>2, <1>3, <1>4

\* The destructor leaves the reader as its last user, or leaves it to the others.
LEMMA DestroyLeaving ==
  ASSUME IInv, NEW i \in Instances, Destroy(i)
  PROVE  Leaving(i) /\ (LeavingLast(i) \/ LeavingShared(i))
<1>1. /\ g_InstanceList' = g_InstanceList \ {i}
      /\ m_hTsRead' = [m_hTsRead EXCEPT ![i] = NULL]
      /\ m_bTunerOpen' = [m_bTunerOpen EXCEPT ![i] = FALSE]
      /\ \A j \in Instances \ {i} : m_pIBon'[j] = m_pIBon[j]
  BY DEF Destroy, IInv, Typed, TypeOK
<1>2. Leaving(i)
  BY <1>1 DEF Leaving
<1>3. ASSUME DestroyLast(i), m_hTsRead[i] # NULL, NEW j \in Instances \ {i}
      PROVE  m_hTsRead[j] # m_hTsRead[i]
  BY <1>3, LastOfLibrary, ReaderMates, NullAssumption
<1> QED
  BY <1>2, <1>3 DEF Destroy, DestroyLast, DestroyShared, LeavingLast, LeavingShared

LEMMA DestroyStep ==
  ASSUME IInv, NEW i \in Instances, Destroy(i)
  PROVE  Shared' /\ Streams' /\ Locking'
<1>1. /\ g_InstanceList' = g_InstanceList \ {i} /\ g_InstanceList \subseteq Instances
      /\ m_hTsRead' = [m_hTsRead EXCEPT ![i] = NULL]
      /\ m_bTunerOpen' = [m_bTunerOpen EXCEPT ![i] = FALSE]
      /\ bTuner' = bTuner \ {i} /\ g_LoadedDriverList' = g_LoadedDriverList
  BY DEF Destroy, IInv, Typed, TypeOK
<1>2. /\ m_hModule'[i] = NULL /\ m_pIBon'[i] = NULL /\ m_hTsRead'[i] = NULL /\ m_bTunerOpen'[i] = FALSE
      /\ \A j \in Instances \ {i} : /\ m_hModule'[j] = m_hModule[j] /\ m_pIBon'[j] = m_pIBon[j]
                                    /\ m_hTsRead'[j] = m_hTsRead[j]
                                    /\ m_bTunerOpen'[j] = m_bTunerOpen[j]
  BY DEF Destroy, IInv, Typed, TypeOK
<1>3. Leaving(i) /\ (LeavingLast(i) \/ LeavingShared(i))
  BY DestroyLeaving
<1>4. ASSUME DestroyLast(i), NEW j \in g_InstanceList \ {i}
      PROVE  m_hModule[j] # m_hModule[i] /\ (m_pIBon[j] # NULL => m_pIBon[j] # m_pIBon[i])
  BY <1>4, LastOfLibrary
<1>6. Streams' /\ Locking'
  BY <1>3, LeavingStreams, LeavingLocking
<1>7. Unlisted'
  <2>1. \A j \in Instances \ g_InstanceList' : m_bChannelLock'[j] = 0
    <3> SUFFICES ASSUME NEW j \in Instances \ g_InstanceList' PROVE m_bChannelLock'[j] = 0
      OBVIOUS
    <3>1. CASE j = i
      BY <1>3, <3>1, LeavingLocks
    <3>2. CASE j # i
      <4>1. m_bChannelLock[j] = 0 /\ m_hTsRead[j] = NULL
        BY <1>1, <3>2 DEF IInv, Shared, Unlisted
      <4> QED
        BY <1>3, <3>2, <4>1, LeavingLocks
    <3> QED
      BY <3>1, <3>2
  <2> QED
    BY <1>1, <1>2, <2>1 DEF IInv, Shared, Unlisted
<1>8. Libraries'
  <2>1. CASE mapped' = mapped
    BY <1>1, <1>2, <2>1 DEF IInv, Shared, Libraries
  <2>2. CASE /\ DestroyLast(i) /\ m_hModule[i] # NULL /\ ~DisableUnload
             /\ mapped' = [mapped EXCEPT ![m_hModule[i]] = @ - 1]
    <3>1. i \in g_InstanceList /\ m_hModule[i] \in Modules
      BY <2>2 DEF IInv, Shared, Unlisted, Typed, TypeOK
    <3>2. /\ mapped[m_hModule[i]] > 0 /\ mapped \in [Modules -> Int]
          /\ \A m \in Modules : mapped[m] >= 0
      BY <3>1 DEF IInv, Shared, Libraries, Typed, TypeOK
    <3>3. /\ \A m \in Modules : mapped'[m] >= 0
          /\ \A m \in Modules \ {m_hModule[i]} : mapped'[m] = mapped[m]
      BY <2>2, <3>1, <3>2
    <3>4. \A j \in g_InstanceList \ {i} : m_hModule[j] \in Modules \ {m_hModule[i]} /\ mapped[m_hModule[j]] > 0
      BY <1>4, <2>2 DEF IInv, Shared, Libraries, Typed, TypeOK
    <3> QED
      BY <1>1, <1>2, <2>2, <3>3, <3>4, NullAssumption DEF IInv, Shared, Libraries
  <2> QED
    BY <2>1, <2>2 DEF Destroy, DestroyLast, DestroyShared
<1>9. Objects' /\ OpenIsOpen'
  <2>1. CASE DestroyLast(i)
    <3>1. \A d \in Drivers : d # m_pIBon[i] => module'[d] = module[d]
      BY <2>1 DEF DestroyLast
    <3>2. live' = live \ {m_pIBon[i]} /\ tunerOpen' = tunerOpen \ {m_pIBon[i]} /\ live \subseteq Drivers
      BY <2>1 DEF DestroyLast, IInv, Typed, TypeOK
    <3>3. Objects'
      BY <1>1, <1>2, <1>4, <2>1, <3>1, <3>2 DEF IInv, Shared, Objects
    <3>4. \A j \in g_InstanceList : m_bTunerOpen[j] => m_pIBon[j] # NULL
      BY DEF IInv, Shared, OpenIsOpen, Typed, TypeOK, HasObject
    <3>5. OpenIsOpen'
      BY <1>1, <1>2, <1>4, <2>1, <3>2, <3>4 DEF IInv, Shared, OpenIsOpen
    <3> QED
      BY <3>3, <3>5
  <2>2. CASE DestroyShared(i)
    <3>1. UNCHANGED <<live, module, tunerOpen>>
      BY <2>2 DEF DestroyShared, driverVars
    <3> QED
      BY <1>1, <1>2, <3>1 DEF IInv, Shared, Objects, OpenIsOpen
  <2> QED
    BY <2>1, <2>2 DEF Destroy
<1>10. OneObjectPerModule'
  BY <1>1, <1>2 DEF IInv, Shared, OneObjectPerModule
<1> QED
  BY <1>6, <1>7, <1>8, <1>9, <1>10 DEF Shared

-----------------------------------------------------------------------------
(* SetChannel2: an instance joins or starts a reader, and takes a lock.     *)

\* The reader a handler uses is its own, a peer's, or none if none has one.
LEMMA StreamOfPeers ==
  ASSUME NEW i, NEW a \in StreamOf(i)
  PROVE  /\ m_hTsRead[i] # NULL => a = m_hTsRead[i]
         /\ a # NULL => a = m_hTsRead[i] \/ \E j \in Peers(i) : m_hTsRead[j] = a
         /\ a = NULL => /\ m_hTsRead[i] = NULL
                        /\ \A j \in Peers(i) : m_hTsRead[j] = NULL
<1>1. CASE m_hTsRead[i] # NULL
  BY <1>1 DEF StreamOf
<1>2. CASE m_hTsRead[i] = NULL /\ {m_hTsRead[j] : j \in Peers(i)} \ {NULL} # {}
  BY <1>2 DEF StreamOf
<1>3. CASE m_hTsRead[i] = NULL /\ {m_hTsRead[j] : j \in Peers(i)} \ {NULL} = {}
  BY <1>3 DEF StreamOf
<1> QED
  BY <1>1, <1>2, <1>3

\* What every outcome of eSetChannel2 leaves alone.
Tuning(i) ==
  /\ i \in g_InstanceList /\ m_bTunerOpen[i] /\ m_pIBon[i] \in Drivers
  /\ UNCHANGED <<g_InstanceList, m_hModule, m_pIBon, m_bTunerOpen, bTuner, mapped,
                 g_LoadedDriverList, live, module, tunerOpen>>

LEMMA SetChannelTuning ==
  ASSUME IInv, NEW i \in Instances, SetChannel2(i)
  PROVE  Tuning(i)
<1>1. i \in bTuner
  BY DEF SetChannel2
<1>2. i \in g_InstanceList /\ m_bTunerOpen[i]
  BY <1>1 DEF IInv, Shared, OpenIsOpen
<1>3. m_pIBon[i] \in Drivers
  BY <1>1, <1>2 DEF IInv, Typed, TypeOK, HasObject
<1> QED
  BY <1>2, <1>3 DEF SetChannel2, Tuning, clientVars, libVars

\* Joining a reader, its own, a peer's or none, keeps the facts about streams.
LEMMA AttachStreams ==
  ASSUME IInv, NEW i \in Instances, Tuning(i), NEW a \in StreamOf(i), Attach(i, a),
         UNCHANGED <<running, readerDriver>>
  PROVE  /\ Streams'
         /\ m_hTsRead'[i] = a /\ \A j \in Instances \ {i} : m_hTsRead'[j] = m_hTsRead[j]
<1>1. /\ a \in Readers \cup {NULL} /\ g_InstanceList \subseteq Instances
      /\ receivers \in [Readers -> [Instances -> Nat]]
  BY StreamOfType DEF IInv, Typed, TypeOK
<1>2. m_hTsRead'[i] = a /\ \A j \in Instances \ {i} : m_hTsRead'[j] = m_hTsRead[j]
  BY DEF Attach, IInv, Typed, TypeOK
<1>3. m_hTsRead[i] = NULL \/ a = m_hTsRead[i]
  BY StreamOfPeers
<1>4. a # NULL => a \in running /\ readerDriver[a] = m_pIBon[i]
  <2>1. CASE a = m_hTsRead[i]
    BY <2>1, ReaderMates
  <2>2. ASSUME NEW j \in Peers(i), m_hTsRead[j] = a, a # NULL
        PROVE  a \in running /\ readerDriver[a] = m_pIBon[i]
    <3>1. j \in Instances /\ m_pIBon[j] = m_pIBon[i]
      BY <1>1 DEF Peers
    <3> QED
      BY <2>2, <3>1, ReaderMates
  <2> QED
    BY <2>1, <2>2, StreamOfPeers
<1>5. Holders'
  BY <1>1, <1>2, <1>4 DEF Tuning, IInv, Streams, Holders
<1>6. Receivers'
  <2>1. CASE a = NULL \/ m_hTsRead[i] # NULL
    <3>1. receivers' = receivers /\ m_hTsRead'[i] = m_hTsRead[i]
      BY <1>2, <1>3, <2>1 DEF Attach
    <3> QED
      BY <1>2, <3>1 DEF IInv, Streams, Receivers
  <2>2. CASE a # NULL /\ m_hTsRead[i] = NULL
    <3>1. a \in Readers /\ receivers' = [receivers EXCEPT ![a][i] = @ + 1]
      BY <1>1, <2>2 DEF Attach
    <3>2. /\ receivers'[a][i] = receivers[a][i] + 1
          /\ \A j \in Instances \ {i} : receivers'[a][j] = receivers[a][j]
          /\ \A b \in Readers \ {a} : receivers'[b] = receivers[b]
      BY <1>1, <3>1
    <3>3. \A b \in Readers : receivers[b][i] = 0
      BY <2>2, NullAssumption DEF IInv, Streams, Receivers
    <3> QED
      BY <1>2, <2>2, <3>1, <3>2, <3>3 DEF IInv, Streams, Receivers
  <2> QED
    BY <2>1, <2>2
<1>7. Running'
  <2>1. \A b \in running : \E j \in g_InstanceList : m_hTsRead'[j] = b
    <3> SUFFICES ASSUME NEW b \in running PROVE \E j \in g_InstanceList : m_hTsRead'[j] = b
      OBVIOUS
    <3> PICK j \in g_InstanceList : m_hTsRead[j] = b
      BY DEF IInv, Streams, Running
    <3>1. b # NULL
      BY NullAssumption DEF IInv, Typed, TypeOK
    <3> QED
      BY <1>1, <1>2, <1>3, <3>1
  <2> QED
    BY <2>1 DEF Tuning, IInv, Streams, Running
<1> QED
  BY <1>2, <1>5, <1>6, <1>7 DEF Streams

\* Starting a reader, when neither the instance nor a peer has one, keeps them.
LEMMA StartStreams ==
  ASSUME IInv, NEW i \in Instances, Tuning(i), NULL \in StreamOf(i),
         NEW b \in Readers \ running, Attach(i, b),
         running' = running \cup {b},
         readerDriver' = [readerDriver EXCEPT ![b] = m_pIBon[i]]
  PROVE  /\ Streams'
         /\ m_hTsRead'[i] = b /\ \A j \in Instances \ {i} : m_hTsRead'[j] = m_hTsRead[j]
<1>1. /\ g_InstanceList \subseteq Instances /\ running \subseteq Readers
      /\ receivers \in [Readers -> [Instances -> Nat]]
      /\ readerDriver'[b] = m_pIBon[i]
      /\ \A c \in Readers \ {b} : readerDriver'[c] = readerDriver[c]
  BY DEF IInv, Typed, TypeOK
<1>2. m_hTsRead'[i] = b /\ \A j \in Instances \ {i} : m_hTsRead'[j] = m_hTsRead[j]
  BY DEF Attach, IInv, Typed, TypeOK
<1>3. m_hTsRead[i] = NULL /\ \A j \in Peers(i) : m_hTsRead[j] = NULL
  BY StreamOfPeers
<1>4. Holders'
  BY <1>1, <1>2 DEF Tuning, IInv, Streams, Holders
<1>5. Receivers'
  <2>1. /\ receivers'[b][i] = receivers[b][i] + 1
        /\ \A j \in Instances \ {i} : receivers'[b][j] = receivers[b][j]
        /\ \A c \in Readers \ {b} : receivers'[c] = receivers[c]
    <3>1. receivers' = [receivers EXCEPT ![b][i] = @ + 1]
      BY <1>3, NullAssumption DEF Attach
    <3> QED
      BY <1>1, <3>1
  <2>2. \A c \in Readers : receivers[c][i] = 0
    BY <1>3, NullAssumption DEF IInv, Streams, Receivers
  <2> QED
    BY <1>2, <2>1, <2>2 DEF IInv, Streams, Receivers
<1>6. Running'
  \* No running reader has the driver: its holder would be a peer with a stream.
  <2>1. ASSUME NEW c \in running PROVE readerDriver[c] # m_pIBon[i]
    <3> PICK j \in g_InstanceList : m_hTsRead[j] = c
      BY DEF IInv, Streams, Running
    <3>1. c # NULL
      BY <1>1, NullAssumption
    <3>2. m_pIBon[j] = readerDriver[c] /\ m_pIBon[j] # NULL
      BY <1>1, <3>1, ReaderMates, NullAssumption
    <3>3. j # i /\ j \notin Peers(i)
      BY <1>3, <3>1
    <3> QED
      BY <3>2, <3>3 DEF Tuning, Peers
  <2>2. \A c \in running : \E j \in g_InstanceList : m_hTsRead'[j] = c
    BY <1>1, <1>2, <1>3, NullAssumption DEF IInv, Streams, Running
  <2> QED
    BY <1>1, <1>2, <2>1, <2>2 DEF Tuning, IInv, Streams, Running
<1> QED
  BY <1>2, <1>4, <1>5, <1>6 DEF Streams

\* The instance list, the libraries and the objects are left alone.
LEMMA TuningShared ==
  ASSUME IInv, NEW i \in Instances, Tuning(i),
         \A j \in Instances \ g_InstanceList : /\ m_bChannelLock'[j] = m_bChannelLock[j]
                                               /\ m_hTsRead'[j] = m_hTsRead[j]
  PROVE  Shared'
<1>1. Unlisted'
  BY DEF Tuning, IInv, Shared, Unlisted
<1>2. Libraries' /\ Objects' /\ OneObjectPerModule' /\ OpenIsOpen'
  BY DEF Tuning, IInv, Shared, Libraries, Objects, OneObjectPerModule, OpenIsOpen
<1> QED
  BY <1>1, <1>2 DEF Shared

\* Taking the lock the client asked for, when no peer holds the exclusive lock
\* the client wants, keeps the facts about locks.
LEMMA PrioLocking ==
  ASSUME IInv, NEW i \in Instances, Tuning(i), NEW a,
         HavePriv(i) = {},
         m_bChannelLock' = [m_bChannelLock EXCEPT ![i] = Prio[i]],
         waitList' = waitList, running \subseteq running', running' \subseteq Readers,
         m_hTsRead'[i] = a, \A j \in Instances \ {i} : m_hTsRead'[j] = m_hTsRead[j],
         m_hTsRead[i] # NULL => a = m_hTsRead[i],
         a = NULL => \A j \in Peers(i) : m_hTsRead[j] = NULL,
         \A h \in Peers(i) : m_bChannelLock[h] = EXCLUSIVE /\ m_hTsRead[h] = NULL => a = NULL
  PROVE  Locking'
<1>1. /\ g_InstanceList' = g_InstanceList /\ g_InstanceList \subseteq Instances
      /\ i \in g_InstanceList /\ m_pIBon' = m_pIBon /\ m_bTunerOpen' = m_bTunerOpen
      /\ m_pIBon[i] # NULL /\ m_bTunerOpen[i]
  BY NullAssumption DEF Tuning, IInv, Typed, TypeOK
<1>2. /\ m_bChannelLock'[i] = Prio[i]
      /\ \A j \in Instances \ {i} : m_bChannelLock'[j] = m_bChannelLock[j]
  BY DEF IInv, Typed, TypeOK
<1>3. \A j \in g_InstanceList \ {i} : m_pIBon[j] = m_pIBon[i] => j \in Peers(i)
  BY <1>1 DEF Peers
\* No peer holds the lock that the client asked for.
<1>4. Prio[i] = EXCLUSIVE => \A j \in Peers(i) : m_bChannelLock[j] # EXCLUSIVE
  BY DEF HavePriv
<1>5. Locks'
  BY <1>1, <1>2 DEF IInv, Locking, Locks
<1>6. ExclusiveLock'
  BY <1>1, <1>2, <1>3, <1>4 DEF IInv, Locking, ExclusiveLock
<1>7. HolderHasStream'
  <2> SUFFICES ASSUME NEW h \in g_InstanceList, NEW j \in g_InstanceList,
                      m_bChannelLock'[h] = EXCLUSIVE, m_hTsRead'[h] = NULL,
                      m_pIBon[j] = m_pIBon[h]
               PROVE  m_hTsRead'[j] = NULL
    BY <1>1 DEF HolderHasStream
  <2>1. CASE h = i
    BY <1>1, <1>3, <2>1
  <2>2. CASE h # i /\ j = i
    BY <1>1, <1>2, <1>3, <2>2
  <2>3. CASE h # i /\ j # i
    BY <1>1, <1>2, <2>3 DEF IInv, Locking, HolderHasStream
  <2> QED
    BY <2>1, <2>2, <2>3
<1>8. Queues'
  <2>1. \A b \in Readers \ running : waitList[b] = << >>
    BY DEF IInv, Locking, Queues
  <2>2. \A b \in running' \ running : Len(waitList[b]) = 0
    BY <2>1, EmptySeq
  <2>3. \A b \in running : \A k \in 1..Len(waitList[b]) : Prio[waitList[b][k]] = EXCLUSIVE
    BY DEF IInv, Locking, Queues
  <2> QED
    BY <2>1, <2>2, <2>3 DEF Queues
<1>9. WaitersHaveHolder'
  <2> SUFFICES ASSUME NEW b \in running', NEW k \in 1..Len(waitList[b])
               PROVE  LET w == waitList[b][k]
                      IN  /\ m_hTsRead'[w] = b /\ m_bChannelLock'[w] = WAITING
                          /\ \A l \in 1..Len(waitList[b]) : waitList[b][l] = w => l = k
                          /\ \E h \in g_InstanceList : m_hTsRead'[h] = b /\ m_bChannelLock'[h] = EXCLUSIVE
    BY <1>1 DEF WaitersHaveHolder
  <2>1. b \in running
    <3>1. b \in Readers \ running => Len(waitList[b]) = 0
      BY EmptySeq DEF IInv, Locking, Queues
    <3> QED
      BY <3>1
  <2>2. b # NULL /\ waitList[b] \in Seq(Instances)
    BY NullAssumption DEF IInv, Typed, TypeOK
  <2> DEFINE w == waitList[b][k]
  <2>3. /\ w \in Instances /\ m_hTsRead[w] = b /\ m_bChannelLock[w] = WAITING
        /\ Prio[w] = EXCLUSIVE
        /\ \A l \in 1..Len(waitList[b]) : waitList[b][l] = w => l = k
    BY <2>1, <2>2, ElementOfSeq DEF IInv, Locking, WaitersHaveHolder, Queues
  <2>4. PICK h \in g_InstanceList : m_hTsRead[h] = b /\ m_bChannelLock[h] = EXCLUSIVE
    BY <2>1 DEF IInv, Locking, WaitersHaveHolder
  <2>5. h # w
    BY <2>3, <2>4 DEF WAITING, EXCLUSIVE
  \* A waiter that asks again would find the holder among its peers.
  <2>6. w # i
    <3> SUFFICES ASSUME w = i PROVE FALSE
      OBVIOUS
    <3>1. m_pIBon[h] = m_pIBon[i]
      BY <1>1, <2>2, <2>3, <2>4 DEF IInv, Streams, Holders
    <3>2. h \in Peers(i)
      BY <1>3, <2>4, <2>5, <3>1
    <3> QED
      BY <1>4, <2>3, <2>4, <3>2
  <2>7. m_hTsRead'[w] = b /\ m_bChannelLock'[w] = WAITING
    BY <1>2, <2>3, <2>6
  <2>8. m_hTsRead'[h] = b /\ m_bChannelLock'[h] = EXCLUSIVE
    <3>1. CASE h = i
      BY <1>1, <1>2, <2>2, <2>4, <3>1 DEF IInv, Locking, Locks
    <3>2. CASE h # i
      BY <1>1, <1>2, <2>4, <3>2
    <3> QED
      BY <3>1, <3>2
  <2> QED
    BY <2>3, <2>4, <2>7, <2>8
<1> QED
  BY <1>5, <1>6, <1>7, <1>8, <1>9 DEF Locking

\* Queueing up for the exclusive lock: the holder has the stream that the new
\* waiter joins, so it will pass through the queue when it leaves.
LEMMA QueuedLocking ==
  ASSUME IInv, NEW i \in Instances, Tuning(i), HavePriv(i) # {},
         NEW a \in StreamOf(i) \ {NULL}, Attach(i, a), running' = running,
         m_bChannelLock' = [m_bChannelLock EXCEPT ![i] = WAITING],
         waitList' = [waitList EXCEPT ![a] =
                        IF \E k \in 1..Len(@) : @[k] = i THEN @ ELSE Append(@, i)],
         m_hTsRead'[i] = a, \A j \in Instances \ {i} : m_hTsRead'[j] = m_hTsRead[j]
  PROVE  Locking'
<1>1. /\ g_InstanceList' = g_InstanceList /\ g_InstanceList \subseteq Instances
      /\ i \in g_InstanceList /\ m_pIBon' = m_pIBon /\ m_bTunerOpen' = m_bTunerOpen
      /\ m_pIBon[i] # NULL /\ m_bTunerOpen[i] /\ running \subseteq Readers
  BY NullAssumption DEF Tuning, IInv, Typed, TypeOK
<1>2. /\ m_bChannelLock'[i] = WAITING
      /\ \A j \in Instances \ {i} : m_bChannelLock'[j] = m_bChannelLock[j]
  BY DEF IInv, Typed, TypeOK
<1>3. PICK h \in g_InstanceList \ {i} : /\ m_pIBon[h] = m_pIBon[i]
                                        /\ m_bChannelLock[h] = EXCLUSIVE /\ Prio[i] = EXCLUSIVE
  BY DEF HavePriv, Peers
<1>4. m_bChannelLock[i] # EXCLUSIVE
  BY <1>1, <1>3 DEF IInv, Locking, ExclusiveLock
<1>5. PICK j \in g_InstanceList : m_hTsRead[j] = a /\ m_pIBon[j] = m_pIBon[i]
  <2>1. CASE a = m_hTsRead[i]
    BY <1>1, <2>1
  <2>2. CASE \E j \in Peers(i) : m_hTsRead[j] = a
    BY <2>2 DEF Peers
  <2> QED
    BY <2>1, <2>2, StreamOfPeers
<1>6. m_hTsRead[h] = a /\ a \in running
  <2>1. m_hTsRead[h] # NULL
    BY <1>3, <1>5 DEF IInv, Locking, HolderHasStream
  <2>2. /\ a \in running /\ readerDriver[a] = m_pIBon[i]
        /\ m_hTsRead[h] \in running /\ readerDriver[m_hTsRead[h]] = m_pIBon[i]
    BY <1>3, <1>5, <2>1 DEF IInv, Streams, Holders
  <2> QED
    BY <2>2 DEF IInv, Streams, Running
<1>7. \A b \in running \ {a} : \A k \in 1..Len(waitList[b]) : waitList[b][k] # i
  <2> SUFFICES ASSUME NEW b \in running \ {a}, NEW k \in 1..Len(waitList[b]), waitList[b][k] = i
               PROVE  FALSE
    OBVIOUS
  <2>1. m_hTsRead[i] = b /\ b # NULL
    BY <1>1, NullAssumption DEF IInv, Locking, WaitersHaveHolder
  <2> QED
    BY <2>1, StreamOfPeers
<1>8. /\ a \in Readers /\ waitList[a] \in Seq(Instances) /\ Len(waitList[a]) \in Nat
      /\ \A b \in Readers \ {a} : waitList'[b] = waitList[b]
      /\ waitList'[a] = IF \E k \in 1..Len(waitList[a]) : waitList[a][k] = i
                        THEN waitList[a] ELSE Append(waitList[a], i)
  BY <1>1, <1>6, LenProperties DEF IInv, Typed, TypeOK
\* The queue holds its old members and i, each once.
<1>9. \A k \in 1..Len(waitList'[a]) :
        /\ waitList'[a][k] # i => \E m \in 1..Len(waitList[a]) : waitList[a][m] = waitList'[a][k]
        /\ \A l \in 1..Len(waitList'[a]) : waitList'[a][l] = waitList'[a][k] => l = k
  <2> DEFINE q == waitList[a]
             r == waitList'[a]
  <2>1. \A k, l \in 1..Len(q) : q[l] = q[k] => l = k
    BY <1>6 DEF IInv, Locking, WaitersHaveHolder
  <2>2. CASE \E k \in 1..Len(q) : q[k] = i
    BY <1>8, <2>1, <2>2
  <2>3. CASE ~ \E k \in 1..Len(q) : q[k] = i
    <3>1. r = Append(q, i)
      BY <1>8, <2>3
    <3>2. /\ Len(r) = Len(q) + 1 /\ r[Len(q) + 1] = i
          /\ \A k \in 1..Len(q) : r[k] = q[k]
      BY <1>8, <3>1, AppendProperties
    <3>3. \A k \in 1..Len(r) : k \in 1..Len(q) \/ k = Len(q) + 1
      BY <1>8, <3>2
    <3> HIDE DEF q, r
    <3>4. \A k \in 1..Len(r) : r[k] # i => k \in 1..Len(q) /\ q[k] = r[k]
      BY <3>2, <3>3
    <3>5. \A k, l \in 1..Len(r) : r[l] = r[k] => l = k
      BY <2>1, <2>3, <3>2, <3>3
    <3> QED
      BY <3>4, <3>5 DEF q, r
  <2> QED
    BY <2>2, <2>3
<1>10. Locks' /\ ExclusiveLock'
  BY <1>1, <1>2, <1>4 DEF IInv, Locking, Locks, ExclusiveLock, WAITING, EXCLUSIVE
<1>11. HolderHasStream'
  <2> SUFFICES ASSUME NEW g \in g_InstanceList, m_bChannelLock'[g] = EXCLUSIVE,
                      NEW l \in g_InstanceList, m_hTsRead'[g] = NULL, m_pIBon[l] = m_pIBon[g]
               PROVE  m_hTsRead'[l] = NULL
    BY <1>1 DEF HolderHasStream
  <2>1. g # i
    BY <1>2 DEF WAITING, EXCLUSIVE
  <2>2. m_bChannelLock[g] = EXCLUSIVE /\ m_hTsRead[g] = NULL
    BY <1>1, <1>2, <2>1
  \* A peer that holds the lock is h, which has the stream.
  <2>3. l # i
    BY <1>3, <1>6, <2>2 DEF IInv, Locking, ExclusiveLock
  <2> QED
    BY <1>1, <2>2, <2>3 DEF IInv, Locking, HolderHasStream
<1>12. Queues'
  <2>1. \A b \in running : \A k \in 1..Len(waitList[b]) : Prio[waitList[b][k]] = EXCLUSIVE
    BY DEF IInv, Locking, Queues
  <2>2. \A b \in running : \A k \in 1..Len(waitList'[b]) : Prio[waitList'[b][k]] = EXCLUSIVE
    <3> SUFFICES ASSUME NEW b \in running, NEW k \in 1..Len(waitList'[b])
                 PROVE  Prio[waitList'[b][k]] = EXCLUSIVE
      OBVIOUS
    <3>1. CASE b = a
      BY <1>3, <1>6, <1>9, <2>1, <3>1
    <3>2. CASE b # a
      BY <1>1, <1>8, <2>1, <3>2
    <3> QED
      BY <3>1, <3>2
  <2> QED
    BY <1>6, <1>8, <2>2 DEF IInv, Locking, Queues
<1>13. WaitersHaveHolder'
  <2> SUFFICES ASSUME NEW b \in running, NEW k \in 1..Len(waitList'[b])
               PROVE  LET w == waitList'[b][k]
                      IN  /\ m_hTsRead'[w] = b /\ m_bChannelLock'[w] = WAITING
                          /\ \A l \in 1..Len(waitList'[b]) : waitList'[b][l] = w => l = k
                          /\ \E g \in g_InstanceList : m_hTsRead'[g] = b /\ m_bChannelLock'[g] = EXCLUSIVE
    BY <1>1 DEF WaitersHaveHolder
  <2>1. ASSUME NEW c \in running, NEW m \in 1..Len(waitList[c]), waitList[c][m] # i
        PROVE  m_hTsRead'[waitList[c][m]] = c /\ m_bChannelLock'[waitList[c][m]] = WAITING
    <3>1. /\ waitList[c][m] \in Instances
          /\ m_hTsRead[waitList[c][m]] = c /\ m_bChannelLock[waitList[c][m]] = WAITING
      BY <1>1, <2>1, ElementOfSeq DEF IInv, Typed, TypeOK, Locking, WaitersHaveHolder
    <3> QED
      BY <1>2, <2>1, <3>1
  <2>2. CASE b = a
    <3>1. m_hTsRead'[h] = a /\ m_bChannelLock'[h] = EXCLUSIVE
      BY <1>1, <1>2, <1>3, <1>6
    <3>2. m_hTsRead'[waitList'[a][k]] = a /\ m_bChannelLock'[waitList'[a][k]] = WAITING
      <4>1. CASE waitList'[a][k] = i
        BY <1>2, <4>1
      <4>2. CASE waitList'[a][k] # i
        BY <1>6, <1>9, <2>1, <2>2, <4>2
      <4> QED
        BY <4>1, <4>2
    <3> QED
      BY <1>9, <2>2, <3>1, <3>2
  <2>3. CASE b # a
    <3>1. waitList'[b] = waitList[b]
      BY <1>1, <1>8, <2>3
    <3>2. /\ \A l \in 1..Len(waitList[b]) : waitList[b][l] = waitList[b][k] => l = k
          /\ \E g \in g_InstanceList : m_hTsRead[g] = b /\ m_bChannelLock[g] = EXCLUSIVE
      BY <3>1 DEF IInv, Locking, WaitersHaveHolder
    <3> QED
      BY <1>1, <1>2, <1>4, <1>7, <2>1, <2>3, <3>1, <3>2
  <2> QED
    BY <2>2, <2>3
<1> QED
  BY <1>10, <1>11, <1>12, <1>13 DEF Locking

\* Taking the lock from a holder without a stream: no reader, so no queue, is
\* affected.
LEMMA StealLocking ==
  ASSUME IInv, NEW i \in Instances, Tuning(i), SetChannelSteal(i)
  PROVE  Locking'
<1>1. /\ g_InstanceList' = g_InstanceList /\ g_InstanceList \subseteq Instances
      /\ i \in g_InstanceList /\ m_pIBon' = m_pIBon /\ m_bTunerOpen' = m_bTunerOpen
      /\ m_pIBon[i] # NULL /\ m_bTunerOpen[i] /\ running \subseteq Readers
  BY NullAssumption DEF Tuning, IInv, Typed, TypeOK
<1>2. UNCHANGED <<m_hTsRead, running, waitList>>
  BY DEF SetChannelSteal, readerVars
<1>3. PICK h \in HavePriv(i) :
        m_bChannelLock' = [m_bChannelLock EXCEPT ![h] = 0, ![i] = EXCLUSIVE]
  BY DEF SetChannelSteal
<1>4. /\ h \in g_InstanceList /\ h # i /\ m_pIBon[h] = m_pIBon[i]
      /\ m_bChannelLock[h] = EXCLUSIVE /\ Prio[i] = EXCLUSIVE
  BY <1>3 DEF HavePriv, Peers
<1>5. /\ m_bChannelLock'[i] = EXCLUSIVE /\ m_bChannelLock'[h] = 0
      /\ \A j \in Instances \ {i, h} : m_bChannelLock'[j] = m_bChannelLock[j]
  BY <1>1, <1>3, <1>4 DEF IInv, Typed, TypeOK
<1>6. \A j \in g_InstanceList : m_pIBon[j] = m_pIBon[i] => m_hTsRead[j] = NULL
  <2>1. NULL \in StreamOf(i)
    BY DEF SetChannelSteal
  <2>2. m_hTsRead[i] = NULL /\ \A j \in Peers(i) : m_hTsRead[j] = NULL
    BY <2>1, StreamOfPeers
  <2> QED
    BY <1>1, <2>2 DEF Peers
<1>7. Locks'
  BY <1>1, <1>4, <1>5 DEF IInv, Locking, Locks, EXCLUSIVE
<1>8. ExclusiveLock'
  <2>1. \A j \in g_InstanceList : m_bChannelLock[j] = EXCLUSIVE /\ m_pIBon[j] = m_pIBon[i] => j = h
    BY <1>4 DEF IInv, Locking, ExclusiveLock
  <2>2. EXCLUSIVE # 0
    BY DEF EXCLUSIVE
  <2> QED
    BY <1>1, <1>5, <2>1, <2>2 DEF IInv, Locking, ExclusiveLock
<1>9. HolderHasStream'
  <2>1. EXCLUSIVE # 0
    BY DEF EXCLUSIVE
  <2> QED
    BY <1>1, <1>2, <1>5, <1>6, <2>1 DEF IInv, Locking, HolderHasStream
<1>10. Queues'
  BY <1>2 DEF IInv, Locking, Queues
<1>11. WaitersHaveHolder'
  <2>1. \A j \in Instances : m_hTsRead[j] # NULL => m_bChannelLock'[j] = m_bChannelLock[j]
    BY <1>1, <1>4, <1>5, <1>6
  <2>2. \A b \in running : \A k \in 1..Len(waitList[b]) : waitList[b][k] \in Instances
    BY <1>1, ElementOfSeq DEF IInv, Typed, TypeOK
  <2>3. NULL \notin running
    BY <1>1, NullAssumption
  <2> QED
    BY <1>1, <1>2, <2>1, <2>2, <2>3 DEF IInv, Locking, WaitersHaveHolder
<1> QED
  BY <1>7, <1>8, <1>9, <1>10, <1>11 DEF Locking

LEMMA SetChannelStep ==
  ASSUME IInv, NEW i \in Instances, SetChannel2(i), Typed'
  PROVE  Shared' /\ Streams' /\ Locking'
<1> Tuning(i)
  BY SetChannelTuning
<1>1. \A j \in Instances \ g_InstanceList : j # i
  BY DEF Tuning
<1>2. m_bChannelLock \in [Instances -> 0..EXCLUSIVE] /\ m_hTsRead \in [Instances -> Readers \cup {NULL}]
  BY DEF IInv, Typed, TypeOK
<1>3. running' \subseteq Readers /\ g_InstanceList \subseteq Instances
  BY DEF IInv, Typed, TypeOK
\* The side conditions of PrioLocking for a stream found by the handler.
<1>4. ASSUME NEW a \in StreamOf(i)
      PROVE  /\ m_hTsRead[i] # NULL => a = m_hTsRead[i]
             /\ a = NULL => m_hTsRead[i] = NULL /\ \A j \in Peers(i) : m_hTsRead[j] = NULL
             /\ \A h \in Peers(i) : m_bChannelLock[h] = EXCLUSIVE /\ m_hTsRead[h] = NULL => a = NULL
  <2>1. ASSUME NEW h \in Peers(i), m_bChannelLock[h] = EXCLUSIVE, m_hTsRead[h] = NULL
        PROVE  a = NULL
    <3>1. h \in g_InstanceList /\ m_pIBon[h] = m_pIBon[i]
      BY DEF Peers
    <3>2. \A j \in Peers(i) \cup {i} : j \in g_InstanceList /\ m_pIBon[j] = m_pIBon[h]
      BY <3>1 DEF Peers, Tuning
    <3>3. \A j \in Peers(i) \cup {i} : m_hTsRead[j] = NULL
      BY <2>1, <3>1, <3>2 DEF IInv, Locking, HolderHasStream
    <3> QED
      BY <3>3, StreamOfPeers
  <2> QED
    BY <2>1, StreamOfPeers
<1>5. ASSUME SetChannelLocked(i) PROVE Shared' /\ Streams' /\ Locking'
  <2> PICK a \in StreamOf(i) : Attach(i, a)
    BY <1>5 DEF SetChannelLocked
  <2>1. /\ HavePriv(i) = {} /\ m_bChannelLock' = [m_bChannelLock EXCEPT ![i] = Prio[i]]
        /\ UNCHANGED <<running, readerDriver, waitList>>
    BY <1>5 DEF SetChannelLocked
  <2>2. /\ Streams' /\ m_hTsRead'[i] = a
        /\ \A j \in Instances \ {i} : m_hTsRead'[j] = m_hTsRead[j]
    BY <2>1, AttachStreams
  <2>3. Locking'
    BY <1>3, <1>4, <2>1, <2>2, PrioLocking
  <2>4. Shared'
    BY <1>1, <1>2, <2>1, <2>2, TuningShared
  <2> QED
    BY <2>2, <2>3, <2>4
<1>6. ASSUME SetChannelQueued(i) PROVE Shared' /\ Streams' /\ Locking'
  <2> PICK a \in StreamOf(i) \ {NULL} :
             /\ Attach(i, a)
             /\ waitList' = [waitList EXCEPT ![a] =
                               IF \E k \in 1..Len(@) : @[k] = i THEN @ ELSE Append(@, i)]
    BY <1>6 DEF SetChannelQueued
  <2>1. /\ HavePriv(i) # {} /\ m_bChannelLock' = [m_bChannelLock EXCEPT ![i] = WAITING]
        /\ UNCHANGED <<running, readerDriver>>
    BY <1>6 DEF SetChannelQueued
  <2>2. /\ Streams' /\ m_hTsRead'[i] = a
        /\ \A j \in Instances \ {i} : m_hTsRead'[j] = m_hTsRead[j]
    BY <2>1, AttachStreams
  <2>3. Locking'
    BY <2>1, <2>2, QueuedLocking
  <2>4. Shared'
    BY <1>1, <1>2, <2>1, <2>2, TuningShared
  <2> QED
    BY <2>2, <2>3, <2>4
<1>7. ASSUME SetChannelSteal(i) PROVE Shared' /\ Streams' /\ Locking'
  <2>1. UNCHANGED <<m_hTsRead, running, readerDriver, receivers>>
    BY <1>7 DEF SetChannelSteal, readerVars
  <2>2. Streams'
    BY <2>1 DEF Tuning, IInv, Streams, Holders, Receivers, Running
  <2>3. \A j \in Instances \ g_InstanceList : m_bChannelLock'[j] = m_bChannelLock[j]
    BY <1>1, <1>2, <1>7 DEF SetChannelSteal, HavePriv, Peers
  <2>4. Shared'
    BY <2>1, <2>3, TuningShared
  <2> QED
    BY <1>7, <2>2, <2>4, StealLocking
<1>8. ASSUME SetChannelTune(i) PROVE Shared' /\ Streams' /\ Locking'
  <2>1. /\ Higher(i) = {} /\ HavePriv(i) = {} /\ waitList' = waitList
        /\ m_bChannelLock' = [m_bChannelLock EXCEPT ![i] = Prio[i]]
    BY <1>8 DEF SetChannelTune
  \* Nobody else holds the exclusive lock: it would be higher, or wanted too.
  <2>2. \A h \in Peers(i) : m_bChannelLock[h] # EXCLUSIVE
    BY <2>1, PrioAssumption DEF Higher, HavePriv, EXCLUSIVE
  <2>3. ASSUME NEW a \in StreamOf(i), Attach(i, a), UNCHANGED <<running, readerDriver>>
        PROVE  Shared' /\ Streams' /\ Locking'
    <3>1. /\ Streams' /\ m_hTsRead'[i] = a
          /\ \A j \in Instances \ {i} : m_hTsRead'[j] = m_hTsRead[j]
      BY <2>3, AttachStreams
    <3>2. running \subseteq running'
      BY <2>3
    <3>3. Locking'
      BY <1>3, <1>4, <2>1, <3>1, <3>2, PrioLocking
    <3>4. Shared'
      BY <1>1, <1>2, <2>1, <3>1, TuningShared
    <3> QED
      BY <3>1, <3>3, <3>4
  <2>4. ASSUME NULL \in StreamOf(i), NEW b \in Readers \ running,
               running' = running \cup {b},
               readerDriver' = [readerDriver EXCEPT ![b] = m_pIBon[i]],
               Attach(i, b)
        PROVE  Shared' /\ Streams' /\ Locking'
    <3>1. /\ Streams' /\ m_hTsRead'[i] = b
          /\ \A j \in Instances \ {i} : m_hTsRead'[j] = m_hTsRead[j]
      BY <2>4, StartStreams
    <3>2. running \subseteq running' /\ b # NULL /\ m_hTsRead[i] = NULL
      BY <1>4, <2>4, NullAssumption
    <3>3. Locking'
      BY <1>3, <2>1, <2>2, <3>1, <3>2, PrioLocking
    <3>4. Shared'
      BY <1>1, <1>2, <2>1, <3>1, TuningShared
    <3> QED
      BY <3>1, <3>3, <3>4
  <2>5. ASSUME NULL \in StreamOf(i), UNCHANGED <<m_hTsRead, receivers, running, readerDriver>>
        PROVE  Shared' /\ Streams' /\ Locking'
    <3>1. Streams'
      BY <2>5 DEF Tuning, IInv, Streams, Holders, Receivers, Running
    <3>2. m_hTsRead[i] = NULL /\ \A j \in Peers(i) : m_hTsRead[j] = NULL
      BY <1>4, <2>5
    <3>3. /\ running \subseteq running' /\ m_hTsRead'[i] = NULL
          /\ \A j \in Instances \ {i} : m_hTsRead'[j] = m_hTsRead[j]
      BY <2>5, <3>2
    <3>4. Locking'
      BY <1>3, <2>1, <2>2, <3>2, <3>3, PrioLocking
    <3>5. Shared'
      BY <1>1, <1>2, <2>1, <3>3, TuningShared
    <3> QED
      BY <3>1, <3>4, <3>5
  <2> QED
    BY <1>8, <2>3, <2>4, <2>5 DEF SetChannelTune
<1> QED
  BY <1>5, <1>6, <1>7, <1>8 DEF SetChannel2

-----------------------------------------------------------------------------
(* The theorems.  They assume what the IBonDriver interface suggests and    *)
(* the code relies on: that a driver whose tuner is open does not answer    *)
(* FALSE to a second OpenTuner().                                           *)

LEMMA IInvStep ==
  ASSUME ~ReopenMayFail
  PROVE  IInv /\ [Next]_vars => IInv'
<1> SUFFICES ASSUME IInv, [Next]_vars PROVE IInv'
  OBVIOUS
<1>1. Typed'
  BY TypedStep DEF IInv
<1>2. ASSUME Next PROVE Shared' /\ Streams' /\ Locking'
  <2> PICK i \in Instances : \/ Accept(i)
                             \/ \E n \in Names : SelectBonDriver(i, n)
                             \/ CreateBonDriver(i)
                             \/ OpenTuner(i)
                             \/ CloseTuner(i)
                             \/ SetChannel2(i)
                             \/ Destroy(i)
    BY <1>2 DEF Next
  <2> QED
    BY <1>1, AcceptStep, SelectStep, CreateStep, OpenStep, CloseStep, SetChannelStep, DestroyStep
<1>3. ASSUME UNCHANGED vars PROVE Shared' /\ Streams' /\ Locking'
  <2> USE <1>3 DEF vars, instVars, clientVars, libVars, driverVars, readerVars, IInv
  <2>1. Shared'
    BY DEF Shared, Unlisted, Libraries, Objects, OneObjectPerModule, OpenIsOpen
  <2>2. Streams'
    BY DEF Streams, Holders, Receivers, Running
  <2>3. Locking'
    BY DEF Locking, Locks, ExclusiveLock, HolderHasStream, Queues, WaitersHaveHolder
  <2> QED
    BY <2>1, <2>2, <2>3
<1> QED
  BY <1>1, <1>2, <1>3 DEF IInv

\* The inductive invariant holds in every reachable state.
THEOREM Inductive ==
  ASSUME ~ReopenMayFail
  PROVE  Spec => []IInv
<1>1. IInv /\ [Next]_vars => IInv'
  BY IInvStep
<1> QED
  BY <1>1, IInvInit, PTL DEF Spec

\* No instance keeps a pointer to a reader, a driver object or a library that
\* is gone.
THEOREM PointersValid ==
  ASSUME ~ReopenMayFail
  PROVE  Spec => []NoDangling
<1>1. IInv => NoDangling
  <2> SUFFICES ASSUME IInv, NEW i \in up
               PROVE  /\ m_hTsRead[i] # NULL => m_hTsRead[i] \in running
                      /\ m_pIBon[i] # NULL => m_pIBon[i] \in live
                      /\ m_hModule[i] # NULL => mapped[m_hModule[i]] > 0
    BY DEF NoDangling
  <2>1. i \in Instances
    BY DEF IInv, Typed, TypeOK
  <2>2. CASE i \in g_InstanceList
    BY <2>2 DEF IInv, Shared, Libraries, Objects, Streams, Holders
  <2>3. CASE i \notin g_InstanceList
    BY <2>1, <2>3 DEF IInv, Shared, Unlisted
  <2> QED
    BY <2>2, <2>3
<1> QED
  BY <1>1, Inductive, PTL

\* A reader delivers to each instance that holds it once, and to no other.
THEOREM DeliveryExact ==
  ASSUME ~ReopenMayFail
  PROVE  Spec => []ReceiversExact
<1>1. IInv => ReceiversExact
  BY DEF IInv, Typed, TypeOK, Streams, Receivers, ReceiversExact
<1> QED
  BY <1>1, Inductive, PTL

\* One reader per driver object, on a live object with an open tuner, held by
\* users of that object.
THEOREM ReaderHasTuner ==
  ASSUME ~ReopenMayFail
  PROVE  Spec => []ReaderOnOpenDriver
<1>1. IInv => ReaderOnOpenDriver
  <2> SUFFICES ASSUME IInv, NEW a \in running
               PROVE  /\ readerDriver[a] \in live \cap tunerOpen
                      /\ \E i \in g_InstanceList : m_hTsRead[i] = a
                      /\ \A b \in running : readerDriver[a] = readerDriver[b] => a = b
                      /\ \A i \in g_InstanceList : m_hTsRead[i] = a => m_pIBon[i] = readerDriver[a]
    BY DEF ReaderOnOpenDriver
  <2>1. a # NULL
    BY NullAssumption DEF IInv, Typed, TypeOK
  <2>2. /\ \E i \in g_InstanceList : m_hTsRead[i] = a
        /\ \A b \in running : readerDriver[a] = readerDriver[b] => a = b
    BY DEF IInv, Streams, Running
  <2>3. \A i \in g_InstanceList : m_hTsRead[i] = a =>
          m_bTunerOpen[i] /\ m_pIBon[i] = readerDriver[a]
    BY <2>1 DEF IInv, Streams, Holders
  <2>4. readerDriver[a] \in live \cap tunerOpen
    <3> PICK i \in g_InstanceList : m_hTsRead[i] = a
      BY <2>2
    <3>1. m_bTunerOpen[i] /\ m_pIBon[i] = readerDriver[a]
      BY <2>3
    <3>2. m_pIBon[i] # NULL /\ m_pIBon[i] \in tunerOpen
      BY <3>1 DEF IInv, Typed, TypeOK, HasObject, Shared, OpenIsOpen
    <3> QED
      BY <3>1, <3>2 DEF IInv, Shared, Objects
  <2> QED
    BY <2>2, <2>3, <2>4
<1> QED
  BY <1>1, Inductive, PTL

\* A client that was told its tuner is open has an open tuner.
THEOREM FlagsTrue ==
  ASSUME ~ReopenMayFail
  PROVE  Spec => []OpenIsOpen
<1>1. IInv => OpenIsOpen
  BY DEF IInv, Shared
<1> QED
  BY <1>1, Inductive, PTL

\* Instances of one library use one driver object.
THEOREM OneObject ==
  ASSUME ~ReopenMayFail
  PROVE  Spec => []OneObjectPerModule
<1>1. IInv => OneObjectPerModule
  BY DEF IInv, Shared
<1> QED
  BY <1>1, Inductive, PTL

\* At most one user of a driver holds the exclusive channel lock.
THEOREM MutualExclusion ==
  ASSUME ~ReopenMayFail
  PROVE  Spec => []ExclusiveLock
<1>1. IInv => ExclusiveLock
  BY DEF IInv, Locking
<1> QED
  BY <1>1, Inductive, PTL

\* Whoever waits for the exclusive lock waits once, behind a holder on the same
\* reader.
THEOREM NobodyWaitsInVain ==
  ASSUME ~ReopenMayFail
  PROVE  Spec => []WaitersHaveHolder
<1>1. IInv => WaitersHaveHolder
  BY DEF IInv, Locking
<1> QED
  BY <1>1, Inductive, PTL

-----------------------------------------------------------------------------
(* What a step does to the locks.                                          *)

\* eSetChannel2 takes no reader from anybody, and a lock only from a peer
\* without one; the holder keeps its own, and a waiter stays one.
LEMMA SetChannelLocks ==
  ASSUME IInv, NEW i \in Instances, SetChannel2(i)
  PROVE  /\ \A j \in Instances : m_hTsRead[j] # NULL => m_hTsRead'[j] = m_hTsRead[j]
         /\ \A j \in Instances \ {i} : \/ m_bChannelLock'[j] = m_bChannelLock[j]
                                       \/ m_hTsRead[j] = NULL /\ m_bChannelLock'[j] = 0
         /\ m_bChannelLock[i] = EXCLUSIVE => m_bChannelLock'[i] = EXCLUSIVE
         /\ Prio[i] = EXCLUSIVE /\ m_hTsRead[i] # NULL
              /\ (\E h \in Instances \ {i} : m_hTsRead[h] = m_hTsRead[i]
                                             /\ m_bChannelLock[h] = EXCLUSIVE)
            => m_bChannelLock'[i] = WAITING
<1>1. Tuning(i)
  BY SetChannelTuning
<1>2. /\ m_bChannelLock \in [Instances -> 0..EXCLUSIVE]
      /\ m_hTsRead \in [Instances -> Readers \cup {NULL}]
      /\ g_InstanceList \subseteq Instances /\ i \in g_InstanceList
  BY <1>1 DEF Tuning, IInv, Typed, TypeOK
<1>3. \A j \in Instances : m_hTsRead[j] # NULL => m_hTsRead'[j] = m_hTsRead[j]
  <2>1. ASSUME NEW a, Attach(i, a), m_hTsRead[i] # NULL => a = m_hTsRead[i]
        PROVE  \A j \in Instances : m_hTsRead[j] # NULL => m_hTsRead'[j] = m_hTsRead[j]
    BY <1>2, <2>1 DEF Attach
  <2>2. \A a \in StreamOf(i) : /\ m_hTsRead[i] # NULL => a = m_hTsRead[i]
                               /\ a = NULL => m_hTsRead[i] = NULL
    BY StreamOfPeers
  <2> DEFINE Joins(a) == Attach(i, a) /\ (m_hTsRead[i] # NULL => a = m_hTsRead[i])
  <2>3. (\E a : Joins(a)) \/ m_hTsRead' = m_hTsRead
    <3>1. CASE SetChannelLocked(i)
      BY <2>2, <3>1 DEF SetChannelLocked
    <3>2. CASE SetChannelQueued(i)
      BY <2>2, <3>2 DEF SetChannelQueued
    <3>3. CASE SetChannelSteal(i)
      BY <3>3 DEF SetChannelSteal
    <3>4. CASE SetChannelTune(i)
      BY <2>2, <3>4 DEF SetChannelTune
    <3> QED
      BY <3>1, <3>2, <3>3, <3>4 DEF SetChannel2
  <2> QED
    BY <2>1, <2>3
<1>4. \A h \in HavePriv(i) :
        /\ h \in g_InstanceList \ {i} /\ m_pIBon[h] = m_pIBon[i]
        /\ m_bChannelLock[h] = EXCLUSIVE /\ Prio[i] = EXCLUSIVE
  BY DEF HavePriv, Peers
<1>5. \A j \in Instances \ {i} : \/ m_bChannelLock'[j] = m_bChannelLock[j]
                                 \/ m_hTsRead[j] = NULL /\ m_bChannelLock'[j] = 0
  <2>1. CASE SetChannelSteal(i)
    <3> PICK h \in HavePriv(i) :
               m_bChannelLock' = [m_bChannelLock EXCEPT ![h] = 0, ![i] = EXCLUSIVE]
      BY <2>1 DEF SetChannelSteal
    <3>1. h \in Peers(i) /\ NULL \in StreamOf(i)
      BY <2>1 DEF SetChannelSteal, HavePriv
    <3>2. m_hTsRead[h] = NULL
      BY <3>1, StreamOfPeers
    <3> QED
      BY <1>2, <1>4, <3>2
  <2>2. CASE ~SetChannelSteal(i)
    BY <1>2, <2>2 DEF SetChannel2, SetChannelLocked, SetChannelQueued, SetChannelTune
  <2> QED
    BY <2>1, <2>2
<1>6. m_bChannelLock[i] = EXCLUSIVE => m_bChannelLock'[i] = EXCLUSIVE
  <2> SUFFICES ASSUME m_bChannelLock[i] = EXCLUSIVE PROVE m_bChannelLock'[i] = EXCLUSIVE
    OBVIOUS
  <2>1. HavePriv(i) = {}
    BY <1>2, <1>4 DEF IInv, Locking, ExclusiveLock
  <2>2. m_bChannelLock' = [m_bChannelLock EXCEPT ![i] = Prio[i]]
    BY <2>1 DEF SetChannel2, SetChannelLocked, SetChannelQueued, SetChannelSteal, SetChannelTune
  <2> QED
    BY <1>2, <2>2 DEF IInv, Locking, Locks
<1>7. ASSUME Prio[i] = EXCLUSIVE, m_hTsRead[i] # NULL, NEW h \in Instances \ {i},
             m_hTsRead[h] = m_hTsRead[i], m_bChannelLock[h] = EXCLUSIVE
      PROVE  m_bChannelLock'[i] = WAITING
  <2>1. h \in g_InstanceList /\ m_pIBon[h] = m_pIBon[i] /\ m_pIBon[i] # NULL
    BY <1>7, ReaderMates, NullAssumption
  <2>2. HavePriv(i) # {}
    BY <1>7, <2>1 DEF HavePriv, Peers
  <2>3. StreamOf(i) # {NULL}
    BY <1>7 DEF StreamOf
  <2>4. m_bChannelLock' = [m_bChannelLock EXCEPT ![i] = WAITING]
    BY <2>2, <2>3 DEF SetChannel2, SetChannelLocked, SetChannelQueued, SetChannelSteal, SetChannelTune
  <2> QED
    BY <1>2, <2>4
<1> QED
  BY <1>3, <1>5, <1>6, <1>7

\* A step that is no eSetChannel2 and no leaving leaves the locks alone.
LEMMA OtherLocks ==
  ASSUME NEW i \in Instances,
         \/ Accept(i) \/ (\E n \in Names : SelectBonDriver(i, n))
         \/ CreateBonDriver(i) \/ OpenTuner(i)
  PROVE  UNCHANGED <<m_hTsRead, m_bChannelLock, running, waitList>>
BY DEF Accept, SelectBonDriver, CreateBonDriver, OpenTuner, instVars, readerVars

\* While a stream runs, an exclusive lock is lost only by its holder closing or
\* leaving.
THEOREM HolderKeepsLock ==
  ASSUME ~ReopenMayFail
  PROVE  Spec => NoPreemption
<1> DEFINE Kept == \A i \in Instances :
              m_bChannelLock[i] = EXCLUSIVE /\ m_hTsRead[i] # NULL /\ m_bTunerOpen'[i] =>
                m_bChannelLock'[i] = EXCLUSIVE
<1>1. IInv /\ [Next]_vars => Kept
  <2> SUFFICES ASSUME IInv, [Next]_vars, NEW i \in Instances,
                      m_bChannelLock[i] = EXCLUSIVE, m_hTsRead[i] # NULL, m_bTunerOpen'[i]
               PROVE  m_bChannelLock'[i] = EXCLUSIVE
    OBVIOUS
  <2>1. ASSUME NEW j \in Instances, CloseTuner(j) \/ Destroy(j)
        PROVE  m_bChannelLock'[i] = EXCLUSIVE
    <3>1. Leaving(j) /\ (LeavingLast(j) \/ LeavingShared(j))
      BY <2>1, CloseLeaving, DestroyLeaving
    <3>2. j # i
      BY <3>1 DEF Leaving, IInv, Typed, TypeOK
    <3> QED
      BY <3>1, <3>2, LeavingLocks
  <2>2. ASSUME NEW j \in Instances, SetChannel2(j) PROVE m_bChannelLock'[i] = EXCLUSIVE
    BY <2>2, SetChannelLocks
  <2>3. ASSUME NEW j \in Instances,
               \/ Accept(j) \/ (\E n \in Names : SelectBonDriver(j, n))
               \/ CreateBonDriver(j) \/ OpenTuner(j)
        PROVE  m_bChannelLock'[i] = EXCLUSIVE
    BY <2>3, OtherLocks
  <2>4. CASE UNCHANGED vars
    BY <2>4 DEF vars, instVars
  <2> QED
    BY <2>1, <2>2, <2>3, <2>4 DEF Next
<1>2. Spec => [][Kept]_vars
  BY <1>1, Inductive, PTL DEF Spec
<1> QED
  BY <1>2 DEF NoPreemption

\* A driver is tuned only for a user whose lock no other user's exceeds.
THEOREM TunedByHighest == Spec => LockHonoured
<1> DEFINE Highest == \A d \in Drivers :
              channel'[d] # channel[d] /\ channel'[d] # NULL =>
                \A j \in g_InstanceList' :
                  m_pIBon'[j] = d => m_bChannelLock'[j] <= m_bChannelLock'[channel'[d]]
<1>1. Typed /\ [Next]_vars => Highest
  <2> SUFFICES ASSUME Typed, [Next]_vars, NEW d \in Drivers,
                      channel'[d] # channel[d], channel'[d] # NULL,
                      NEW j \in g_InstanceList', m_pIBon'[j] = d
               PROVE  m_bChannelLock'[j] <= m_bChannelLock'[channel'[d]]
    OBVIOUS
  <2>1. ~UNCHANGED channel
    OBVIOUS
  <2>2. \A i \in Instances : ~Accept(i) /\ ~OpenTuner(i) /\ \A n \in Names : ~SelectBonDriver(i, n)
    BY <2>1 DEF Accept, OpenTuner, SelectBonDriver, driverVars
  <2>3. \A i \in Instances : ~CreateBonDriver(i)
    BY <2>1 DEF CreateBonDriver, CreateShared, CreateLoop, CreateObject, driverVars
  <2>4. \A i \in Instances : ~CloseTuner(i) /\ ~Destroy(i)
    BY <2>1 DEF CloseTuner, CloseLast, CloseShared, Destroy, DestroyLast, DestroyShared,
                driverVars, Typed, TypeOK
  <2>5. PICK i \in Instances : SetChannel2(i)
    BY <2>1, <2>2, <2>3, <2>4 DEF Next, vars, driverVars
  <2>6. SetChannelTune(i) /\ channel' = [channel EXCEPT ![m_pIBon[i]] = i]
    BY <2>1, <2>5 DEF SetChannel2, SetChannelLocked, SetChannelQueued, SetChannelSteal, SetChannelTune
  <2>7. /\ m_pIBon[i] = d /\ channel'[d] = i /\ m_pIBon[j] = d
        /\ j \in g_InstanceList /\ j \in Instances
    BY <2>5, <2>6 DEF SetChannel2, Typed, TypeOK
  <2>8. /\ m_bChannelLock' = [m_bChannelLock EXCEPT ![i] = Prio[i]] /\ Higher(i) = {}
        /\ m_bChannelLock \in [Instances -> 0..EXCLUSIVE] /\ Prio[i] \in 0..EXCLUSIVE
    BY <2>6, PrioAssumption DEF SetChannelTune, Typed, TypeOK
  <2>9. CASE j = i
    BY <2>7, <2>8, <2>9 DEF EXCLUSIVE
  <2>10. CASE j # i
    <3>1. j \in Peers(i)
      BY <2>7, <2>10, NullAssumption DEF Peers
    <3>2. ~(m_bChannelLock[j] > Prio[i])
      BY <2>8, <3>1 DEF Higher
    <3>3. m_bChannelLock[j] \in Int /\ Prio[i] \in Int
      BY <2>7, <2>8
    <3>4. m_bChannelLock[j] <= Prio[i]
      BY <3>2, <3>3
    <3>5. m_bChannelLock'[j] = m_bChannelLock[j] /\ m_bChannelLock'[i] = Prio[i]
      BY <2>7, <2>8, <2>10
    <3> QED
      BY <2>7, <3>4, <3>5
  <2> QED
    BY <2>9, <2>10
<1>2. Spec => [][Highest]_vars
  BY <1>1, TypedInit, TypedStep, PTL DEF Spec
<1> QED
  BY <1>2 DEF LockHonoured

\* The exclusive lock passes to the waiters in the order of their requests: a
\* holder that leaves passes it to the head of the queue, and no step gives it
\* to a waiter behind the head.
THEOREM QueueInOrder ==
  ASSUME ~ReopenMayFail
  PROVE  Spec => HandedOverInOrder
<1> DEFINE Passed(a) == waitList[a] # << >> /\ (\E h \in Instances : m_hTsRead[h] = a
                          /\ m_bChannelLock[h] = EXCLUSIVE /\ m_hTsRead'[h] # a)
                        => m_bChannelLock'[Head(waitList[a])] = EXCLUSIVE
           Behind(a) == \A k \in 2..Len(waitList[a]) : m_bChannelLock'[waitList[a][k]] # EXCLUSIVE
           InOrder == \A a \in running \cap running' :
                        /\ waitList[a] # << >> /\ (\E h \in Instances : m_hTsRead[h] = a
                             /\ m_bChannelLock[h] = EXCLUSIVE /\ m_hTsRead'[h] # a)
                           => m_bChannelLock'[Head(waitList[a])] = EXCLUSIVE
                        /\ \A k \in 2..Len(waitList[a]) : m_bChannelLock'[waitList[a][k]] # EXCLUSIVE
<1>1. IInv /\ [Next]_vars => InOrder
  <2> SUFFICES ASSUME IInv, [Next]_vars, NEW a \in running \cap running'
               PROVE  Passed(a) /\ Behind(a)
    OBVIOUS
  <2>1. /\ a \in Readers /\ a # NULL /\ waitList[a] \in Seq(Instances) /\ Len(waitList[a]) \in Nat
        /\ \A k \in 1..Len(waitList[a]) : waitList[a][k] \in Instances
    BY NullAssumption, LenProperties, ElementOfSeq DEF IInv, Typed, TypeOK
  <2>2. \A k \in 1..Len(waitList[a]) :
          /\ m_hTsRead[waitList[a][k]] = a /\ m_bChannelLock[waitList[a][k]] = WAITING
          /\ Prio[waitList[a][k]] = EXCLUSIVE
          /\ \A l \in 1..Len(waitList[a]) : waitList[a][l] = waitList[a][k] => l = k
          /\ \E h \in g_InstanceList : m_hTsRead[h] = a /\ m_bChannelLock[h] = EXCLUSIVE
    BY DEF IInv, Locking, WaitersHaveHolder, Queues
  <2>3. WAITING # EXCLUSIVE /\ 0 # EXCLUSIVE
    BY DEF WAITING, EXCLUSIVE
  <2>4. waitList[a] # << >> => 1 \in 1..Len(waitList[a]) /\ Head(waitList[a]) = waitList[a][1]
    BY <2>1, EmptySeq
  <2>5. \A k \in 2..Len(waitList[a]) : k \in 1..Len(waitList[a]) /\ 1 \in 1..Len(waitList[a]) /\ k # 1
    BY <2>1
  <2>6. g_InstanceList \subseteq Instances
    BY DEF IInv, Typed, TypeOK
  <2>7. ASSUME NEW i \in Instances, CloseTuner(i) \/ Destroy(i) PROVE Passed(a) /\ Behind(a)
    <3>1. Leaving(i) /\ (LeavingLast(i) \/ LeavingShared(i))
      BY <2>7, CloseLeaving, DestroyLeaving
    <3>2. \A j \in Instances \ {i} : m_hTsRead'[j] = m_hTsRead[j]
      BY <3>1 DEF Leaving, IInv, Typed, TypeOK
    <3>3. Passed(a)
      <4> SUFFICES ASSUME waitList[a] # << >>, NEW h \in Instances, m_hTsRead[h] = a,
                          m_bChannelLock[h] = EXCLUSIVE, m_hTsRead'[h] # a
                   PROVE  m_bChannelLock'[Head(waitList[a])] = EXCLUSIVE
        OBVIOUS
      <4>1. h = i
        BY <3>2
      <4>2. ~LeavingLast(i)
        BY <2>1, <4>1 DEF LeavingLast, StopReader
      <4> QED
        BY <2>1, <2>4, <3>1, <4>1, <4>2, LeavingLocks
    <3>4. Behind(a)
      <4> SUFFICES ASSUME NEW k \in 2..Len(waitList[a])
                   PROVE  m_bChannelLock'[waitList[a][k]] # EXCLUSIVE
        OBVIOUS
      <4> DEFINE w == waitList[a][k]
      <4>1. /\ w \in Instances /\ m_hTsRead[w] = a /\ m_bChannelLock[w] = WAITING
            /\ w # waitList[a][1]
        BY <2>1, <2>2, <2>5
      <4> HIDE DEF w
      <4>2. CASE w = i
        BY <2>3, <3>1, <4>2, LeavingLocks DEF w
      <4>3. CASE w # i
        <5>1. CASE \A j \in Instances \ {i} : m_bChannelLock'[j] = m_bChannelLock[j]
          BY <2>3, <4>1, <4>3, <5>1 DEF w
        <5>2. ASSUME NEW h \in Instances \ {i}, h = waitList[m_hTsRead[i]][1],
                     m_hTsRead[h] = m_hTsRead[i],
                     \A j \in Instances \ {i, h} : m_bChannelLock'[j] = m_bChannelLock[j]
              PROVE  m_bChannelLock'[w] # EXCLUSIVE
          <6>1. w # h
            BY <4>1, <5>2
          <6> QED
            BY <2>3, <4>1, <4>3, <5>2, <6>1
        <5> QED
          BY <3>1, <5>1, <5>2, LeavingLocks DEF w
      <4> QED
        BY <4>2, <4>3
    <3> QED
      BY <3>3, <3>4
  <2>8. ASSUME NEW i \in Instances, SetChannel2(i) PROVE Passed(a) /\ Behind(a)
    <3>1. \A j \in Instances : m_hTsRead[j] # NULL => m_hTsRead'[j] = m_hTsRead[j]
      BY <2>8, SetChannelLocks
    <3>2. Passed(a)
      BY <2>1, <3>1
    <3>3. Behind(a)
      <4> SUFFICES ASSUME NEW k \in 2..Len(waitList[a])
                   PROVE  m_bChannelLock'[waitList[a][k]] # EXCLUSIVE
        OBVIOUS
      <4> DEFINE w == waitList[a][k]
      <4>1. /\ w \in Instances /\ m_hTsRead[w] = a /\ m_bChannelLock[w] = WAITING
            /\ Prio[w] = EXCLUSIVE
            /\ \E h \in g_InstanceList : m_hTsRead[h] = a /\ m_bChannelLock[h] = EXCLUSIVE
        BY <2>1, <2>2, <2>5
      <4> HIDE DEF w
      <4>2. CASE w = i
        <5> PICK h \in g_InstanceList : m_hTsRead[h] = a /\ m_bChannelLock[h] = EXCLUSIVE
          BY <4>1
        <5>1. h \in Instances \ {i}
          BY <2>3, <2>6, <4>1, <4>2
        <5>2. m_bChannelLock'[i] = WAITING
          BY <2>1, <2>8, <4>1, <4>2, <5>1, SetChannelLocks
        <5> QED
          BY <2>3, <4>2, <5>2 DEF w
      <4>3. CASE w # i
        BY <2>3, <2>8, <4>1, <4>3, SetChannelLocks DEF w
      <4> QED
        BY <4>2, <4>3
    <3> QED
      BY <3>2, <3>3
  <2>9. ASSUME UNCHANGED <<m_hTsRead, m_bChannelLock>> PROVE Passed(a) /\ Behind(a)
    <3>1. Passed(a)
      BY <2>9
    <3>2. Behind(a)
      BY <2>2, <2>3, <2>5, <2>9
    <3> QED
      BY <3>1, <3>2
  <2>10. ASSUME NEW i \in Instances,
                \/ Accept(i) \/ (\E n \in Names : SelectBonDriver(i, n))
                \/ CreateBonDriver(i) \/ OpenTuner(i)
         PROVE  Passed(a) /\ Behind(a)
    BY <2>9, <2>10, OtherLocks
  <2>11. CASE UNCHANGED vars
    BY <2>9, <2>11 DEF vars, instVars
  <2> QED
    <3> HIDE DEF Passed, Behind
    <3> QED
      BY <2>7, <2>8, <2>10, <2>11 DEF Next
<1>2. Spec => [][InOrder]_vars
  BY <1>1, Inductive, PTL DEF Spec
<1> QED
  BY <1>2 DEF HandedOverInOrder

-----------------------------------------------------------------------------
(* The channel lock of DriverSharing implements ExclusivePriv.             *)

\* The one holder, reader and queue of a driver, as the mapping chooses them.
View ==
  \A d \in Drivers :
    /\ HoldersOf(d) = {} => Holder(d) = NULL /\ ~Served(d)
    /\ \A h \in HoldersOf(d) : Holder(d) = h /\ (Served(d) <=> m_hTsRead[h] # NULL)
    /\ ReadersOf(d) = {} => Queue(d) = << >>
    /\ \A a \in ReadersOf(d) : Queue(d) = waitList[a]

LEMMA ViewHolds == IInv => View
<1> SUFFICES ASSUME IInv, NEW d \in Drivers
             PROVE  /\ HoldersOf(d) = {} => Holder(d) = NULL /\ ~Served(d)
                    /\ \A h \in HoldersOf(d) : Holder(d) = h /\ (Served(d) <=> m_hTsRead[h] # NULL)
                    /\ ReadersOf(d) = {} => Queue(d) = << >>
                    /\ \A a \in ReadersOf(d) : Queue(d) = waitList[a]
  BY DEF View
<1>1. HoldersOf(d) = {} => Holder(d) = NULL /\ ~Served(d)
  BY DEF Holder, Served
<1>2. \A g, h \in HoldersOf(d) : g = h
  BY DEF HoldersOf, IInv, Locking, ExclusiveLock
<1>3. \A h \in HoldersOf(d) : Holder(d) = h /\ (Served(d) <=> m_hTsRead[h] # NULL)
  BY <1>2 DEF Holder, Served
<1>4. ReadersOf(d) = {} => Queue(d) = << >>
  BY DEF Queue
<1>5. \A a, b \in ReadersOf(d) : a = b
  BY DEF ReadersOf, IInv, Streams, Running
<1>6. \A a \in ReadersOf(d) : Queue(d) = waitList[a]
  BY <1>5 DEF Queue
<1> QED
  BY <1>1, <1>3, <1>4, <1>6

LEMMA ViewHoldsNext == IInv' => View'
BY ViewHolds, PTL

Same(d) == Holder(d)' = Holder(d) /\ (Served(d)' <=> Served(d)) /\ Queue(d)' = Queue(d)

\* What a step may do to the lock of driver d.
Change(d) ==
  \/ Same(d)
  \/ \E c \in Instances : Holder(d) = NULL /\ Holder(d)' = c /\ Queue(d)' = Queue(d)
  \/ /\ Holder(d) # NULL /\ ~Served(d) /\ Served(d)'
     /\ Holder(d)' = Holder(d) /\ Queue(d)' = Queue(d)
  \/ \E c \in Instances :
       /\ Holder(d) \notin {NULL, c} /\ Served(d) /\ \A k \in 1..Len(Queue(d)) : Queue(d)[k] # c
       /\ Queue(d)' = Append(Queue(d), c)
       /\ Holder(d)' = Holder(d) /\ Served(d)'
  \/ \E c \in Instances :
       /\ Holder(d) \notin {NULL, c} /\ ~Served(d)
       /\ Holder(d)' = c /\ ~Served(d)' /\ Queue(d)' = Queue(d)
  \/ /\ Holder(d) # NULL /\ Queue(d) = << >>
     /\ Holder(d)' = NULL /\ ~Served(d)' /\ Queue(d)' = << >>
  \/ /\ Holder(d) # NULL /\ Queue(d) # << >>
     /\ Holder(d)' = Head(Queue(d)) /\ (Served(d)' <=> Served(d)) /\ Queue(d)' = Tail(Queue(d))
  \/ \E k \in 1..Len(Queue(d)) :
       /\ Queue(d)' = SubSeq(Queue(d), 1, k - 1) \o SubSeq(Queue(d), k + 1, Len(Queue(d)))
       /\ Holder(d)' = Holder(d) /\ (Served(d)' <=> Served(d))

LEMMA StepOfOne ==
  ASSUME NEW d \in Drivers, \A e \in Drivers \ {d} : Same(e), Change(d)
  PROVE  [Priv!Next]_(Priv!vars)
<1> DEFINE hold == [e \in Drivers |-> Holder(e)]
           serve == [e \in Drivers |-> Served(e)]
           wait == [e \in Drivers |-> Queue(e)]
<1>1. \A b : Holder(d)' = b => hold' = [hold EXCEPT ![d] = b]
  BY DEF Same
<1>2. \A b \in BOOLEAN : (Served(d)' <=> b) => serve' = [serve EXCEPT ![d] = b]
  BY DEF Same, Served
<1>3. \A b : Queue(d)' = b => wait' = [wait EXCEPT ![d] = b]
  BY DEF Same
<1>4. /\ Holder(d)' = Holder(d) => hold' = hold
      /\ (Served(d)' <=> Served(d)) => serve' = serve
      /\ Queue(d)' = Queue(d) => wait' = wait
  BY DEF Same, Served
<1>5. hold[d] = Holder(d) /\ serve[d] = Served(d) /\ wait[d] = Queue(d) /\ Served(d)' \in BOOLEAN
  BY DEF Served
<1> HIDE DEF hold, serve, wait
<1>6. CASE Same(d)
  <2>1. UNCHANGED <<hold, serve, wait>>
    BY <1>4, <1>6 DEF Same
  <2> QED
    BY <2>1 DEF hold, serve, wait, Priv!vars
<1>7. ASSUME NEW c \in Instances, Holder(d) = NULL, Holder(d)' = c, Queue(d)' = Queue(d)
      PROVE  Priv!Next
  <2>1. Priv!Take(d, c)
    BY <1>1, <1>2, <1>4, <1>5, <1>7 DEF Priv!Take, hold, serve, wait
  <2> QED
    BY <2>1 DEF Priv!Next
<1>8. ASSUME Holder(d) # NULL, ~Served(d), Served(d)', Holder(d)' = Holder(d), Queue(d)' = Queue(d)
      PROVE  Priv!Next
  <2>1. Priv!Serve(d)
    BY <1>2, <1>4, <1>5, <1>8 DEF Priv!Serve, hold, serve, wait
  <2> QED
    BY <2>1 DEF Priv!Next
<1>9. ASSUME NEW c \in Instances, Holder(d) \notin {NULL, c}, Served(d),
             \A k \in 1..Len(Queue(d)) : Queue(d)[k] # c,
             Queue(d)' = Append(Queue(d), c), Holder(d)' = Holder(d), Served(d)'
      PROVE  Priv!Next
  <2>1. hold[d] \notin {NULL, c} /\ \A k \in 1..Len(wait[d]) : wait[d][k] # c
    BY <1>5, <1>9
  <2>2. serve[d]
    BY <1>5, <1>9
  <2>3. wait' = [wait EXCEPT ![d] = Append(wait[d], c)]
    BY <1>3, <1>5, <1>9
  <2>4. UNCHANGED <<hold, serve>>
    BY <1>4, <1>9
  <2>5. Priv!Wait(d, c)
    BY <2>1, <2>2, <2>3, <2>4 DEF Priv!Wait, hold, serve, wait
  <2> QED
    BY <2>5 DEF Priv!Next
<1>10. ASSUME NEW c \in Instances, Holder(d) \notin {NULL, c}, ~Served(d),
              Holder(d)' = c, ~Served(d)', Queue(d)' = Queue(d)
       PROVE  Priv!Next
  <2>1. Priv!Replace(d, c)
    BY <1>1, <1>4, <1>5, <1>10 DEF Priv!Replace, hold, serve, wait
  <2> QED
    BY <2>1 DEF Priv!Next
<1>11. ASSUME Holder(d) # NULL, Queue(d) = << >>, Holder(d)' = NULL, ~Served(d)', Queue(d)' = << >>
       PROVE  Priv!Next
  <2>1. Priv!Leave(d)
    BY <1>1, <1>2, <1>4, <1>5, <1>11 DEF Priv!Leave, hold, serve, wait
  <2> QED
    BY <2>1 DEF Priv!Next
<1>12. ASSUME Holder(d) # NULL, Queue(d) # << >>, Holder(d)' = Head(Queue(d)),
              Served(d)' <=> Served(d), Queue(d)' = Tail(Queue(d))
       PROVE  Priv!Next
  <2>1. Priv!Leave(d)
    BY <1>1, <1>3, <1>4, <1>5, <1>12 DEF Priv!Leave, hold, serve, wait
  <2> QED
    BY <2>1 DEF Priv!Next
<1>13. ASSUME NEW k \in 1..Len(Queue(d)),
              Queue(d)' = SubSeq(Queue(d), 1, k - 1) \o SubSeq(Queue(d), k + 1, Len(Queue(d))),
              Holder(d)' = Holder(d), Served(d)' <=> Served(d)
       PROVE  Priv!Next
  <2>1. Priv!GiveUp(d, k)
    BY <1>3, <1>4, <1>5, <1>13 DEF Priv!GiveUp, hold, serve, wait
  <2> QED
    BY <1>5, <1>13, <2>1 DEF Priv!Next, wait
<1> QED
  BY <1>6, <1>7, <1>8, <1>9, <1>10, <1>11, <1>12, <1>13 DEF Change

LEMMA StepOfNone ==
  ASSUME \A d \in Drivers : Same(d)
  PROVE  [Priv!Next]_(Priv!vars)
<1>1. \A d \in Drivers : Served(d)' = Served(d)
  BY DEF Same, Served
<1> QED
  BY <1>1 DEF Priv!vars, Same

\* A driver whose holder, whose readers and whose queue stay is not changed.
LEMMA HolderStays ==
  ASSUME NEW d \in Drivers, HoldersOf(d)' = HoldersOf(d),
         \A h \in HoldersOf(d) : m_hTsRead'[h] = NULL <=> m_hTsRead[h] = NULL
  PROVE  Holder(d)' = Holder(d) /\ (Served(d)' <=> Served(d))
<1>1. Holder(d)' = Holder(d)
  BY DEF Holder
<1>2. Served(d)' <=> Served(d)
  BY DEF Served
<1> QED
  BY <1>1, <1>2

LEMMA QueueStays ==
  ASSUME View, View', NEW d \in Drivers, ReadersOf(d)' = ReadersOf(d),
         \A a \in ReadersOf(d) : waitList'[a] = waitList[a]
  PROVE  Queue(d)' = Queue(d)
<1>1. CASE ReadersOf(d) = {}
  BY <1>1 DEF View
<1>2. ASSUME NEW a \in ReadersOf(d) PROVE Queue(d)' = Queue(d)
  BY <1>2 DEF View
<1> QED
  BY <1>1, <1>2

-----------------------------------------------------------------------------
(* Leaving: eCloseTuner and the destructor                                 *)

\* An instance that waits once leaves the queue as in GiveUp.
LEMMA WithoutIs ==
  ASSUME NEW q \in Seq(Instances), NEW i \in Instances, NEW k \in 1..Len(q), q[k] = i,
         \A l, m \in 1..Len(q) : q[l] = q[m] => l = m
  PROVE  Without(q, i) = SubSeq(q, 1, k - 1) \o SubSeq(q, k + 1, Len(q))
<1> DEFINE w == Without(q, i)
           l == SubSeq(q, 1, k - 1)
           r == SubSeq(q, k + 1, Len(q))
           e == [m \in 1..(Len(q) - 1) |-> IF m < k THEN q[m] ELSE q[m + 1]]
<1>1. Len(q) \in Nat /\ k \in Nat /\ k >= 1 /\ k <= Len(q)
  BY LenProperties
<1>2. (CHOOSE m \in 1..Len(q) : q[m] = i) = k
  OBVIOUS
<1>3. w = e
  BY <1>2 DEF Without
<1>4. /\ l \in Seq(Instances) /\ Len(l) = k - 1
      /\ \A m \in 1..(k - 1) : l[m] = q[m]
  BY <1>1, SubSeqProperties
<1>5. /\ r \in Seq(Instances) /\ Len(r) = Len(q) - k
      /\ \A m \in 1..(Len(q) - k) : r[m] = q[k + m]
  BY <1>1, SubSeqProperties
<1>6. Len(e) = Len(q) - 1 /\ \A m \in 1..(Len(q) - 1) : e[m] = IF m < k THEN q[m] ELSE q[m + 1]
  <2>1. Len(q) - 1 \in Nat
    BY <1>1
  <2> QED
    BY <2>1
<1> HIDE DEF w, l, r, e
<1>7. /\ l \o r \in Seq(Instances) /\ Len(l \o r) = Len(q) - 1
      /\ \A m \in 1..(Len(q) - 1) : (l \o r)[m] = IF m <= k - 1 THEN l[m] ELSE r[m - (k - 1)]
  <2>1. Len(l) + Len(r) = Len(q) - 1
    BY <1>1, <1>4, <1>5
  <2>2. /\ l \o r \in Seq(Instances) /\ Len(l \o r) = Len(l) + Len(r)
        /\ \A m \in 1..(Len(l) + Len(r)) : (l \o r)[m] = IF m <= Len(l) THEN l[m] ELSE r[m - Len(l)]
    <3>1. l \in Seq(Instances) /\ r \in Seq(Instances)
      BY <1>4, <1>5
    <3> QED
      BY <3>1, ConcatProperties
  <2>3. \A m \in 1..(Len(q) - 1) : (l \o r)[m] = IF m <= Len(l) THEN l[m] ELSE r[m - Len(l)]
    BY <2>1, <2>2, Zenon
  <2>4. Len(l) = k - 1
    BY <1>4
  <2> QED
    BY <2>1, <2>2, <2>3, <2>4, Zenon
<1>8. \A m \in 1..(Len(q) - 1) : w[m] = (l \o r)[m]
  <2> SUFFICES ASSUME NEW m \in 1..(Len(q) - 1) PROVE w[m] = (l \o r)[m]
    OBVIOUS
  <2>1. CASE m <= k - 1
    <3>1. m \in 1..(k - 1) /\ m < k
      BY <1>1, <2>1
    <3> QED
      BY <1>3, <1>4, <1>6, <1>7, <2>1, <3>1
  <2>2. CASE ~(m <= k - 1)
    <3>1. m - (k - 1) \in 1..(Len(q) - k) /\ k + (m - (k - 1)) = m + 1 /\ ~(m < k)
      BY <1>1, <2>2
    <3>2. (l \o r)[m] = r[m - (k - 1)]
      BY <1>7, <2>2
    <3>3. r[m - (k - 1)] = q[m + 1]
      BY <1>5, <3>1
    <3> QED
      BY <1>3, <1>6, <3>1, <3>2, <3>3
  <2> QED
    BY <1>1, <2>1, <2>2
<1>9. w \in Seq(Instances)
  BY WithoutType DEF w
<1> QED
  BY <1>3, <1>6, <1>7, <1>8, <1>9, SeqEqual DEF w, l, r

\* Where i has no exclusive lock, it leaves at most the queue.
LEMMA LeavingNoHolder ==
  ASSUME IInv, IInv', NEW i \in Instances, Leaving(i), LeavingLast(i) \/ LeavingShared(i),
         m_bChannelLock[i] # EXCLUSIVE
  PROVE  [Priv!Next]_(Priv!vars)
<1>1. View /\ View'
  BY ViewHolds, ViewHoldsNext
<1>2. /\ m_bChannelLock'[i] = 0 /\ 0 # EXCLUSIVE /\ WAITING # EXCLUSIVE
      /\ \A j \in Instances \ {i} : m_bChannelLock'[j] = m_bChannelLock[j]
  BY LeavingLocks DEF EXCLUSIVE, WAITING
<1>3. /\ \A j \in Instances \ {i} : m_hTsRead'[j] = m_hTsRead[j] /\ m_pIBon'[j] = m_pIBon[j]
      /\ g_InstanceList \subseteq Instances /\ g_InstanceList' \subseteq Instances
      /\ \A j \in Instances \ {i} : j \in g_InstanceList' <=> j \in g_InstanceList
  BY DEF Leaving, IInv, Typed, TypeOK
<1>4. running \subseteq Readers /\ waitList \in [Readers -> Seq(Instances)]
      /\ readerDriver \in [Readers -> Drivers \cup {NULL}]
  BY DEF IInv, Typed, TypeOK
<1>5. ASSUME NEW d \in Drivers
      PROVE  Holder(d)' = Holder(d) /\ (Served(d)' <=> Served(d))
  <2>1. HoldersOf(d)' = HoldersOf(d)
    BY <1>2, <1>3 DEF HoldersOf
  <2>2. \A h \in HoldersOf(d) : m_hTsRead'[h] = m_hTsRead[h]
    BY <1>3 DEF HoldersOf
  <2> QED
    BY <2>1, <2>2, HolderStays
<1>6. CASE m_hTsRead[i] = NULL /\ UNCHANGED readerVars
  <2>1. \A d \in Drivers : Queue(d)' = Queue(d)
    BY <1>6 DEF readerVars, Queue, ReadersOf
  <2> QED
    BY <1>5, <2>1, StepOfNone DEF Same
<1>7. ASSUME NEW a \in Readers, a = m_hTsRead[i], a # NULL, NEW d \in Drivers, d = readerDriver[a]
      PROVE  a \in running /\ Queue(d) = waitList[a]
  <2>1. a \in running
    BY <1>7, ReaderMates
  <2>2. a \in ReadersOf(d)
    BY <1>7, <2>1 DEF ReadersOf
  <2> QED
    BY <1>1, <2>1, <2>2 DEF View
<1>8. ASSUME NEW a \in Readers, a = m_hTsRead[i], a # NULL, NEW d \in Drivers, d = readerDriver[a],
             StopReader(a), \A j \in Instances \ {i} : m_hTsRead[j] # a
      PROVE  [Priv!Next]_(Priv!vars)
  <2>1. a \in running /\ Queue(d) = waitList[a]
    BY <1>7, <1>8
  <2>2. waitList[a] = << >>
    <3>1. \A k \in 1..Len(waitList[a]) : FALSE
      BY <1>3, <1>8, <2>1 DEF IInv, Locking, WaitersHaveHolder
    <3> QED
      BY <1>4, <2>1, <3>1, EmptySeq, LenProperties
  <2>3. running' = running \ {a} /\ \A b \in Readers \ {a} : waitList'[b] = waitList[b]
                                                        /\ readerDriver'[b] = readerDriver[b]
    BY <1>4, <1>8 DEF StopReader
  <2>4. ASSUME NEW e \in Drivers, e # d PROVE Queue(e)' = Queue(e)
    <3>1. ReadersOf(e)' = ReadersOf(e) /\ \A b \in ReadersOf(e) : waitList'[b] = waitList[b]
      BY <1>4, <1>8, <2>3, <2>4 DEF ReadersOf
    <3> QED
      BY <1>1, <3>1, QueueStays
  <2>5. Queue(d)' = << >>
    <3>1. ReadersOf(d)' = {}
      BY <1>4, <1>8, <2>1, <2>3 DEF ReadersOf, IInv, Streams, Running
    <3> QED
      BY <1>1, <3>1 DEF View
  <2> QED
    BY <1>5, <2>1, <2>2, <2>4, <2>5, StepOfNone DEF Same
<1>9. ASSUME NEW a \in Readers, a = m_hTsRead[i], a # NULL, NEW d \in Drivers, d = readerDriver[a],
             waitList' = [waitList EXCEPT ![a] = Without(@, i)],
             UNCHANGED <<running, readerDriver>>
      PROVE  [Priv!Next]_(Priv!vars)
  <2>1. a \in running /\ Queue(d) = waitList[a]
    BY <1>7, <1>9
  <2>2. ASSUME NEW e \in Drivers, e # d PROVE Queue(e)' = Queue(e)
    <3>1. ReadersOf(e)' = ReadersOf(e) /\ \A b \in ReadersOf(e) : waitList'[b] = waitList[b]
      BY <1>4, <1>9, <2>1, <2>2 DEF ReadersOf
    <3> QED
      BY <1>1, <3>1, QueueStays
  <2>3. Queue(d)' = Without(waitList[a], i)
    <3>1. (a \in ReadersOf(d))'
      BY <1>9, <2>1 DEF ReadersOf
    <3>2. Queue(d)' = waitList'[a]
      BY <1>1, <3>1 DEF View
    <3> QED
      BY <1>4, <1>9, <3>2
  <2>4. CASE \E k \in 1..Len(waitList[a]) : waitList[a][k] = i
    <3> PICK k \in 1..Len(waitList[a]) : waitList[a][k] = i
      BY <2>4
    <3>1. \A l, m \in 1..Len(waitList[a]) : waitList[a][l] = waitList[a][m] => l = m
      BY <2>1 DEF IInv, Locking, WaitersHaveHolder
    <3>2. waitList[a] \in Seq(Instances)
      BY <1>4
    <3>3. Queue(d)' = SubSeq(Queue(d), 1, k - 1) \o SubSeq(Queue(d), k + 1, Len(Queue(d)))
      BY <2>1, <2>3, <3>1, <3>2, WithoutIs
    <3>4. Change(d)
      BY <1>5, <2>1, <3>3 DEF Change
    <3> QED
      BY <1>5, <2>2, <3>4, StepOfOne DEF Same
  <2>5. CASE ~ \E k \in 1..Len(waitList[a]) : waitList[a][k] = i
    <3>1. Queue(d)' = Queue(d)
      BY <2>1, <2>3, <2>5 DEF Without
    <3> QED
      BY <1>5, <2>2, <3>1, StepOfNone DEF Same
  <2> QED
    BY <2>4, <2>5
<1>10. m_hTsRead[i] # NULL => m_hTsRead[i] \in Readers /\ readerDriver[m_hTsRead[i]] \in Drivers
  BY ReaderMates
<1> QED
  BY <1>6, <1>8, <1>9, <1>10, LeavingReaders

\* A leaving holder frees the lock of its driver, or passes it on.
LEMMA LeavingHolder ==
  ASSUME IInv, IInv', NEW i \in Instances, Leaving(i), LeavingLast(i) \/ LeavingShared(i),
         m_bChannelLock[i] = EXCLUSIVE
  PROVE  [Priv!Next]_(Priv!vars)
<1>1. View /\ View'
  BY ViewHolds, ViewHoldsNext
<1>2. /\ m_bChannelLock'[i] = 0 /\ 0 # EXCLUSIVE /\ WAITING # EXCLUSIVE
  BY LeavingLocks DEF EXCLUSIVE, WAITING
<1>3. /\ \A j \in Instances \ {i} : m_hTsRead'[j] = m_hTsRead[j] /\ m_pIBon'[j] = m_pIBon[j]
      /\ g_InstanceList \subseteq Instances /\ g_InstanceList' \subseteq Instances
      /\ \A j \in Instances \ {i} : j \in g_InstanceList' <=> j \in g_InstanceList
  BY DEF Leaving, IInv, Typed, TypeOK
<1>4. running \subseteq Readers /\ waitList \in [Readers -> Seq(Instances)]
      /\ readerDriver \in [Readers -> Drivers \cup {NULL}]
      /\ m_hTsRead[i] \in Readers \cup {NULL}
  BY DEF IInv, Typed, TypeOK
<1>5. i \in g_InstanceList /\ m_pIBon[i] \in Drivers
  <2>1. i \in g_InstanceList
    BY <1>2 DEF IInv, Shared, Unlisted
  <2>2. i \in bBonDriver
    BY <1>2, <2>1 DEF IInv, Locking, Locks, Shared, OpenIsOpen, Typed, TypeOK
  <2> QED
    BY <2>1, <2>2 DEF IInv, Typed, TypeOK, HasObject
<1> PICK d \in Drivers : d = m_pIBon[i]
  BY <1>5
<1>6. i \in HoldersOf(d) /\ Holder(d) = i /\ i # NULL /\ (Served(d) <=> m_hTsRead[i] # NULL)
  BY <1>1, <1>5, NullAssumption DEF View, HoldersOf
<1>7. \A j \in g_InstanceList \ {i} : m_bChannelLock[j] = EXCLUSIVE => m_pIBon[j] # d
  BY <1>5 DEF IInv, Locking, ExclusiveLock
\* Nobody but an heir, who uses the same reader, gets a lock.
<1>8. ASSUME \A j \in Instances \ {i} : m_bChannelLock'[j] = m_bChannelLock[j]
      PROVE  /\ Holder(d)' = NULL /\ ~Served(d)'
             /\ \A e \in Drivers \ {d} : Holder(e)' = Holder(e) /\ (Served(e)' <=> Served(e))
  <2>1. HoldersOf(d)' = {}
    BY <1>2, <1>3, <1>7, <1>8 DEF HoldersOf
  <2>2. ASSUME NEW e \in Drivers \ {d} PROVE Holder(e)' = Holder(e) /\ (Served(e)' <=> Served(e))
    <3>1. i \notin HoldersOf(e)
      BY <2>2 DEF HoldersOf
    <3>2. HoldersOf(e)' = HoldersOf(e)
      BY <1>2, <1>3, <1>8, <3>1 DEF HoldersOf
    <3>3. \A h \in HoldersOf(e) : m_hTsRead'[h] = m_hTsRead[h]
      BY <1>3, <3>1 DEF HoldersOf
    <3> QED
      BY <3>2, <3>3, HolderStays
  <2> QED
    BY <1>1, <2>1, <2>2 DEF View
<1>9. CASE m_hTsRead[i] = NULL /\ UNCHANGED readerVars
  <2>1. \A e \in Drivers : Queue(e)' = Queue(e)
    BY <1>9 DEF readerVars, Queue, ReadersOf
  <2>2. Queue(d) = << >>
    <3>1. \A j \in g_InstanceList : m_pIBon[j] = d => m_hTsRead[j] = NULL
      BY <1>5, <1>9 DEF IInv, Locking, HolderHasStream
    <3>2. ReadersOf(d) = {}
      BY <1>4, <3>1, NullAssumption DEF ReadersOf, IInv, Streams, Running, Holders
    <3> QED
      BY <1>1, <3>2 DEF View
  <2>3. \A j \in Instances \ {i} : m_bChannelLock'[j] = m_bChannelLock[j]
    BY <1>9, LeavingLocks
  <2>4. Change(d)
    BY <1>6, <1>8, <2>1, <2>2, <2>3 DEF Change
  <2> QED
    BY <1>8, <2>1, <2>3, <2>4, StepOfOne DEF Same
\* What the reader leaves behind on its driver and on the others.
<1>10. ASSUME NEW a \in Readers, a = m_hTsRead[i], a # NULL
       PROVE  a \in running /\ readerDriver[a] = d /\ a \in ReadersOf(d) /\ Queue(d) = waitList[a]
  <2>1. a \in running /\ readerDriver[a] = d
    BY <1>10, ReaderMates
  <2>2. a \in ReadersOf(d)
    BY <2>1 DEF ReadersOf
  <2> QED
    BY <1>1, <2>1, <2>2 DEF View
<1>11. ASSUME NEW a \in Readers, a = m_hTsRead[i], a # NULL, StopReader(a),
              \A j \in Instances \ {i} : m_hTsRead[j] # a
       PROVE  [Priv!Next]_(Priv!vars)
  <2>1. a \in running /\ Queue(d) = waitList[a] /\ readerDriver[a] = d
    BY <1>10, <1>11
  <2>2. waitList[a] = << >>
    <3>1. ASSUME NEW k \in 1..Len(waitList[a]) PROVE FALSE
      <4>1. waitList[a][k] \in Instances
        BY <1>4, ElementOfSeq
      <4>2. m_hTsRead[waitList[a][k]] = a /\ m_bChannelLock[waitList[a][k]] = WAITING
        BY <2>1 DEF IInv, Locking, WaitersHaveHolder
      <4> QED
        BY <1>2, <1>11, <4>1, <4>2
    <3> QED
      BY <1>4, <2>1, <3>1, EmptySeq, LenProperties
  <2>3. running' = running \ {a} /\ \A b \in Readers \ {a} : waitList'[b] = waitList[b]
                                                        /\ readerDriver'[b] = readerDriver[b]
    BY <1>4, <1>11 DEF StopReader
  <2>4. ASSUME NEW e \in Drivers \ {d} PROVE Queue(e)' = Queue(e)
    <3>1. ReadersOf(e)' = ReadersOf(e) /\ \A b \in ReadersOf(e) : waitList'[b] = waitList[b]
      BY <1>4, <2>1, <2>3, <2>4 DEF ReadersOf
    <3> QED
      BY <1>1, <3>1, QueueStays
  <2>5. Queue(d)' = << >>
    <3>1. ReadersOf(d)' = {}
      BY <1>4, <2>1, <2>3 DEF ReadersOf, IInv, Streams, Running
    <3> QED
      BY <1>1, <3>1 DEF View
  <2>6. \A j \in Instances \ {i} : m_bChannelLock'[j] = m_bChannelLock[j]
    BY <1>11, LeavingLocks
  <2>7. Change(d)
    BY <1>6, <1>8, <2>1, <2>2, <2>5, <2>6 DEF Change
  <2> QED
    BY <1>8, <2>4, <2>6, <2>7, StepOfOne DEF Same
<1>12. ASSUME NEW a \in Readers, a = m_hTsRead[i], a # NULL,
              \E j \in Instances \ {i} : m_hTsRead[j] = a, LeavingShared(i),
              waitList' = [waitList EXCEPT ![a] = IF @ = << >> THEN @ ELSE Tail(@)],
              UNCHANGED <<running, readerDriver>>
       PROVE  [Priv!Next]_(Priv!vars)
  <2>1. a \in running /\ Queue(d) = waitList[a] /\ readerDriver[a] = d
    BY <1>10, <1>12
  <2>2. ASSUME NEW e \in Drivers \ {d} PROVE Queue(e)' = Queue(e)
    <3>1. ReadersOf(e)' = ReadersOf(e) /\ \A b \in ReadersOf(e) : waitList'[b] = waitList[b]
      BY <1>4, <1>12, <2>1, <2>2 DEF ReadersOf
    <3> QED
      BY <1>1, <3>1, QueueStays
  <2>3. Queue(d)' = waitList'[a]
    <3>1. (a \in ReadersOf(d))'
      BY <1>12, <2>1 DEF ReadersOf
    <3> QED
      BY <1>1, <3>1 DEF View
  <2>4. CASE waitList[a] = << >>
    <3>1. Queue(d) = << >> /\ Queue(d)' = << >>
      BY <1>4, <1>12, <2>1, <2>3, <2>4
    <3>2. \A j \in Instances \ {i} : m_bChannelLock'[j] = m_bChannelLock[j]
      BY <1>12, <2>4, LeavingLocks
    <3>3. Change(d)
      BY <1>6, <1>8, <3>1, <3>2 DEF Change
    <3> QED
      BY <1>8, <2>2, <3>2, <3>3, StepOfOne DEF Same
  <2>5. CASE waitList[a] # << >>
    <3>1. ~LeavingLast(i)
      BY <1>12 DEF LeavingLast
    <3> PICK h \in Instances \ {i} :
               /\ h = waitList[a][1] /\ m_hTsRead[h] = a /\ m_bChannelLock'[h] = EXCLUSIVE
               /\ \A j \in Instances \ {i, h} : m_bChannelLock'[j] = m_bChannelLock[j]
      BY <1>12, <2>5, <3>1, LeavingLocks
    <3>2. h \in g_InstanceList /\ m_pIBon[h] = d
      BY <1>12, ReaderMates
    <3>3. (h \in HoldersOf(d))'
      BY <1>3, <3>2 DEF HoldersOf
    <3>4. Holder(d)' = h /\ Served(d)'
      BY <1>1, <1>3, <1>12, <3>3 DEF View
    <3>5. Head(Queue(d)) = h /\ Queue(d)' = Tail(Queue(d)) /\ Queue(d) # << >>
      BY <1>4, <1>12, <2>1, <2>3, <2>5
    <3>6. Change(d)
      BY <1>6, <1>12, <3>4, <3>5 DEF Change
    <3>7. ASSUME NEW e \in Drivers \ {d} PROVE Holder(e)' = Holder(e) /\ (Served(e)' <=> Served(e))
      <4>1. i \notin HoldersOf(e) /\ h \notin HoldersOf(e)
        BY <3>2, <3>7 DEF HoldersOf
      <4>2. (h \notin HoldersOf(e))'
        BY <1>3, <3>2, <3>7 DEF HoldersOf
      <4>3. HoldersOf(e)' = HoldersOf(e)
        BY <1>2, <1>3, <4>1, <4>2 DEF HoldersOf
      <4>4. \A g \in HoldersOf(e) : m_hTsRead'[g] = m_hTsRead[g]
        BY <1>3, <4>1 DEF HoldersOf
      <4> QED
        BY <4>3, <4>4, HolderStays
    <3> QED
      BY <2>2, <3>6, <3>7, StepOfOne DEF Same
  <2> QED
    BY <2>4, <2>5
<1> QED
  BY <1>4, <1>9, <1>11, <1>12, LeavingReaders

-----------------------------------------------------------------------------
(* eSetChannel2                                                            *)

\* Without a stop of a reader the queues of the others, and of a driver whose
\* reader keeps its queue or starts with an empty one, stay.
LEMMA SetChannelQueues ==
  ASSUME IInv, IInv', NEW i \in Instances, NEW d \in Drivers, d = m_pIBon[i],
         running \subseteq running', \A a \in running : readerDriver'[a] = readerDriver[a],
         \A a \in running' \ running : readerDriver'[a] = d /\ ReadersOf(d) = {},
         waitList' = waitList
  PROVE  \A e \in Drivers : Queue(e)' = Queue(e)
<1>1. View /\ View'
  BY ViewHolds, ViewHoldsNext
<1>2. running \subseteq Readers /\ running' \subseteq Readers
  BY DEF IInv, Typed, TypeOK
<1>3. ASSUME NEW e \in Drivers \ {d} PROVE Queue(e)' = Queue(e)
  <2>1. ReadersOf(e)' = ReadersOf(e)
    BY <1>3 DEF ReadersOf
  <2> QED
    BY <1>1, <2>1, QueueStays
<1>4. Queue(d)' = Queue(d)
  <2>1. CASE running' = running
    <3>1. ReadersOf(d)' = ReadersOf(d)
      BY <2>1 DEF ReadersOf
    <3> QED
      BY <1>1, <3>1, QueueStays
  <2>2. ASSUME NEW a \in running' \ running PROVE Queue(d)' = Queue(d)
    <3>1. Queue(d) = << >>
      BY <1>1, <2>2 DEF View
    <3>2. (a \in ReadersOf(d))'
      BY <2>2 DEF ReadersOf
    <3>3. waitList[a] = << >>
      BY <1>2, <2>2 DEF IInv, Locking, Queues
    <3> QED
      BY <1>1, <3>1, <3>2, <3>3 DEF View
  <2> QED
    BY <2>1, <2>2
<1> QED
  BY <1>3, <1>4

LEMMA SetChannelPriv ==
  ASSUME IInv, IInv', NEW i \in Instances, SetChannel2(i)
  PROVE  [Priv!Next]_(Priv!vars)
<1>1. View /\ View'
  BY ViewHolds, ViewHoldsNext
<1>2. Tuning(i)
  BY SetChannelTuning
<1>3. /\ i \in g_InstanceList /\ g_InstanceList \subseteq Instances
      /\ UNCHANGED <<g_InstanceList, m_pIBon>>
      /\ m_bChannelLock \in [Instances -> 0..EXCLUSIVE]
      /\ m_hTsRead \in [Instances -> Readers \cup {NULL}]
      /\ running \subseteq Readers /\ waitList \in [Readers -> Seq(Instances)]
      /\ readerDriver \in [Readers -> Drivers \cup {NULL}]
      /\ i # NULL
  BY <1>2, NullAssumption DEF Tuning, IInv, Typed, TypeOK
<1>4. 0 # EXCLUSIVE /\ WAITING # EXCLUSIVE
  BY DEF EXCLUSIVE, WAITING
<1> PICK d \in Drivers : d = m_pIBon[i]
  BY <1>2 DEF Tuning
<1>5. \A j : j \in Peers(i) <=> j \in g_InstanceList \ {i} /\ m_pIBon[j] = d
  BY NullAssumption DEF Peers
\* Another driver has the same holder, if the locks of its users stay.
<1>6. ASSUME \A j \in Instances : m_pIBon[j] # d =>
               m_bChannelLock'[j] = m_bChannelLock[j] /\ m_hTsRead'[j] = m_hTsRead[j],
             NEW e \in Drivers \ {d}
      PROVE  Holder(e)' = Holder(e) /\ (Served(e)' <=> Served(e))
  <2>1. HoldersOf(e)' = HoldersOf(e)
    BY <1>3, <1>6 DEF HoldersOf
  <2>2. \A h \in HoldersOf(e) : m_hTsRead'[h] = m_hTsRead[h]
    BY <1>3, <1>6 DEF HoldersOf
  <2> QED
    BY <2>1, <2>2, HolderStays
\* A reader of the driver is in sight of i.
<1>7. NULL \in StreamOf(i) => ReadersOf(d) = {}
  <2>1. ASSUME NULL \in StreamOf(i) PROVE m_hTsRead[i] = NULL /\ \A j \in Peers(i) : m_hTsRead[j] = NULL
    BY <2>1, StreamOfPeers
  <2> QED
    BY <1>3, <1>5, <2>1, NullAssumption DEF ReadersOf, IInv, Streams, Running, Holders
<1>8. ASSUME SetChannelLocked(i) PROVE [Priv!Next]_(Priv!vars)
  <2> PICK a \in StreamOf(i) : Attach(i, a)
    BY <1>8 DEF SetChannelLocked
  <2>1. /\ HavePriv(i) = {} /\ Higher(i) # {} /\ m_bChannelLock' = [m_bChannelLock EXCEPT ![i] = Prio[i]]
        /\ UNCHANGED <<running, readerDriver, waitList>>
        /\ \A j \in Instances \ {i} : m_hTsRead'[j] = m_hTsRead[j]
    BY <1>3, <1>8 DEF SetChannelLocked, Attach
  <2>2. Prio[i] # EXCLUSIVE
    <3> PICK j \in Peers(i) : m_bChannelLock[j] > Prio[i]
      BY <2>1 DEF Higher
    <3>1. m_bChannelLock[j] \in 0..EXCLUSIVE
      BY <1>3, <1>5
    <3> QED
      BY <3>1, PrioAssumption DEF EXCLUSIVE
  <2>3. m_bChannelLock[i] # EXCLUSIVE
    BY <1>3, <2>2 DEF IInv, Locking, Locks
  <2>4. HoldersOf(d)' = HoldersOf(d) /\ \A h \in HoldersOf(d) : m_hTsRead'[h] = m_hTsRead[h]
    BY <1>3, <2>1, <2>2, <2>3 DEF HoldersOf
  <2>5. Holder(d)' = Holder(d) /\ (Served(d)' <=> Served(d))
    BY <2>4, HolderStays
  <2>6. \A e \in Drivers \ {d} : Holder(e)' = Holder(e) /\ (Served(e)' <=> Served(e))
    BY <1>3, <1>6, <2>1
  <2>7. \A e \in Drivers : Queue(e)' = Queue(e)
    BY <2>1, SetChannelQueues
  <2> QED
    BY <2>5, <2>6, <2>7, StepOfNone DEF Same
<1>9. ASSUME SetChannelQueued(i) PROVE [Priv!Next]_(Priv!vars)
  <2> PICK a \in StreamOf(i) \ {NULL} :
             /\ Attach(i, a)
             /\ waitList' = [waitList EXCEPT ![a] =
                               IF \E k \in 1..Len(@) : @[k] = i THEN @ ELSE Append(@, i)]
    BY <1>9 DEF SetChannelQueued
  <2>1. /\ m_bChannelLock' = [m_bChannelLock EXCEPT ![i] = WAITING]
        /\ UNCHANGED <<running, readerDriver>>
        /\ m_hTsRead' = [m_hTsRead EXCEPT ![i] = a]
    BY <1>9 DEF SetChannelQueued, Attach
  <2> PICK h \in HavePriv(i) : TRUE
    BY <1>9 DEF SetChannelQueued
  <2>2. h \in g_InstanceList /\ h # i /\ m_pIBon[h] = d /\ m_bChannelLock[h] = EXCLUSIVE
    BY <1>5 DEF HavePriv
  <2>3. m_bChannelLock[i] # EXCLUSIVE
    BY <1>3, <2>2 DEF IInv, Locking, ExclusiveLock
  <2>4. \E j \in g_InstanceList : m_pIBon[j] = d /\ m_hTsRead[j] = a
    BY <1>3, <1>5, StreamOfPeers
  <2>5. m_hTsRead[h] # NULL
    BY <2>2, <2>4 DEF IInv, Locking, HolderHasStream
  <2>6. HoldersOf(d)' = HoldersOf(d) /\ \A g \in HoldersOf(d) : m_hTsRead'[g] = m_hTsRead[g]
    BY <1>3, <1>4, <2>1, <2>3 DEF HoldersOf
  <2>7. Holder(d)' = Holder(d) /\ (Served(d)' <=> Served(d))
    BY <2>6, HolderStays
  <2>8. h \in HoldersOf(d) /\ Holder(d) = h /\ Served(d)
    BY <1>1, <2>2, <2>5 DEF HoldersOf, View
  <2>9. \A e \in Drivers \ {d} : Holder(e)' = Holder(e) /\ (Served(e)' <=> Served(e))
    BY <1>3, <1>6, <2>1
  <2>10. a \in running /\ a \in Readers /\ readerDriver[a] = d
    BY <1>3, <2>4 DEF IInv, Streams, Holders
  <2>11. a \in ReadersOf(d) /\ (a \in ReadersOf(d))'
    BY <2>1, <2>10 DEF ReadersOf
  <2>12. Queue(d) = waitList[a] /\ Queue(d)' = waitList'[a]
    BY <1>1, <2>11 DEF View
  <2>13. ASSUME NEW e \in Drivers \ {d} PROVE Queue(e)' = Queue(e)
    <3>1. ReadersOf(e)' = ReadersOf(e) /\ \A b \in ReadersOf(e) : waitList'[b] = waitList[b]
      BY <1>3, <2>1, <2>10, <2>13 DEF ReadersOf
    <3> QED
      BY <1>1, <3>1, QueueStays
  <2>14. CASE \E k \in 1..Len(waitList[a]) : waitList[a][k] = i
    <3>1. Queue(d)' = Queue(d)
      BY <1>3, <2>10, <2>12, <2>14
    <3> QED
      BY <2>7, <2>9, <2>13, <3>1, StepOfNone DEF Same
  <2>15. CASE ~ \E k \in 1..Len(waitList[a]) : waitList[a][k] = i
    <3>1. Queue(d)' = Append(Queue(d), i) /\ \A k \in 1..Len(Queue(d)) : Queue(d)[k] # i
      BY <1>3, <2>10, <2>12, <2>15
    <3>2. Holder(d) \notin {NULL, i}
      BY <1>3, <2>2, <2>8, NullAssumption
    <3>3. Change(d)
      BY <2>7, <2>8, <3>1, <3>2 DEF Change
    <3> QED
      BY <2>9, <2>13, <3>3, StepOfOne DEF Same
  <2> QED
    BY <2>14, <2>15
<1>10. ASSUME SetChannelSteal(i) PROVE [Priv!Next]_(Priv!vars)
  <2> PICK h \in HavePriv(i) :
             m_bChannelLock' = [m_bChannelLock EXCEPT ![h] = 0, ![i] = EXCLUSIVE]
    BY <1>10 DEF SetChannelSteal
  <2>1. /\ NULL \in StreamOf(i)
        /\ UNCHANGED <<m_hTsRead, running, readerDriver, waitList>>
    BY <1>10 DEF SetChannelSteal, readerVars
  <2>2. h \in g_InstanceList /\ h # i /\ m_pIBon[h] = d /\ m_bChannelLock[h] = EXCLUSIVE
    BY <1>5 DEF HavePriv
  <2>3. m_hTsRead[i] = NULL /\ m_hTsRead[h] = NULL
    BY <1>5, <2>1, <2>2, StreamOfPeers
  <2>4. Holder(d) = h /\ ~Served(d)
    BY <1>1, <2>2, <2>3 DEF View, HoldersOf
  <2>5. (i \in HoldersOf(d))'
    BY <1>3, <2>2 DEF HoldersOf
  <2>6. Holder(d)' = i /\ ~Served(d)'
    BY <1>1, <2>1, <2>3, <2>5 DEF View
  <2>7. \A e \in Drivers \ {d} : Holder(e)' = Holder(e) /\ (Served(e)' <=> Served(e))
    BY <1>3, <1>6, <2>1, <2>2
  <2>8. \A e \in Drivers : Queue(e)' = Queue(e)
    BY <2>1, SetChannelQueues
  <2>9. Change(d)
    BY <1>3, <2>2, <2>4, <2>6, <2>8, NullAssumption DEF Change
  <2> QED
    BY <2>7, <2>8, <2>9, StepOfOne DEF Same
<1>11. ASSUME SetChannelTune(i) PROVE [Priv!Next]_(Priv!vars)
  <2>1. /\ Higher(i) = {} /\ HavePriv(i) = {} /\ waitList' = waitList
        /\ m_bChannelLock' = [m_bChannelLock EXCEPT ![i] = Prio[i]]
    BY <1>11 DEF SetChannelTune
  \* Nobody else holds the exclusive lock: it would be higher, or wanted too.
  <2>2. \A h \in Peers(i) : m_bChannelLock[h] # EXCLUSIVE
    BY <2>1, PrioAssumption DEF Higher, HavePriv, EXCLUSIVE
  <2>3. \A j \in Instances \ {i} : m_hTsRead'[j] = m_hTsRead[j]
    BY <1>3, <1>11 DEF SetChannelTune, Attach
  <2>4. \A e \in Drivers \ {d} : Holder(e)' = Holder(e) /\ (Served(e)' <=> Served(e))
    BY <1>3, <1>6, <2>1, <2>3
  <2>5. /\ running \subseteq running' /\ \A a \in running : readerDriver'[a] = readerDriver[a]
        /\ \A a \in running' \ running : readerDriver'[a] = d /\ ReadersOf(d) = {}
    BY <1>3, <1>7, <1>11 DEF SetChannelTune
  <2>6. \A e \in Drivers : Queue(e)' = Queue(e)
    BY <2>1, <2>5, SetChannelQueues
  <2>7. HoldersOf(d) \subseteq {i} /\ HoldersOf(d)' \subseteq {i}
    BY <1>3, <1>5, <2>1, <2>2 DEF HoldersOf
  <2>8. m_hTsRead[i] # NULL => m_hTsRead'[i] # NULL
    BY <1>3, <2>1, <1>11, SetChannelLocks
  <2>9. CASE Prio[i] # EXCLUSIVE
    <3>1. HoldersOf(d) = {} /\ HoldersOf(d)' = {}
      BY <1>3, <2>1, <2>7, <2>9 DEF HoldersOf, IInv, Locking, Locks
    <3>2. Holder(d)' = Holder(d) /\ (Served(d)' <=> Served(d))
      BY <3>1, HolderStays
    <3> QED
      BY <2>4, <2>6, <3>2, StepOfNone DEF Same
  <2>10. CASE Prio[i] = EXCLUSIVE
    <3>1. (i \in HoldersOf(d))'
      BY <1>3, <2>1, <2>10 DEF HoldersOf
    <3>2. Holder(d)' = i /\ (Served(d)' <=> m_hTsRead'[i] # NULL)
      BY <1>1, <3>1 DEF View
    <3>3. CASE i \in HoldersOf(d)
      <4>1. Holder(d) = i /\ (Served(d) <=> m_hTsRead[i] # NULL)
        BY <1>1, <3>3 DEF View
      <4>2. Change(d)
        BY <1>3, <2>6, <2>8, <3>2, <4>1 DEF Change, Same
      <4> QED
        BY <2>4, <2>6, <4>2, StepOfOne DEF Same
    <3>4. CASE i \notin HoldersOf(d)
      <4>1. Holder(d) = NULL
        BY <1>1, <2>7, <3>4 DEF View
      <4>2. Change(d)
        BY <2>6, <3>2, <4>1 DEF Change
      <4> QED
        BY <2>4, <2>6, <4>2, StepOfOne DEF Same
    <3> QED
      BY <3>3, <3>4
  <2> QED
    BY <2>9, <2>10
<1> QED
  BY <1>8, <1>9, <1>10, <1>11 DEF SetChannel2

-----------------------------------------------------------------------------
(* The refinement                                                          *)

\* Until a tuner is opened no lock and no reader is touched.
LEMMA OthersPriv ==
  ASSUME IInv, IInv', NEW i \in Instances,
         \/ Accept(i) \/ (\E n \in Names : SelectBonDriver(i, n))
         \/ CreateBonDriver(i) \/ OpenTuner(i)
  PROVE  [Priv!Next]_(Priv!vars)
<1>1. UNCHANGED <<m_hTsRead, m_bChannelLock, running, waitList, readerDriver>>
  BY OtherLocks DEF Accept, SelectBonDriver, CreateBonDriver, OpenTuner, readerVars
<1>2. \A j \in Instances : m_bChannelLock[j] = EXCLUSIVE =>
        /\ m_pIBon'[j] = m_pIBon[j] /\ (j \in g_InstanceList' <=> j \in g_InstanceList)
  <2> SUFFICES ASSUME NEW j \in Instances, m_bChannelLock[j] = EXCLUSIVE
               PROVE  m_pIBon'[j] = m_pIBon[j] /\ (j \in g_InstanceList' <=> j \in g_InstanceList)
    OBVIOUS
  <2>1. j \in g_InstanceList
    BY DEF IInv, Shared, Unlisted, EXCLUSIVE
  <2>2. j \in bBonDriver
    BY <2>1 DEF IInv, Locking, Locks, Shared, OpenIsOpen, Typed, TypeOK, EXCLUSIVE
  <2>3. m_pIBon \in [Instances -> Drivers \cup {NULL}]
    BY DEF IInv, Typed, TypeOK
  <2>4. CASE Accept(i) \/ OpenTuner(i)
    BY <2>4 DEF Accept, OpenTuner, instVars
  <2>5. ASSUME NEW n \in Names, SelectBonDriver(i, n)
        PROVE  m_pIBon'[j] = m_pIBon[j] /\ (j \in g_InstanceList' <=> j \in g_InstanceList)
    BY <2>1, <2>3, <2>5 DEF SelectBonDriver, SelectShared, SelectLoad
  <2>6. CASE CreateBonDriver(i)
    BY <2>2, <2>3, <2>6 DEF CreateBonDriver, CreateShared, CreateLoop, CreateObject
  <2> QED
    BY <2>4, <2>5, <2>6
<1>3. \A d \in Drivers : HoldersOf(d)' = HoldersOf(d)
  BY <1>1, <1>2 DEF HoldersOf, IInv, Typed, TypeOK
<1>4. \A d \in Drivers : Same(d)
  BY <1>1, <1>3, HolderStays DEF Same, Queue, ReadersOf
<1> QED
  BY <1>4, StepOfNone

\* In every step the lock kept in the fields of the instances and of the reader
\* does what an exclusive lock with one queue for each driver object may do.
THEOREM LockIsFifo ==
  ASSUME ~ReopenMayFail
  PROVE  Spec => ImplementsPriv
<1>1. Init => Priv!Init
  <2> SUFFICES ASSUME Init PROVE Priv!Init
    OBVIOUS
  <2>1. \A d \in Drivers : HoldersOf(d) = {} /\ ReadersOf(d) = {}
    BY DEF Init, HoldersOf, ReadersOf
  <2>2. \A d \in Drivers : Holder(d) = NULL /\ Served(d) = FALSE /\ Queue(d) = << >>
    BY <2>1 DEF Holder, Served, Queue
  <2> QED
    BY <2>2 DEF Priv!Init
<1>2. IInv /\ IInv' /\ [Next]_vars => [Priv!Next]_(Priv!vars)
  <2> SUFFICES ASSUME IInv, IInv', [Next]_vars PROVE [Priv!Next]_(Priv!vars)
    OBVIOUS
  <2>1. ASSUME NEW i \in Instances, CloseTuner(i) \/ Destroy(i) PROVE [Priv!Next]_(Priv!vars)
    BY <2>1, CloseLeaving, DestroyLeaving, LeavingHolder, LeavingNoHolder
  <2>2. CASE UNCHANGED vars
    <3>1. \A d \in Drivers : Same(d)
      BY <2>2 DEF Same, Holder, HoldersOf, Served, Queue, ReadersOf, vars, instVars, readerVars
    <3> QED
      BY <3>1, StepOfNone
  <2> QED
    BY <2>1, <2>2, SetChannelPriv, OthersPriv DEF Next
<1> QED
  BY <1>1, <1>2, Inductive, PTL DEF Spec, Priv!Spec, ImplementsPriv
=============================================================================
