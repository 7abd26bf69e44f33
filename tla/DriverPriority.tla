--------------------------- MODULE DriverPriority ---------------------------
(***************************************************************************)
(* The channel lock kept in the fields of the instances and of the reader  *)
(* argument implements one exclusive lock per driver object.               *)
(***************************************************************************)
EXTENDS DriverSharing

\* The instance of driver d whose m_bChannelLock is 0xff.
HoldersOf(d) == {i \in g_InstanceList : m_pIBon[i] = d /\ m_bChannelLock[i] = EXCLUSIVE}
Holder(d) == IF HoldersOf(d) = {} THEN NULL ELSE CHOOSE i \in HoldersOf(d) : TRUE

\* Whether it has a reader (m_hTsRead).
Served(d) == \E i \in HoldersOf(d) : m_hTsRead[i] # NULL

\* WaitExclusivePrivList of the reader on d.
ReadersOf(d) == {a \in running : readerDriver[a] = d}
Queue(d) == IF ReadersOf(d) = {} THEN << >> ELSE waitList[CHOOSE a \in ReadersOf(d) : TRUE]

Priv == INSTANCE ExclusivePriv
          WITH Tuners <- Drivers, Clients <- Instances, Nobody <- NULL,
               holder <- [d \in Drivers |-> Holder(d)],
               served <- [d \in Drivers |-> Served(d)],
               queue  <- [d \in Drivers |-> Queue(d)]

\* On each driver object the exclusive lock is taken, waited for, handed over
\* in the order of the requests and kept as ExclusivePriv promises.
ImplementsPriv == Priv!Spec
=============================================================================
