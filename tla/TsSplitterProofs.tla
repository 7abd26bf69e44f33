-------------------------- MODULE TsSplitterProofs --------------------------
(* Theorems about TsSplitter, for every value of its constants.             *)
EXTENDS TsSplitter, SequenceTheorems, TLAPS

PmtPids == {PmtPidOf[s] : s \in Services}
EmmPids == {EmmOf[t] : t \in Transports}

-----------------------------------------------------------------------------
(* Types                                                                    *)

Fields ==
  /\ ctl \in {"idle", "tune"} /\ oldService \in Services \cup {None}
  /\ m_dwServiceID \in Services /\ m_bChannelChanged \in BOOLEAN /\ g_ModPMT \in BOOLEAN
  /\ by \in Services \cup {None} /\ flagLost \in BOOLEAN /\ mixed \in BOOLEAN
  /\ sets \in 0..MaxSets /\ lost \in 0..MaxLost
  /\ pos \in 0..(BufSize - 1)

\* A version on the air is one the service has.
Air ==
  /\ tuned \in Transports
  /\ version \in [Services -> Nat] /\ \A s \in Services : version[s] \in Versions(s)
  /\ air \in [part : Nat \ {0}, ci : 0..(CiMod - 1)]

Tables ==
  /\ ltsid \in Transports \cup {None}
  /\ pidPMT \in PmtPids \cup {None} /\ pidEMM \in EmmPids \cup {None}
  /\ lpmt_version \in Nat \cup {None} /\ lcat_version \in BOOLEAN

Collected ==
  /\ bChangePMT \in BOOLEAN /\ bSplitPMT \in BOOLEAN /\ bPMTComplete \in BOOLEAN
  /\ pPMT \in Seq(Sections \X Nat) /\ rpmt_ci \in 0..(CiMod - 1) /\ pPMTPackets \in Nat

Maps == pids \subseteq Pids /\ p_old_pids \subseteq Pids

Types == Fields /\ Air /\ Tables /\ Collected /\ Maps

LEMMA Modulo == ASSUME NEW a \in Nat, NEW b \in Nat \ {0} PROVE a % b \in 0..(b - 1)
OBVIOUS

LEMMA PutType ==
  ASSUME pos \in 0..(BufSize - 1), NEW n \in Nat, Put(n) PROVE pos' \in 0..(BufSize - 1)
<1>1. BufSize \in Nat \ {0} /\ pos + n \in Nat
  BY SizeAssumption
<1> QED
  BY <1>1, Modulo DEF Put

\* What is received on the PID of the PMT.
LEMMA ServiceIs ==
  ASSUME Air, Received
  PROVE  /\ Service \in Services /\ TransportOf[Service] = tuned /\ PmtPidOf[Service] = pidPMT
         /\ version[Service] \in Versions(Service) /\ Section \in Sections
         /\ Parts \in Nat \ {0}
<1>1. Service \in OnPid(tuned, pidPMT)
  BY DEF Received, Service
<1>2. Service \in Services /\ TransportOf[Service] = tuned /\ PmtPidOf[Service] = pidPMT
  BY <1>1 DEF OnPid
<1>3. version[Service] \in Versions(Service)
  BY <1>2 DEF Air
<1>4. Section \in Sections
  BY <1>2, <1>3 DEF Section, Sections
<1>5. Parts \in Nat \ {0}
  BY <1>2, <1>3, PartsAssumption DEF Parts
<1> QED
  BY <1>2, <1>3, <1>4, <1>5

LEMMA ServiceIsOnly ==
  ASSUME Air, Received, NEW s \in Services, TransportOf[s] = tuned, PmtPidOf[s] = pidPMT
  PROVE  Service = s
BY ServiceIs, PidAssumption

LEMMA AirNextType ==
  ASSUME Air, Received, AirNext PROVE air' \in [part : Nat \ {0}, ci : 0..(CiMod - 1)]
<1>1. Parts \in Nat \ {0} /\ CiMod \in Nat \ {0}
  BY ServiceIs, SizeAssumption
<1>2. air.part % Parts \in 0..(Parts - 1) /\ air.part \in Nat /\ air.ci \in 0..(CiMod - 1)
  BY <1>1, Modulo DEF Air
<1>3. (air.part % Parts) + 1 \in Nat \ {0}
  BY <1>1, <1>2
<1>4. air.ci + 1 \in Nat
  BY <1>1, <1>2
<1>5. Next1(air.ci) \in 0..(CiMod - 1)
  BY <1>1, <1>4, Modulo DEF Next1
<1> QED
  BY <1>3, <1>5 DEF AirNext

LEMMA TuneinType ==
  ASSUME Air, NEW t, NEW p, Tunein(t, p) PROVE air' \in [part : Nat \ {0}, ci : 0..(CiMod - 1)]
<1>1. PICK part \in {1} \cup UNION {1..PartsOf[s][version[s]] : s \in OnPid(t, p)} :
        air' = [air EXCEPT !.part = part]
  BY DEF Tunein
<1>2. part \in Nat \ {0}
  BY <1>1, PartsAssumption DEF Air, OnPid
<1> QED
  BY <1>1, <1>2 DEF Air

-----------------------------------------------------------------------------
(* A PMT that is collected                                                  *)

\* What has been collected is as before, with the maps that belong to it,
Unapplied == UNCHANGED <<m_bChannelChanged, map, ghosts>>

\* or is a PMT of the service received, whose map is taken over.
Applied ==
  \E v \in Versions(Service) :
    LET new == EsOf[Service][v] \cup {pidPMT} \cup ({pidEMM} \ {None})
    IN  /\ pids' = new \cup (IF m_bChannelChanged THEN {} ELSE p_old_pids)
        /\ p_old_pids' = new /\ m_bChannelChanged' = FALSE
        /\ by' = Service
        /\ flagLost' = IF m_bChannelChanged THEN Service # m_dwServiceID ELSE flagLost

LEMMA CollectIs ==
  ASSUME Types, Received, NEW parts \in Seq(Sections \X Nat), parts # << >>,
         parts[Len(parts)][1] = Section, NEW complete \in BOOLEAN, Collect(parts, complete)
  PROVE  Collected' /\ pos' \in 0..(BufSize - 1) /\ (Unapplied \/ Applied)
<1>1. Len(parts) \in Nat \ {0} /\ pos \in 0..(BufSize - 1) /\ pPMTPackets \in Nat
  BY EmptySeq, LenProperties DEF Types, Fields, Collected
<1>2. Next1(air.ci) \in 0..(CiMod - 1) /\ 0 \in 0..(CiMod - 1) /\ << >> \in Seq(Sections \X Nat)
  <2>1. air.ci + 1 \in Nat /\ CiMod \in Nat \ {0}
    BY SizeAssumption DEF Types, Air
  <2>2. (air.ci + 1) % CiMod \in 0..(CiMod - 1)
    BY <2>1, Modulo
  <2>3. 0 \in 0..(CiMod - 1)
    BY <2>1
  <2> QED
    BY <2>2, <2>3, EmptySeq DEF Next1
<1>3. ASSUME NEW c \in BOOLEAN, NEW n \in Nat, PutPmt(c, n) PROVE pos' \in 0..(BufSize - 1)
  <2>1. (IF ~g_ModPMT THEN 1 ELSE IF c THEN n ELSE 0) \in Nat
    BY <1>3
  <2> QED
    BY <1>1, <1>3, <2>1, PutType DEF PutPmt
<1>4. CASE Len(parts) < PartsOf[parts[1][1][1]][parts[1][1][2]]
  <2>1. /\ pPMT' = parts /\ rpmt_ci' = Next1(air.ci)
        /\ bChangePMT' = TRUE /\ bSplitPMT' = TRUE /\ bPMTComplete' = complete
        /\ PutPmt(FALSE, 0) /\ UNCHANGED <<m_bChannelChanged, pPMTPackets, map, ghosts>>
    BY <1>4 DEF Collect
  <2>2. pos' \in 0..(BufSize - 1)
    BY <1>3, <2>1
  <2> QED
    BY <1>1, <1>2, <2>1, <2>2 DEF Collected, Unapplied
<1>5. CASE ~(Len(parts) < PartsOf[parts[1][1][1]][parts[1][1][2]]) /\ ~CrcOk(parts)
  <2>1. /\ pPMT' = << >> /\ rpmt_ci' = 0
        /\ bChangePMT' = TRUE /\ bSplitPMT' = FALSE /\ bPMTComplete' = complete
        /\ PutPmt(FALSE, 0) /\ UNCHANGED <<m_bChannelChanged, pPMTPackets, map, ghosts>>
    BY <1>5 DEF Collect
  <2>2. pos' \in 0..(BufSize - 1)
    BY <1>3, <2>1
  <2> QED
    BY <1>1, <1>2, <2>1, <2>2 DEF Collected, Unapplied
<1>6. CASE ~(Len(parts) < PartsOf[parts[1][1][1]][parts[1][1][2]]) /\ CrcOk(parts)
  <2>1. pPMT' = << >> /\ rpmt_ci' = 0 /\ Apply(parts)
    BY <1>6 DEF Collect
  <2>2. parts[1][1] = Section
    <3>1. parts[Len(parts)] = <<parts[1][1], Len(parts)>>
      BY <1>1, <1>6 DEF CrcOk
    <3> QED
      BY <3>1
  <2>3. Service \in Services /\ version[Service] \in Versions(Service)
    BY ServiceIs DEF Types
  <2>4. Applied
    <3>1. Section[1] = Service /\ Section[2] = version[Service]
      BY DEF Section
    <3> QED
      BY <2>1, <2>2, <2>3, <3>1 DEF Apply, Applied
  <2>5. /\ bChangePMT' = FALSE /\ bSplitPMT' = FALSE /\ bPMTComplete' = g_ModPMT
        /\ pPMTPackets' = (IF g_ModPMT THEN Len(parts) ELSE pPMTPackets)
        /\ PutPmt(TRUE, Len(parts))
    BY <2>1 DEF Apply
  <2>6. pPMTPackets' \in Nat /\ g_ModPMT \in BOOLEAN
    BY <1>1, <2>5 DEF Types, Fields
  <2>7. pos' \in 0..(BufSize - 1)
    BY <1>1, <1>3, <2>5
  <2> QED
    BY <1>2, <2>1, <2>4, <2>5, <2>6, <2>7 DEF Collected
<1> QED
  BY <1>4, <1>5, <1>6

\* The steps that read a packet of the PMT.
LEMMA PmtIs ==
  ASSUME Types, PmtStart \/ PmtCont
  PROVE  /\ Received /\ Collected' /\ pos' \in 0..(BufSize - 1) /\ (Unapplied \/ Applied)
         /\ air' \in [part : Nat \ {0}, ci : 0..(CiMod - 1)]
         /\ lpmt_version' \in Nat \cup {None} /\ mixed' \in BOOLEAN
         /\ UNCHANGED <<channel, m_dwServiceID, g_ModPMT, ontheair, ltsid, pidPMT, pidEMM,
                        lcat_version, sets>>
<1>1. Received /\ AirNext /\ Mix
  BY DEF PmtStart, PmtCont
<1>2. air' \in [part : Nat \ {0}, ci : 0..(CiMod - 1)] /\ mixed' \in BOOLEAN
  BY <1>1, AirNextType DEF Types, Mix, Fields
<1>3. Section \in Sections /\ version[Service] \in Nat
  <2>1. Service \in Services /\ Section \in Sections
    BY <1>1, ServiceIs DEF Types
  <2> QED
    BY <2>1 DEF Types, Air
<1>4. pos \in 0..(BufSize - 1) /\ pPMTPackets \in Nat /\ air.part \in Nat
  BY DEF Types, Fields, Collected, Air
<1>5. ASSUME NEW c \in BOOLEAN, NEW n \in Nat, PutPmt(c, n) PROVE pos' \in 0..(BufSize - 1)
  <2>1. (IF ~g_ModPMT THEN 1 ELSE IF c THEN n ELSE 0) \in Nat
    BY <1>5
  <2> QED
    BY <1>4, <1>5, <2>1, PutType DEF PutPmt
<1>6. CASE PmtStart
  <2>1. PICK complete \in BOOLEAN, change \in BOOLEAN :
          /\ lpmt_version' = version[Service]
          /\ IF change THEN Collect(<<<<Section, 1>>>>, complete)
             ELSE PutPmt(complete, pPMTPackets) /\ UNCHANGED <<pmt, m_bChannelChanged, map, ghosts>>
    <3> DEFINE updated == version[Service] # lpmt_version
    <3>1. (updated \/ bChangePMT) \in BOOLEAN /\ (bPMTComplete /\ ~(updated /\ g_ModPMT)) \in BOOLEAN
      OBVIOUS
    <3> QED
      BY <1>6, <3>1, Zenon DEF PmtStart
  <2>2. CASE change
    <3>1. /\ <<<<Section, 1>>>> \in Seq(Sections \X Nat) /\ <<<<Section, 1>>>> # << >>
          /\ <<<<Section, 1>>>>[Len(<<<<Section, 1>>>>)][1] = Section
      BY <1>3
    <3>2. Collect(<<<<Section, 1>>>>, complete)
      BY <2>1, <2>2
    <3>3. Collected' /\ pos' \in 0..(BufSize - 1) /\ (Unapplied \/ Applied)
      BY <1>1, <3>1, <3>2, CollectIs
    <3> QED
      BY <1>1, <1>2, <1>3, <1>6, <2>1, <3>3 DEF PmtStart
  <2>3. CASE ~change
    <3>1. pos' \in 0..(BufSize - 1) /\ UNCHANGED <<pmt, m_bChannelChanged, map, ghosts>>
      BY <1>4, <1>5, <2>1, <2>3
    <3>2. Collected' /\ Unapplied
      BY <3>1 DEF Types, Collected, pmt, Unapplied
    <3> QED
      BY <1>1, <1>2, <1>3, <1>6, <2>1, <3>1, <3>2 DEF PmtStart
  <2> QED
    BY <2>2, <2>3
<1>7. CASE PmtCont
  <2>1. CASE bChangePMT /\ bSplitPMT /\ air.ci = rpmt_ci
    <3> DEFINE parts == Append(pPMT, <<Section, air.part>>)
    <3>1. Collect(parts, bPMTComplete)
      BY <1>7, <2>1 DEF PmtCont
    <3>2. pPMT \in Seq(Sections \X Nat) /\ bPMTComplete \in BOOLEAN
      BY DEF Types, Collected
    <3>3. <<Section, air.part>> \in Sections \X Nat
      BY <1>3, <1>4
    <3>4. /\ parts \in Seq(Sections \X Nat) /\ parts # << >>
          /\ parts[Len(parts)] = <<Section, air.part>>
      BY <3>2, <3>3, AppendProperties
    <3> HIDE DEF parts
    <3>5. parts[Len(parts)][1] = Section
      BY <3>4
    <3>6. Collected' /\ pos' \in 0..(BufSize - 1) /\ (Unapplied \/ Applied)
      BY <1>1, <3>1, <3>2, <3>4, <3>5, CollectIs
    <3> QED
      BY <1>1, <1>2, <1>7, <3>6 DEF PmtCont, tables, Types, Tables
  <2>2. CASE ~(bChangePMT /\ bSplitPMT /\ air.ci = rpmt_ci)
    <3>1. /\ bSplitPMT' = (bSplitPMT /\ ~bChangePMT) /\ PutPmt(FALSE, 0)
          /\ UNCHANGED <<bChangePMT, bPMTComplete, pPMT, rpmt_ci, pPMTPackets, m_bChannelChanged,
                         map, ghosts>>
      BY <1>7, <2>2 DEF PmtCont
    <3>2. pos' \in 0..(BufSize - 1)
      BY <1>5, <3>1
    <3>3. Collected' /\ Unapplied
      BY <3>1 DEF Types, Collected, Unapplied
    <3> QED
      BY <1>1, <1>2, <1>7, <3>2, <3>3 DEF PmtCont, tables, Types, Tables
  <2> QED
    BY <2>1, <2>2
<1> QED
  BY <1>6, <1>7

-----------------------------------------------------------------------------
(* The invariant                                                            *)

\* While SetChannel is not under way the chosen service is in the stream
\* received, and while it is, the service before.
Tuned ==
  /\ ctl = "idle" => tuned = TransportOf[m_dwServiceID]
  /\ ctl = "tune" => oldService \in Services /\ tuned = TransportOf[oldService]

\* When no first PMT is waited for and none was missed, the PMT received is that
\* of the chosen service, and so was the last one applied.
Settled ==
  ~m_bChannelChanged /\ ~flagLost =>
    by = m_dwServiceID /\ pidPMT = PmtPidOf[m_dwServiceID] /\ tuned = TransportOf[m_dwServiceID]

Streams(s) == IF s = None THEN {} ELSE UNION {EsOf[s][v] : v \in Versions(s)}

\* The map, and the one to be merged, have only streams of the service whose PMT
\* was applied last.
Own == ~flagLost => (pids \cup p_old_pids) \cap EsPids \subseteq Streams(by)

IInv == Types /\ Tuned /\ Settled /\ Own

\* A PID of a table is not that of a stream.
Apart == EsPids \cap (PmtPids \cup EmmPids) = {}

LEMMA TransportIs == \A s \in Services : TransportOf[s] \in Transports
BY DEF Transports

LEMMA PidsAre == PmtPids \subseteq Pids /\ EmmPids \subseteq Pids /\ EsPids \subseteq Pids
BY DEF PmtPids, EmmPids, Pids

LEMMA IInvInit == Init => IInv
<1> SUFFICES ASSUME Init PROVE IInv
  OBVIOUS
<1>1. m_dwServiceID \in Services /\ tuned = TransportOf[m_dwServiceID] /\ tuned \in Transports
  BY FirstAssumption, TransportIs DEF Init
<1>2. 0 \in 0..(BufSize - 1) /\ 0 \in 0..(CiMod - 1) /\ 0 \in 0..MaxSets /\ 0 \in 0..MaxLost
  BY SizeAssumption
<1>3. Fields
  BY <1>1, <1>2 DEF Init, Fields
<1>4. Air
  <2>1. version = [s \in Services |-> 0] /\ air = [part |-> 1, ci |-> 0]
    BY DEF Init
  <2>2. version \in [Services -> Nat] /\ \A s \in Services : version[s] \in Versions(s)
    BY <2>1, VersionAssumption
  <2>3. air \in [part : Nat \ {0}, ci : 0..(CiMod - 1)]
    BY <2>1, <1>2
  <2> QED
    BY <1>1, <2>2, <2>3 DEF Air
<1>5. Tables /\ Maps
  BY DEF Init, Tables, Maps
<1>6. Collected
  BY <1>2, EmptySeq DEF Init, Collected
<1>7. Tuned /\ Settled /\ Own
  BY <1>1 DEF Init, Tuned, Settled, Own
<1> QED
  BY <1>3, <1>4, <1>5, <1>6, <1>7 DEF IInv, Types

LEMMA ChannelKeeps ==
  ASSUME IInv, SetChannel PROVE IInv'
<1> USE DEF IInv, Types
<1>1. ASSUME NEW s \in Services, SetChannelBegin(s) PROVE IInv'
  <2>1. /\ ctl = "idle" /\ ctl' = "tune" /\ sets' = sets + 1 /\ sets < MaxSets
        /\ oldService' = m_dwServiceID /\ m_dwServiceID' = s /\ m_bChannelChanged' = TRUE
        /\ UNCHANGED <<g_ModPMT, ontheair, air, tables, pmt, map, pos, ghosts, mixed>>
    BY <1>1 DEF SetChannelBegin
  <2>2. sets' \in 0..MaxSets
    BY <2>1, SizeAssumption DEF Fields
  <2>3. Fields' /\ Tuned'
    BY <2>1, <2>2 DEF Fields, Tuned, ontheair, ghosts
  <2>4. Air' /\ Tables' /\ Collected' /\ Maps' /\ Settled' /\ Own'
    BY <2>1 DEF Air, Tables, Collected, Maps, Settled, Own, ontheair, tables, pmt, map, ghosts
  <2> QED
    BY <2>3, <2>4
<1>2. ASSUME NEW t \in Transports, NEW p, ctl = "tune", tuned' = t, t = TransportOf[m_dwServiceID],
             pos' = 0, ctl' = "idle", oldService' = None, Tunein(t, p),
             UNCHANGED <<m_dwServiceID, m_bChannelChanged, g_ModPMT, version, lost, sets, flagLost>>
      PROVE  Air' /\ Tuned' /\ (by' \in Services \cup {None} /\ mixed' \in BOOLEAN => Fields')
  <2>1. air' \in [part : Nat \ {0}, ci : 0..(CiMod - 1)]
    BY <1>2, TuneinType
  <2>2. Air'
    BY <1>2, <2>1 DEF Air
  <2>3. 0 \in 0..(BufSize - 1)
    BY SizeAssumption
  <2> QED
    BY <1>2, <2>2, <2>3 DEF Fields, Tuned
<1>3. CASE SetChannelEnd
  <2>1. /\ ctl = "tune" /\ tuned' = TransportOf[m_dwServiceID] /\ pos' = 0
        /\ ctl' = "idle" /\ oldService' = None /\ Tunein(TransportOf[m_dwServiceID], pidPMT)
        /\ UNCHANGED <<m_dwServiceID, m_bChannelChanged, g_ModPMT, version, lost, sets, flagLost>>
        /\ UNCHANGED <<tables, pmt, map, ghosts, mixed>>
    BY <1>3 DEF SetChannelEnd, ghosts
  <2>2. TransportOf[m_dwServiceID] \in Transports
    BY TransportIs DEF Fields
  <2>3. Air' /\ Tuned' /\ Fields'
    BY <1>2, <2>1, <2>2 DEF Fields, ghosts
  <2>4. Tables' /\ Collected' /\ Maps' /\ Settled' /\ Own'
    BY <2>1 DEF Tables, Collected, Maps, Settled, Own, tables, pmt, map, ghosts
  <2> QED
    BY <2>3, <2>4
<1>4. CASE SetChannelRestart
  <2>1. /\ ctl = "tune" /\ tuned' = TransportOf[m_dwServiceID] /\ pos' = 0
        /\ ctl' = "idle" /\ oldService' = None /\ Tunein(TransportOf[m_dwServiceID], None)
        /\ UNCHANGED <<m_dwServiceID, m_bChannelChanged, g_ModPMT, version, lost, sets, flagLost>>
        /\ TransportOf[m_dwServiceID] # tuned /\ Fresh
    BY <1>4 DEF SetChannelRestart
  <2>2. TransportOf[m_dwServiceID] \in Transports
    BY TransportIs DEF Fields
  <2>3. Air' /\ Tuned' /\ Fields'
    BY <1>2, <2>1, <2>2 DEF Fresh
  <2>4. Collected'
    <3>1. << >> \in Seq(Sections \X Nat) /\ 0 \in 0..(CiMod - 1)
      BY EmptySeq, SizeAssumption
    <3> QED
      BY <2>1, <3>1 DEF Fresh, Collected
  <2>5. Tables' /\ Maps' /\ Settled' /\ Own'
    BY <2>1 DEF Fresh, Tables, Maps, Settled, Own
  <2> QED
    BY <2>3, <2>4, <2>5
<1>5. CASE SetChannelFails
  <2>1. /\ ctl = "tune" /\ m_bChannelChanged' = FALSE /\ m_dwServiceID' = oldService
        /\ ctl' = "idle" /\ oldService' = None
        /\ flagLost' = (flagLost \/ by # oldService \/ pidPMT # PmtPidOf[oldService])
        /\ UNCHANGED <<g_ModPMT, ontheair, air, tables, pmt, map, pos, sets, by, mixed>>
    BY <1>5 DEF SetChannelFails
  <2>2. oldService \in Services /\ tuned = TransportOf[oldService]
    BY <2>1 DEF Tuned
  <2>3. Fields' /\ Tuned' /\ Settled' /\ Own'
    BY <2>1, <2>2 DEF Fields, Tuned, Settled, Own, ontheair, tables, map
  <2>4. Air' /\ Tables' /\ Collected' /\ Maps'
    BY <2>1 DEF Air, Tables, Collected, Maps, ontheair, tables, pmt, map
  <2> QED
    BY <2>3, <2>4
<1> QED
  BY <1>1, <1>3, <1>4, <1>5 DEF SetChannel

LEMMA PatKeeps == ASSUME IInv, Pat PROVE IInv'
<1> USE DEF IInv, Types
<1>1. /\ UNCHANGED <<channel, m_dwServiceID, m_bChannelChanged, g_ModPMT, ontheair, bChangePMT,
                     bPMTComplete, pPMT, rpmt_ci, pPMTPackets, map, sets, ghosts>>
      /\ \/ UNCHANGED <<tables, bSplitPMT, pos, air, mixed>>
         \/ /\ TransportOf[m_dwServiceID] = tuned /\ Put(1)
            /\ \/ UNCHANGED <<tables, bSplitPMT, air, mixed>>
               \/ /\ ltsid' = tuned /\ pidPMT' = PmtPidOf[m_dwServiceID]
                  /\ lpmt_version' = None /\ lcat_version' = FALSE /\ pidEMM' = None
                  /\ bSplitPMT' = FALSE /\ mixed' = FALSE /\ Tunein(tuned, pidPMT')
  BY DEF Pat
<1>2. pos' \in 0..(BufSize - 1)
  BY <1>1, PutType DEF Fields
<1>3. air' \in [part : Nat \ {0}, ci : 0..(CiMod - 1)]
  BY <1>1, TuneinType DEF Air
<1>4. Fields' /\ Air'
  BY <1>1, <1>2, <1>3 DEF Fields, Air, channel, ontheair, ghosts
<1>5. Tables' /\ Collected' /\ Maps'
  BY <1>1 DEF Tables, Collected, Maps, Fields, Air, tables, map, PmtPids
<1>6. Tuned' /\ Settled' /\ Own'
  BY <1>1 DEF Tuned, Settled, Own, channel, ontheair, tables, map, ghosts
<1> QED
  BY <1>4, <1>5, <1>6

LEMMA CatKeeps == ASSUME Apart, IInv, Cat PROVE IInv'
<1> USE DEF IInv, Types
<1>1. /\ UNCHANGED <<channel, m_dwServiceID, m_bChannelChanged, g_ModPMT, ontheair, air, ltsid,
                     pidPMT, lpmt_version, pmt, p_old_pids, sets, ghosts>>
      /\ \/ UNCHANGED <<pids, pidEMM>>
         \/ /\ pidEMM' = EmmOf[tuned] /\ pids' = (pids \ {pidEMM}) \cup {EmmOf[tuned]}
      /\ lcat_version' = TRUE /\ Put(1) /\ Mix
  BY DEF Cat
<1>2. EmmOf[tuned] \in EmmPids
  BY DEF EmmPids, Air
<1>3. pos' \in 0..(BufSize - 1)
  BY <1>1, PutType DEF Fields
<1>4. Fields' /\ Air'
  BY <1>1, <1>3 DEF Fields, Air, Mix, channel, ontheair, ghosts
<1>5. Tables' /\ Collected' /\ Maps'
  BY <1>1, <1>2, PidsAre DEF Tables, Collected, Maps, pmt
<1>6. Tuned' /\ Settled'
  BY <1>1 DEF Tuned, Settled, channel, ontheair, ghosts
<1>7. Own'
  BY <1>1, <1>2 DEF Own, Apart, ghosts
<1> QED
  BY <1>4, <1>5, <1>6, <1>7

LEMMA PmtKeeps == ASSUME Apart, IInv, PmtStart \/ PmtCont PROVE IInv'
<1> USE DEF IInv, Types
<1>1. /\ Received /\ Collected' /\ pos' \in 0..(BufSize - 1) /\ (Unapplied \/ Applied)
      /\ air' \in [part : Nat \ {0}, ci : 0..(CiMod - 1)]
      /\ lpmt_version' \in Nat \cup {None} /\ mixed' \in BOOLEAN
      /\ UNCHANGED <<channel, m_dwServiceID, g_ModPMT, ontheair, ltsid, pidPMT, pidEMM,
                     lcat_version, sets>>
  BY PmtIs
<1>2. /\ Service \in Services /\ TransportOf[Service] = tuned /\ PmtPidOf[Service] = pidPMT
  BY <1>1, ServiceIs
<1>3. Air' /\ Tables' /\ Tuned'
  BY <1>1 DEF Air, Tables, Tuned, channel, ontheair
<1>4. CASE Unapplied
  BY <1>1, <1>3, <1>4 DEF Unapplied, Fields, Maps, Settled, Own, channel, ontheair, map, ghosts
<1>5. CASE Applied
  <2>1. PICK v \in Versions(Service) :
          LET new == EsOf[Service][v] \cup {pidPMT} \cup ({pidEMM} \ {None})
          IN  /\ pids' = new \cup (IF m_bChannelChanged THEN {} ELSE p_old_pids)
              /\ p_old_pids' = new /\ m_bChannelChanged' = FALSE
              /\ by' = Service
              /\ flagLost' = IF m_bChannelChanged THEN Service # m_dwServiceID ELSE flagLost
    BY <1>5 DEF Applied
  <2>2. /\ EsOf[Service][v] \subseteq EsPids
        /\ Service # None /\ EsOf[Service][v] \subseteq Streams(Service)
    BY <1>2, <2>1, NoneAssumption DEF EsPids, Streams
  <2>3. pidPMT \in PmtPids /\ ({pidEMM} \ {None}) \subseteq EmmPids
    BY <1>2 DEF Tables, PmtPids
  <2>4. Fields'
    BY <1>1, <1>2, <2>1 DEF Fields, channel, ontheair
  <2>5. Maps'
    BY <2>1, <2>2, <2>3, PidsAre DEF Maps
  <2>6. p_old_pids' \cap EsPids \subseteq Streams(Service)
    BY <2>1, <2>2, <2>3 DEF Apart
  <2>7. CASE m_bChannelChanged
    BY <1>1, <1>2, <1>3, <2>1, <2>4, <2>5, <2>6, <2>7 DEF Settled, Own, ontheair
  <2>8. CASE ~m_bChannelChanged /\ flagLost
    BY <1>1, <1>3, <2>1, <2>4, <2>5, <2>8 DEF Settled, Own
  <2>9. CASE ~m_bChannelChanged /\ ~flagLost
    <3>1. by = m_dwServiceID /\ pidPMT = PmtPidOf[m_dwServiceID] /\ tuned = TransportOf[m_dwServiceID]
      BY <2>9 DEF Settled
    <3>2. Service = m_dwServiceID
      BY <1>1, <3>1, ServiceIsOnly DEF Fields
    <3>3. Settled'
      BY <1>1, <2>1, <2>9, <3>1, <3>2 DEF Settled, ontheair
    <3>4. p_old_pids \cap EsPids \subseteq Streams(Service)
      BY <2>9, <3>1, <3>2 DEF Own
    <3>5. Own'
      BY <2>1, <2>6, <2>9, <3>4 DEF Own
    <3> QED
      BY <1>1, <1>3, <2>4, <2>5, <3>3, <3>5
  <2> QED
    BY <2>7, <2>8, <2>9
<1> QED
  BY <1>1, <1>4, <1>5

LEMMA OthersKeep ==
  ASSUME IInv, Es \/ Lose \/ (\E s \in Services : NewVersion(s)) \/ UNCHANGED vars PROVE IInv'
<1> USE DEF IInv, Types, channel, ontheair, tables, pmt, map, ghosts
<1>1. CASE Es
  <2>1. pos' \in 0..(BufSize - 1)
    BY <1>1, PutType DEF Es, Fields
  <2> QED
    BY <1>1, <2>1 DEF Es, Fields, Air, Tables, Collected, Maps, Tuned, Settled, Own
<1>2. CASE Lose
  <2>1. air' \in [part : Nat \ {0}, ci : 0..(CiMod - 1)]
    BY <1>2, AirNextType DEF Lose
  <2>2. lost' \in 0..MaxLost
    BY <1>2, SizeAssumption DEF Lose, Fields
  <2> QED
    BY <1>2, <2>1, <2>2 DEF Lose, Fields, Air, Tables, Collected, Maps, Tuned, Settled, Own
<1>3. ASSUME NEW s \in Services, NewVersion(s) PROVE IInv'
  <2>1. version[s] + 1 \in Versions(s) /\ version' = [version EXCEPT ![s] = version[s] + 1]
    BY <1>3 DEF NewVersion
  <2>2. version' \in [Services -> Nat] /\ \A u \in Services : version'[u] \in Versions(u)
    BY <2>1, VersionAssumption DEF Air
  <2> QED
    BY <1>3, <2>2 DEF NewVersion, Fields, Air, Tables, Collected, Maps, Tuned, Settled, Own
<1>4. CASE UNCHANGED vars
  BY <1>4 DEF vars, Fields, Air, Tables, Collected, Maps, Tuned, Settled, Own
<1> QED
  BY <1>1, <1>2, <1>3, <1>4

LEMMA IInvariant == ASSUME Apart PROVE Spec => []IInv
<1>1. IInv /\ [Next]_vars => IInv'
  BY ChannelKeeps, PatKeeps, CatKeeps, PmtKeeps, OthersKeep DEF Next
<1> QED
  BY <1>1, IInvInit, PTL DEF Spec

-----------------------------------------------------------------------------
\* Once a PMT of the chosen service has been applied, no stream of the service
\* before it passes, for any services, transport streams and tables, if no table
\* has the PID of a stream.
THEOREM NothingForeignPasses == ASSUME Apart PROVE Spec => []MapIsOwn
<1>1. IInv => MapIsOwn
  <2> SUFFICES ASSUME IInv, by = m_dwServiceID, ~flagLost
               PROVE  pids \cap EsPids \subseteq UNION {EsOf[by][v] : v \in Versions(by)}
    BY DEF MapIsOwn
  <2>1. by # None
    BY NoneAssumption DEF IInv, Types, Fields
  <2> QED
    BY <2>1 DEF IInv, Own, Streams
<1> QED
  BY <1>1, IInvariant, PTL

\* Every variable has its type; the output buffer is pushed before it overflows,
\* also by a PMT of many packets.
THEOREM NeverLeftFull == ASSUME Apart PROVE Spec => []TypeOK
<1>1. IInv => TypeOK
  <2> SUFFICES ASSUME IInv PROVE TypeOK
    OBVIOUS
  <2>1. \A k \in 1..Len(pPMT) : pPMT[k] \in Sections \X Nat
    BY ElementOfSeq DEF IInv, Types, Collected
  <2>2. pidPMT \in Pids \cup {None} /\ pidEMM \in Pids \cup {None}
    BY PidsAre DEF IInv, Types, Tables
  <2>3. {m_bChannelChanged, g_ModPMT, bChangePMT, bSplitPMT, bPMTComplete, lcat_version,
         flagLost, mixed} \subseteq BOOLEAN
    BY Zenon DEF IInv, Types, Fields, Tables, Collected
  <2> QED
    BY <2>1, <2>2, <2>3 DEF IInv, Types, Fields, Air, Tables, Collected, Maps, TypeOK
<1> QED
  BY <1>1, IInvariant, PTL
=============================================================================
