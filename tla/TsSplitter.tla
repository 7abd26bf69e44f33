------------------------------ MODULE TsSplitter ------------------------------
(***************************************************************************)
(* The TsSplitter thread of BonDriver_Splitter, packet by packet: it finds *)
(* the PMT of the chosen service through the PAT, the EMM PID through the  *)
(* CAT, collects a PMT that is split over packets, and keeps the map of    *)
(* the PIDs that pass.  SetChannel (SplitterTuner) appears with what it    *)
(* shares with the thread: m_dwServiceID and m_bChannelChanged, set before *)
(* the tuner is called, and TsFlush() after it.  Packets may be lost, and  *)
(* a service may change its PMT.  Tables of fixed PID, and the continuity  *)
(* counters of what is sent, are left out.                                 *)
(***************************************************************************)
EXTENDS Integers, Sequences, FiniteSets

CONSTANTS
  Services,        \* the service IDs of the channel definitions
  First,           \* the services the first SetChannel may choose
  None,
  TransportOf,     \* the transport stream (its ID) a service is in
  PmtPidOf,        \* the PID of its PMT
  EsOf,            \* EsOf[s][v]: the PIDs version v of its PMT names
  PartsOf,         \* PartsOf[s][v]: the packets that version is split over
  EmmOf,           \* the EMM PID the CAT of a transport stream names
  CiMod,           \* values of a continuity counter (16)
  BufSize,         \* packets in a buffer
  MaxSets,         \* bound: calls of SetChannel
  MaxLost          \* bound: lost packets

Transports == {TransportOf[s] : s \in Services}
Versions(s) == DOMAIN EsOf[s]
Sections == UNION {{s} \X Versions(s) : s \in Services}
EsPids == UNION {UNION {EsOf[s][v] : v \in Versions(s)} : s \in Services}
Pids == EsPids \cup {EmmOf[t] : t \in Transports}
         \cup {PmtPidOf[s] : s \in Services}

ASSUME NoneAssumption == None \notin Services /\ None \notin Transports /\ None \notin Pids
ASSUME FirstAssumption == First \subseteq Services
ASSUME SizeAssumption == BufSize \in Nat \ {0} /\ CiMod \in Nat \ {0} /\ {MaxSets, MaxLost} \subseteq Nat
ASSUME PidAssumption ==     \* a PID means one thing in a transport stream
  \A s, t \in Services : s # t /\ TransportOf[s] = TransportOf[t] => PmtPidOf[s] # PmtPidOf[t]

ASSUME VersionAssumption == \A s \in Services : 0 \in Versions(s) /\ Versions(s) \subseteq Nat
ASSUME PartsAssumption == \A s \in Services : \A v \in Versions(s) : PartsOf[s][v] \in Nat \ {0}

VARIABLES
  ctl, oldService,               \* SetChannel: its step, dwOldServiceID
  m_dwServiceID, m_bChannelChanged,
  g_ModPMT,                      \* the ini setting MODPMT
  tuned,                         \* the transport stream received (external)
  version,                       \* the version of each PMT on the air (external)
  air,                           \* next packet on the PMT's PID (external)
  ltsid, pidPMT, pidEMM, lpmt_version, lcat_version,
  bChangePMT, bSplitPMT, bPMTComplete,
  pPMT, rpmt_ci,                 \* parts collected, counter expected next
  pPMTPackets,                   \* how many packets the PMT to send has
  pids, p_old_pids,
  pos,                           \* m_dwSplitterPos, in packets
  sets, lost,
  by, flagLost,                  \* ghosts: service of the PMT applied last; whether
                                 \* m_bChannelChanged missed the PMT it was meant for
  mixed                          \* ghost: a PMT or CAT was read after a change of stream
                                 \* and before the PAT of the new one

channel == <<ctl, oldService>>
ontheair == <<tuned, version, lost>>
tables == <<ltsid, pidPMT, pidEMM, lpmt_version, lcat_version>>
pmt == <<bChangePMT, bSplitPMT, bPMTComplete, pPMT, rpmt_ci, pPMTPackets>>
map == <<pids, p_old_pids>>
ghosts == <<by, flagLost>>
vars == <<channel, m_dwServiceID, m_bChannelChanged, g_ModPMT, ontheair, air, tables, pmt, map,
          pos, sets, ghosts, mixed>>

\* The local variables of a new thread (lines 800-810).
Fresh ==
  /\ ltsid' = None /\ pidPMT' = None /\ pidEMM' = None
  /\ lpmt_version' = None /\ lcat_version' = FALSE
  /\ bChangePMT' = FALSE /\ bSplitPMT' = FALSE /\ bPMTComplete' = FALSE
  /\ pPMT' = << >> /\ rpmt_ci' = 0 /\ pPMTPackets' = 0
  /\ pids' = {} /\ p_old_pids' = {} /\ by' = None /\ mixed' = FALSE

Init ==
  /\ ctl = "idle" /\ oldService = None
  /\ m_dwServiceID \in First /\ m_bChannelChanged = TRUE     \* a first SetChannel succeeded
  /\ g_ModPMT \in BOOLEAN
  /\ tuned = TransportOf[m_dwServiceID] /\ version = [s \in Services |-> 0]
  /\ air = [part |-> 1, ci |-> 0]
  /\ ltsid = None /\ pidPMT = None /\ pidEMM = None /\ lpmt_version = None /\ lcat_version = FALSE
  /\ bChangePMT = FALSE /\ bSplitPMT = FALSE /\ bPMTComplete = FALSE
  /\ pPMT = << >> /\ rpmt_ci = 0 /\ pPMTPackets = 0
  /\ pids = {} /\ p_old_pids = {} /\ pos = 0
  /\ sets = 0 /\ lost = 0 /\ by = None /\ flagLost = FALSE /\ mixed = FALSE

-----------------------------------------------------------------------------
\* The service whose PMT has PID p in stream t.  When the thread begins to watch
\* that PID, any packet of a section may come next.
OnPid(t, p) == {s \in Services : TransportOf[s] = t /\ PmtPidOf[s] = p}
Tunein(t, p) ==
  \E part \in {1} \cup UNION {1..PartsOf[s][version[s]] : s \in OnPid(t, p)} :
    air' = [air EXCEPT !.part = part]

(* SetChannel *)

\* The flag and the service ID are set while the old stream is still filtered.
SetChannelBegin(s) ==
  /\ ctl = "idle" /\ sets < MaxSets
  /\ ctl' = "tune" /\ sets' = sets + 1
  /\ oldService' = m_dwServiceID
  /\ m_dwServiceID' = s /\ m_bChannelChanged' = TRUE
  /\ UNCHANGED <<g_ModPMT, ontheair, air, tables, pmt, map, pos, ghosts, mixed>>

\* Tuned and flushed; the thread goes on.
SetChannelEnd ==
  /\ ctl = "tune"
  /\ tuned' = TransportOf[m_dwServiceID] /\ pos' = 0
  /\ ctl' = "idle" /\ oldService' = None
  /\ Tunein(TransportOf[m_dwServiceID], pidPMT)
  /\ UNCHANGED <<m_dwServiceID, m_bChannelChanged, g_ModPMT, version, lost,
                 tables, pmt, map, sets, ghosts, mixed>>

\* Another tuner was loaded: the thread is a new one.
SetChannelRestart ==
  /\ ctl = "tune" /\ TransportOf[m_dwServiceID] # tuned
  /\ tuned' = TransportOf[m_dwServiceID] /\ pos' = 0
  /\ ctl' = "idle" /\ oldService' = None /\ Fresh
  /\ Tunein(TransportOf[m_dwServiceID], None)
  /\ UNCHANGED <<m_dwServiceID, m_bChannelChanged, g_ModPMT, version, lost,
                 sets, flagLost>>

\* The tuner refuses (err1), which it is asked to do only for another channel.
\* The flag may have been set for a channel whose PMT has not come yet.
SetChannelFails ==
  /\ ctl = "tune" /\ TransportOf[m_dwServiceID] # tuned
  /\ m_bChannelChanged' = FALSE /\ m_dwServiceID' = oldService
  /\ ctl' = "idle" /\ oldService' = None
  /\ flagLost' = (flagLost \/ by # oldService \/ pidPMT # PmtPidOf[oldService])
  /\ UNCHANGED <<g_ModPMT, ontheair, air, tables, pmt, map, pos, sets, by,
                 mixed>>

-----------------------------------------------------------------------------
(* The thread *)

\* Mutant: the check for a full buffer comes one packet late.
PutLate(n) == pos' = IF pos + n <= BufSize THEN pos + n ELSE pos + n - BufSize

\* n packets go into the output buffer, which is pushed whenever it is full: by
\* the loop over the parts of a PMT (1039-1059) or at the end of a packet (1312).
Put(n) == pos' = (pos + n) % BufSize

\* Mutant: the versions seen on the old channel are kept.
PatForgetsVersions ==
  /\ IF TransportOf[m_dwServiceID] # tuned THEN UNCHANGED <<tables, bSplitPMT, pos, air, mixed>>
     ELSE /\ ltsid' = tuned /\ pidPMT' = PmtPidOf[m_dwServiceID] /\ mixed' = FALSE
          /\ UNCHANGED <<lpmt_version, lcat_version, pidEMM, bSplitPMT>>
          /\ IF pidPMT' = pidPMT /\ ltsid = tuned THEN UNCHANGED air ELSE Tunein(tuned, pidPMT')
          /\ Put(1)
  /\ UNCHANGED <<channel, m_dwServiceID, m_bChannelChanged, g_ModPMT, ontheair, bChangePMT,
                 bPMTComplete, pPMT, rpmt_ci, pPMTPackets, map, sets, ghosts>>

\* PAT: sent on, reduced to the chosen service, if that is in it.  A new stream
\* or a new PID makes PMT and CAT be read anew.
Pat ==
  /\ IF TransportOf[m_dwServiceID] # tuned THEN UNCHANGED <<tables, bSplitPMT, pos, air, mixed>>
     ELSE /\ IF ltsid = tuned /\ pidPMT = PmtPidOf[m_dwServiceID]
             THEN UNCHANGED <<tables, bSplitPMT, air, mixed>>
             ELSE /\ ltsid' = tuned /\ pidPMT' = PmtPidOf[m_dwServiceID]
                  /\ lpmt_version' = None /\ lcat_version' = FALSE /\ pidEMM' = None
                  /\ bSplitPMT' = FALSE /\ mixed' = FALSE
                  /\ Tunein(tuned, pidPMT')
          /\ Put(1)
  /\ UNCHANGED <<channel, m_dwServiceID, m_bChannelChanged, g_ModPMT, ontheair, bChangePMT,
                 bPMTComplete, pPMT, rpmt_ci, pPMTPackets, map, sets, ghosts>>

Mix == mixed' = (mixed \/ ltsid \notin {None, tuned})

\* CAT: always sent on; its first sight after a PAT update moves the EMM PID.
Cat ==
  /\ IF lcat_version THEN UNCHANGED <<pids, pidEMM>>
     ELSE /\ pidEMM' = EmmOf[tuned]
          /\ pids' = (pids \ {pidEMM}) \cup {EmmOf[tuned]}
  /\ lcat_version' = TRUE
  /\ Put(1) /\ Mix
  /\ UNCHANGED <<channel, m_dwServiceID, m_bChannelChanged, g_ModPMT, ontheair, air, ltsid, pidPMT,
                 lpmt_version, pmt, p_old_pids, sets, ghosts>>

\* Anything else passes if its PID is in the map.
Es ==
  /\ \E p \in pids : Put(1)
  /\ UNCHANGED <<channel, m_dwServiceID, m_bChannelChanged, g_ModPMT, ontheair, air, tables, pmt,
                 map, sets, ghosts, mixed>>

\* The service whose PMT is received, and the packet that comes next: the part
\* of the section it is, and its counter.
Received == OnPid(tuned, pidPMT) # {}
Service == CHOOSE s \in OnPid(tuned, pidPMT) : TRUE
Section == <<Service, version[Service]>>
Parts == PartsOf[Service][version[Service]]
Next1(ci) == (ci + 1) % CiMod
AirNext == air' = [part |-> (air.part % Parts) + 1, ci |-> Next1(air.ci)]

\* Without MODPMT a packet of the PMT is sent on as it is; with it, the parts of
\* the section collected last are, each time a section begins.
PutPmt(complete, n) == Put(IF ~g_ModPMT THEN 1 ELSE IF complete THEN n ELSE 0)

\* CalcCRC32: the parts are those of one section, in order.
CrcOk(parts) == \A k \in 1..Len(parts) : parts[k] = <<parts[1][1], k>>

\* Mutant: the old map is merged after a channel change as well.
ApplyMerging(parts) ==
  LET sec == parts[1][1]
      new == EsOf[sec[1]][sec[2]] \cup {pidPMT} \cup ({pidEMM} \ {None})
  IN  /\ pids' = new \cup p_old_pids
      /\ p_old_pids' = new /\ m_bChannelChanged' = FALSE
      /\ bChangePMT' = FALSE /\ bSplitPMT' = FALSE
      /\ bPMTComplete' = g_ModPMT
      /\ pPMTPackets' = IF g_ModPMT THEN Len(parts) ELSE pPMTPackets
      /\ by' = sec[1] /\ flagLost' = flagLost
      /\ PutPmt(TRUE, Len(parts))

\* The new map, with the old one unless the channel has changed, so that nothing
\* is missing while a service changes its PIDs.
Apply(parts) ==
  LET sec == parts[1][1]
      new == EsOf[sec[1]][sec[2]] \cup {pidPMT} \cup ({pidEMM} \ {None})
  IN  /\ pids' = new \cup (IF m_bChannelChanged THEN {} ELSE p_old_pids)
      /\ p_old_pids' = new /\ m_bChannelChanged' = FALSE
      /\ bChangePMT' = FALSE /\ bSplitPMT' = FALSE
      /\ bPMTComplete' = g_ModPMT
      /\ pPMTPackets' = IF g_ModPMT THEN Len(parts) ELSE pPMTPackets
      /\ by' = sec[1]
      /\ flagLost' = IF m_bChannelChanged THEN sec[1] # m_dwServiceID ELSE flagLost
      /\ PutPmt(TRUE, Len(parts))

\* More packets of the section are to come, or it is complete.
Collect(parts, complete) ==
  IF Len(parts) < PartsOf[parts[1][1][1]][parts[1][1][2]]
  THEN /\ pPMT' = parts /\ rpmt_ci' = Next1(air.ci)
       /\ bChangePMT' = TRUE /\ bSplitPMT' = TRUE /\ bPMTComplete' = complete
       /\ PutPmt(FALSE, 0)
       /\ UNCHANGED <<m_bChannelChanged, pPMTPackets, map, ghosts>>
  ELSE /\ pPMT' = << >> /\ rpmt_ci' = 0          \* not read again before they are set
       /\ IF CrcOk(parts) THEN Apply(parts)
          ELSE /\ bChangePMT' = TRUE /\ bSplitPMT' = FALSE /\ bPMTComplete' = complete
               /\ PutPmt(FALSE, 0)
               /\ UNCHANGED <<m_bChannelChanged, pPMTPackets, map, ghosts>>

\* The first packet of a PMT.
PmtStart ==
  /\ Received /\ air.part = 1
  /\ LET ver      == version[Service]
         updated  == ver # lpmt_version
         change   == updated \/ bChangePMT
         complete == bPMTComplete /\ ~(updated /\ g_ModPMT)
     IN  /\ lpmt_version' = ver
         /\ IF change THEN Collect(<<<<Section, 1>>>>, complete)
            ELSE /\ PutPmt(complete, pPMTPackets)
                 /\ UNCHANGED <<pmt, m_bChannelChanged, map, ghosts>>
  /\ AirNext /\ Mix
  /\ UNCHANGED <<channel, m_dwServiceID, g_ModPMT, ontheair, ltsid, pidPMT, pidEMM,
                 lcat_version, sets>>

\* A later packet: only the one expected next is collected, any other makes the
\* thread wait for the next beginning.
PmtCont ==
  /\ Received /\ air.part # 1
  /\ IF bChangePMT /\ bSplitPMT /\ air.ci = rpmt_ci
     THEN Collect(Append(pPMT, <<Section, air.part>>), bPMTComplete)
     ELSE /\ bSplitPMT' = (bSplitPMT /\ ~bChangePMT)
          /\ PutPmt(FALSE, 0)
          /\ UNCHANGED <<bChangePMT, bPMTComplete, pPMT, rpmt_ci, pPMTPackets, m_bChannelChanged,
                         map, ghosts>>
  /\ AirNext /\ Mix
  /\ UNCHANGED <<channel, m_dwServiceID, g_ModPMT, ontheair, tables, sets>>

-----------------------------------------------------------------------------
(* The broadcaster and the air *)

Lose ==
  /\ Received /\ lost < MaxLost
  /\ lost' = lost + 1 /\ AirNext
  /\ UNCHANGED <<channel, m_dwServiceID, m_bChannelChanged, g_ModPMT, tuned, version, tables, pmt,
                 map, pos, sets, ghosts, mixed>>

\* A service changes its PMT between two sections.
NewVersion(s) ==
  /\ version[s] + 1 \in Versions(s)
  /\ s \in OnPid(tuned, pidPMT) => air.part = 1
  /\ version' = [version EXCEPT ![s] = @ + 1]
  /\ UNCHANGED <<channel, m_dwServiceID, m_bChannelChanged, g_ModPMT, tuned, lost, air, tables,
                 pmt, map, pos, sets, ghosts, mixed>>

-----------------------------------------------------------------------------
SetChannel ==
  \/ \E s \in Services : SetChannelBegin(s)
  \/ SetChannelEnd \/ SetChannelRestart \/ SetChannelFails

Next ==
  \/ SetChannel
  \/ Pat \/ Cat \/ Es \/ PmtStart \/ PmtCont
  \/ Lose \/ \E s \in Services : NewVersion(s)

\* The broadcaster repeats its tables, and SetChannel comes to an end.
Fairness ==
  /\ WF_vars(SetChannelEnd) /\ WF_vars(Pat) /\ WF_vars(Cat)
  /\ WF_vars(PmtStart) /\ WF_vars(PmtCont)

Spec == Init /\ [][Next]_vars /\ Fairness

-----------------------------------------------------------------------------
(* Properties *)

\* Every variable has its type, and the output buffer is never left full.
TypeOK ==
  /\ ctl \in {"idle", "tune"} /\ oldService \in Services \cup {None}
  /\ m_dwServiceID \in Services
  /\ {m_bChannelChanged, g_ModPMT, bChangePMT, bSplitPMT, bPMTComplete, lcat_version,
      flagLost, mixed} \subseteq BOOLEAN
  /\ tuned \in Transports /\ \A s \in Services : version[s] \in Versions(s)
  /\ air.part \in Nat \ {0} /\ air.ci \in 0..(CiMod - 1)
  /\ ltsid \in Transports \cup {None} /\ pidPMT \in Pids \cup {None} /\ pidEMM \in Pids \cup {None}
  /\ lpmt_version = None \/ lpmt_version \in Nat
  /\ \A k \in 1..Len(pPMT) : pPMT[k] \in Sections \X Nat
  /\ rpmt_ci \in 0..(CiMod - 1) /\ pPMTPackets \in Nat
  /\ pids \subseteq Pids /\ p_old_pids \subseteq Pids
  /\ pos \in 0..(BufSize - 1) /\ sets \in 0..MaxSets /\ lost \in 0..MaxLost
  /\ by \in Services \cup {None}

\* "If the channel has not changed, merge the old PID map" (comments at 1247 and
\* 1250): once a PMT of the chosen service has been applied, the map lets no
\* stream of the service before it through.  The exception: m_bChannelChanged,
\* which SetChannel sets early (517) and clears when it fails (665), was used up
\* by a PMT that was not the first of the new channel, or cleared while that PMT
\* of the channel gone back to was still to come.  (An old EMM PID may stay:
\* a PMT of the new stream that comes before its PAT is read with the old pidEMM.)
MapIsOwn ==
  by = m_dwServiceID /\ ~flagLost
    => pids \cap EsPids \subseteq UNION {EsOf[by][v] : v \in Versions(by)}

Complete ==
  LET s == m_dwServiceID
  IN  EsOf[s][version[s]] \cup {EmmOf[tuned]} \subseteq pids /\ pidPMT = PmtPidOf[s]

\* Whatever channel changes, losses and updates there were, once they are over
\* the map lets every stream of the chosen service through, and goes on so.  The
\* exception: tables read between a change of stream and its first PAT are those
\* of one stream under the name of the other.  If the channel is changed back
\* before that PAT, the next one (885) looks as if nothing had changed, and the
\* EMM PID or the PMT of the stream that was left stays.
MapInTheEnd == <>[](TransportOf[m_dwServiceID] = tuned /\ ~mixed => Complete)
=============================================================================
