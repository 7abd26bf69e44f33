------------------------- MODULE SplitterTunerProofs -------------------------
(* Theorems about SplitterTuner, for every value of its constants.          *)
EXTENDS SplitterTuner, SequenceTheorems, TLAPS

Setting == {"stop", "exchange", "load", "tune", "keep", "flush"}
Closing == {"closeStop", "closeDriver", "closed"}
NoReader == {"exchange", "load", "closeDriver", "closed", "releaseDriver", "flushAll", "deleted"}

LEMMA AfterStopIs ==
  AfterStop["stop"] = "exchange" /\ AfterStop["closeStop"] = "closeDriver"
  /\ AfterStop["releaseStop"] = "releaseDriver"
BY DEF AfterStop

-----------------------------------------------------------------------------
(* The threads and the tuner                                                *)

\* Where the control thread is, and what it knows there.
Places ==
  /\ ctl \in {"idle", "start"} \cup Setting \cup Closing \cup Releasing
  /\ ctl \in Setting \cup {"start"} => m_bTuner /\ req \in Channels
  /\ ctl \in {"tune", "keep", "flush", "start"} => m_pIBon2 = BonNoOf[req]
  /\ ctl = "load" => m_pIBon2 = None

\* A reader that is not over has its handle; a handle is only kept while a tuner
\* is open, and never where the tuner is exchanged or closed.
Handles ==
  /\ reader \in {"none", "start", "check", "read", "stop", "join", "ended"}
  /\ ~m_hTsRead => reader \in {"none", "ended"}
  /\ m_hTsRead => m_pIBon2 # None /\ m_bTuner /\ ctl \notin NoReader

\* The TsSplitter thread lives inside the reader's life.
Nested ==
  /\ splitter \in {"none", "failed", "wait", "woken", "filter", "ended"}
  /\ splitter \in {"wait", "woken", "filter"} => reader \in {"check", "read", "stop", "join"}

\* The reader leaves its loop because it was told to, or could not begin.
Told ==
  /\ m_hTsRead /\ m_bStopTsRead => ctl \in Stopping
  /\ reader \in {"stop", "join"} => m_bStopTsRead
  /\ m_hTsRead /\ ~m_bStopTsRead =>
       reader \in {"start", "check", "read"} \/ (reader = "ended" /\ splitter = "failed")

Lives == Places /\ Handles /\ Nested /\ Told

LEMMA LivesInit == Init => Lives
<1> SUFFICES ASSUME Init PROVE Lives
  OBVIOUS
<1>1. ctl = "idle" /\ reader = "none" /\ splitter = "none" /\ ~m_hTsRead
  BY DEF Init
<1> QED
  BY <1>1 DEF Lives, Places, Handles, Nested, Told, Setting, Closing, Releasing, Stopping

LEMMA TunerNamed == \A c \in Channels : BonNoOf[c] # None /\ BonNoOf[c] \in BonNos
BY NoneAssumption DEF BonNos

LEMMA CallsLive ==
  ASSUME Lives,
         OpenTuner \/ (\E c \in Channels : SetChannel(c)) \/ CloseTuner \/ Release \/ ControlStep
  PROVE  Lives'
<1> USE DEF Lives, Places, Handles, Nested, Told, Setting, Closing, Releasing, Stopping, NoReader,
            threads
<1>1. CASE OpenTuner
  BY <1>1 DEF OpenTuner, control
<1>2. ASSUME NEW c \in Channels, SetChannel(c) PROVE Lives'
  BY <1>2 DEF SetChannel, bLoad, bChange
<1>3. CASE CloseTuner
  BY <1>3 DEF CloseTuner
<1>4. CASE Release
  BY <1>4 DEF Release
<1>5. CASE StopReader
  BY <1>5 DEF StopReader, control
<1>6. CASE JoinReader
  BY <1>6, AfterStopIs DEF JoinReader
<1>7. CASE Exchange \/ Load \/ LoadFails
  BY <1>7, TunerNamed DEF Exchange, Load, LoadFails, Err1, Return
<1>8. CASE Tune \/ TuneFails \/ Keep
  BY <1>8 DEF Tune, TuneFails, Keep, Err1, Return
<1>9. CASE Store
  BY <1>9 DEF Store
<1>10. CASE Start
  <2>1. m_pIBon2 # None /\ m_bTuner /\ ctl = "start" /\ ctl' = "idle"
        /\ UNCHANGED <<m_bTuner, m_pIBon2, splitter>>
    BY <1>10, TunerNamed DEF Start, Return
  <2>2. CASE m_hTsRead
    <3>1. UNCHANGED <<m_hTsRead, m_bStopTsRead, reader>>
      BY <1>10, <2>2 DEF Start
    <3> QED
      BY <2>1, <3>1
  <2>3. CASE ~m_hTsRead
    <3>1. m_hTsRead' /\ ~m_bStopTsRead' /\ reader' = "start"
      BY <1>10, <2>3, Zenon DEF Start
    <3>2. splitter \notin {"wait", "woken", "filter"}
      BY <2>3
    <3>3. Places'
      BY <2>1
    <3>4. Handles'
      BY <2>1, <3>1
    <3>5. Nested'
      BY <2>1, <3>1, <3>2
    <3>6. Told'
      BY <2>1, <3>1
    <3> QED
      BY <3>3, <3>4, <3>5, <3>6, Zenon DEF Lives
  <2> QED
    BY <2>2, <2>3
<1>11. CASE StartFails
  <2>1. ctl' = "idle" /\ ~m_hTsRead' /\ UNCHANGED <<reader, splitter, m_bTuner, m_pIBon2>>
        /\ ~m_hTsRead
    BY <1>11 DEF StartFails, Return
  <2>2. reader' \in {"none", "ended"}
    BY <2>1
  <2> QED
    BY <2>1, <2>2
<1>12. CASE CloseDriver \/ CloseEnd \/ ReleaseDriver \/ Delete
  BY <1>12 DEF CloseDriver, CloseEnd, ReleaseDriver, Delete
<1> QED
  BY <1>1, <1>2, <1>3, <1>4, <1>5, <1>6, <1>7, <1>8, <1>9, <1>10, <1>11, <1>12
     DEF ControlStep

LEMMA ThreadsLive ==
  ASSUME Lives,
         ReaderStep \/ SplitterStep \/ GetTsStream \/ Purge \/ AppStep \/ UNCHANGED vars
  PROVE  Lives'
<1> USE DEF Lives, Places, Handles, Nested, Told, Setting, Closing, Releasing, Stopping, NoReader,
            control
<1>1. CASE ReaderStart
  <2>1. reader = "start" /\ UNCHANGED <<ctl, req, m_bTuner, m_pIBon2, m_hTsRead, m_bStopTsRead>>
    BY <1>1 DEF ReaderStart
  <2>2. \/ splitter' = "wait" /\ reader' = "check"
        \/ splitter' = "failed" /\ reader' = "ended"
    BY <1>1 DEF ReaderStart
  <2>3. Places'
    BY <2>1
  <2>4. Handles'
    BY <2>1, <2>2
  <2>5. Nested'
    BY <2>2
  <2>6. Told'
    BY <2>1, <2>2
  <2> QED
    BY <2>3, <2>4, <2>5, <2>6, Zenon DEF Lives
<1>2. CASE ReaderCheck
  BY <1>2 DEF ReaderCheck
<1>3. CASE ReaderRead
  BY <1>3 DEF ReaderRead
<1>4. CASE ReaderStop
  BY <1>4 DEF ReaderStop
<1>5. CASE ReaderEnd
  BY <1>5 DEF ReaderEnd
<1>6. CASE SplitterWake
  BY <1>6 DEF SplitterWake
<1>7. CASE SplitterTake
  BY <1>7 DEF SplitterTake
<1>8. CASE SplitterFilter
  <2>1. splitter = "filter" /\ splitter' = "wait"
        /\ UNCHANGED <<ctl, req, m_bTuner, m_pIBon2, m_hTsRead, m_bStopTsRead, reader>>
    BY <1>8 DEF SplitterFilter
  <2> QED
    BY <2>1
<1>9. CASE GetTsStream \/ Purge \/ AppStep \/ UNCHANGED vars
  <2>1. UNCHANGED <<control, m_bTuner, m_pIBon2, threads>>
    BY <1>9 DEF GetTsStream, Purge, AppStep, PurgeLock, PurgeWrite, PurgeEnd, vars
  <2> QED
    BY <2>1 DEF threads
<1> QED
  BY <1>1, <1>2, <1>3, <1>4, <1>5, <1>6, <1>7, <1>8, <1>9 DEF ReaderStep, SplitterStep

LEMMA LivesStep == Lives /\ [Next]_vars => Lives'
<1> SUFFICES ASSUME Lives, [Next]_vars PROVE Lives'
  OBVIOUS
<1>1. \/ OpenTuner \/ (\E c \in Channels : SetChannel(c)) \/ CloseTuner \/ Release \/ ControlStep
      \/ ReaderStep \/ SplitterStep \/ GetTsStream \/ Purge \/ AppStep \/ UNCHANGED vars
  BY DEF Next, Deleted
<1> QED
  BY <1>1, CallsLive, ThreadsLive

LEMMA LivesInvariant == Spec => []Lives
<1> QED
  BY LivesInit, LivesStep, PTL DEF Spec

\* The reader thread never calls the tuner through a pointer to one that is gone,
\* through any sequence of channels, failing loads and closings, and both threads
\* are over before the object is.
THEOREM TunerOutlivesReader == Spec => []ReaderOnLiveTuner
<1>1. Lives => ReaderOnLiveTuner
  BY DEF Lives, Handles, Nested, NoReader, ReaderOnLiveTuner
<1> QED
  BY <1>1, LivesInvariant, PTL

-----------------------------------------------------------------------------
(* The settings and what waits for the filter                               *)

Olds == [channel : Channels \cup {None}, use : BOOLEAN, service : Services]

LEMMA OldStored ==
  ASSUME NEW o \in Olds, NEW p
  PROVE  \A x \in Services : p = [o EXCEPT !.service = x] => p \in Olds /\ p.service = x
BY DEF Olds

LEMMA ServiceIDs ==
  \A c \in Channels \cup {None} : bUseServiceID(c) \in BOOLEAN /\ DwServiceID(c) \in Services
BY DEF bUseServiceID, DwServiceID, Services

\* During SetChannel only the service ID is that of the new channel, and what it
\* was is kept; afterwards the settings are those of the channel stored.
Stored ==
  /\ old \in Olds /\ cur \in Channels \cup {None}
  /\ m_bUseServiceID = bUseServiceID(cur)
  /\ ctl \notin Setting => m_dwServiceID = DwServiceID(cur)
  /\ ctl \in Setting => m_dwServiceID = ServiceOf[req] /\ old.service = DwServiceID(cur)
  /\ ctl = "start" => /\ old.service = DwServiceID(old.channel)
                       /\ old.use = bUseServiceID(old.channel)

\* Nothing waits for the filter without a service, or when the reader that will
\* use the new settings is still to be started.
NothingWaits == m_fifoRawTS = << >> /\ out = << >> /\ splitter # "filter"

\* In the second case the way was flushed and nothing was read since.
NothingRead == m_fifoTS = << >> /\ buf = << >> /\ m_SyncBuf = held

Waits ==
  /\ splitterLock = None <=> splitter # "filter"
  /\ splitter # "filter" => raw = << >>
  /\ ~m_bUseServiceID \/ (ctl = "start" /\ ~m_hTsRead) => NothingWaits
  /\ ctl = "start" /\ ~m_hTsRead => NothingRead

LEMMA NoOldIs == NoOld \in Olds
BY DEF NoOld, Olds, Services

LEMMA SettledInit == Init => Stored /\ Waits
<1> SUFFICES ASSUME Init PROVE Stored /\ Waits
  OBVIOUS
<1>1. /\ old = NoOld /\ ctl = "idle"
      /\ cur = None /\ m_dwServiceID = None /\ m_bUseServiceID = FALSE
      /\ m_fifoRawTS = << >> /\ out = << >> /\ raw = << >> /\ splitter = "none" /\ splitterLock = None
  BY DEF Init
<1>2. Stored
  BY <1>1, NoOldIs DEF Stored, Services, Setting, bUseServiceID, DwServiceID
<1>3. Waits
  BY <1>1 DEF Waits, NothingWaits
<1> QED
  BY <1>2, <1>3

LEMMA StoredStep ==
  ASSUME Lives, Stored, [Next]_vars PROVE Stored'
<1> USE DEF control, settings
<1>1. ASSUME UNCHANGED <<old, settings>>, UNCHANGED req \/ ctl' \notin Setting,
             ctl' \in Setting <=> ctl \in Setting, ctl' # "start" \/ ctl = "start"
      PROVE  Stored'
  BY <1>1 DEF Stored, bUseServiceID, DwServiceID
<1>2. CASE OpenTuner \/ CloseTuner \/ Release
  BY <1>1, <1>2 DEF OpenTuner, CloseTuner, Release, Setting
<1>3. ASSUME NEW c \in Channels, SetChannel(c) PROVE Stored'
  <2>1. /\ ctl = "idle" /\ ctl' \in Setting /\ req' = c /\ m_dwServiceID' = ServiceOf[c]
        /\ old' = [old EXCEPT !.service = m_dwServiceID] /\ UNCHANGED <<cur, m_bUseServiceID>>
    BY <1>3 DEF SetChannel, Setting
  <2>2. m_dwServiceID = DwServiceID(cur) /\ m_dwServiceID \in Services
    BY <2>1, ServiceIDs DEF Stored, Setting
  <2>3. /\ old' \in Olds /\ old'.service = m_dwServiceID
    BY <2>1, <2>2, OldStored DEF Stored
  <2> QED
    BY <2>1, <2>2, <2>3 DEF Stored, Setting, bUseServiceID, DwServiceID
<1>4. CASE StopReader \/ Exchange \/ Load \/ Tune \/ Keep
  BY <1>1, <1>4 DEF StopReader, Exchange, Load, Tune, Keep, Setting
<1>5. CASE JoinReader
  BY <1>1, <1>5, AfterStopIs DEF JoinReader, Setting, Stopping
<1>6. CASE LoadFails \/ TuneFails
  <2>1. /\ ctl \in Setting /\ ctl' = "idle" /\ m_dwServiceID' = old.service /\ old' = NoOld
        /\ UNCHANGED <<cur, m_bUseServiceID>>
    BY <1>6 DEF LoadFails, TuneFails, Err1, Return, Setting
  <2> QED
    BY <2>1, NoOldIs DEF Stored, Setting, bUseServiceID, DwServiceID
<1>7. CASE Store
  <2>1. /\ ctl = "flush" /\ ctl' = "start" /\ cur' = req /\ m_bUseServiceID' = bUseServiceID(req)
        /\ old' = [old EXCEPT !.channel = cur, !.use = m_bUseServiceID] /\ UNCHANGED m_dwServiceID
    BY <1>7 DEF Store
  <2>2. /\ m_bUseServiceID = bUseServiceID(cur) /\ m_bUseServiceID \in BOOLEAN
        /\ cur \in Channels \cup {None} /\ old \in Olds
    BY ServiceIDs DEF Stored
  <2>3. old' \in Olds /\ old'.channel = cur /\ old'.use = m_bUseServiceID /\ old'.service = old.service
    <3>1. old' = [old EXCEPT !.channel = cur, !.use = m_bUseServiceID]
      BY <2>1
    <3>2. old \in Olds /\ cur \in Channels \cup {None} /\ m_bUseServiceID \in BOOLEAN
      BY <2>2
    <3> QED
      BY <3>1, <3>2 DEF Olds
  <2>4. req \in Channels /\ req # None
    BY <2>1, NoneAssumption DEF Lives, Places, Setting
  <2> QED
    BY <2>1, <2>2, <2>3, <2>4 DEF Stored, Setting, bUseServiceID, DwServiceID
<1>8. CASE StartFails
  <2>1. /\ ctl = "start" /\ ctl' = "idle" /\ old' = NoOld
        /\ cur' = old.channel /\ m_bUseServiceID' = old.use /\ m_dwServiceID' = old.service
    BY <1>8 DEF StartFails, Return
  <2>2. old.channel \in Channels \cup {None}
    BY DEF Stored, Olds
  <2> QED
    BY <2>1, <2>2, NoOldIs DEF Stored, Setting, bUseServiceID, DwServiceID
<1>12. CASE Start
  <2>1. ctl = "start" /\ ctl' = "idle" /\ old' = NoOld /\ UNCHANGED settings
    BY <1>12 DEF Start, Return
  <2> QED
    BY <2>1, NoOldIs DEF Stored, Setting, bUseServiceID, DwServiceID
<1>9. CASE CloseDriver \/ CloseEnd \/ ReleaseDriver \/ Delete
  BY <1>1, <1>9 DEF CloseDriver, CloseEnd, ReleaseDriver, Delete, Setting
<1>10. CASE ReaderStep
  <2>1. UNCHANGED <<control, settings>>
    BY <1>10 DEF ReaderStep, ReaderStart, ReaderCheck, ReaderRead, ReaderStop, ReaderEnd
  <2> QED
    BY <1>1, <2>1
<1>11. CASE SplitterStep \/ GetTsStream \/ Purge \/ AppStep \/ Deleted \/ UNCHANGED vars
  <2>1. UNCHANGED <<control, settings>>
    BY <1>11 DEF SplitterStep, SplitterWake, SplitterTake, SplitterFilter, GetTsStream, Purge, AppStep,
                 PurgeLock, PurgeWrite, PurgeEnd, Deleted, vars
  <2> QED
    BY <1>1, <2>1
<1> QED
  BY <1>2, <1>3, <1>4, <1>5, <1>6, <1>7, <1>8, <1>9, <1>10, <1>11, <1>12 DEF Next, ControlStep

LEMMA WaitsStep ==
  ASSUME Lives, Stored, Waits, [Next]_vars PROVE Waits'
<1> USE DEF NothingWaits, NothingRead, control, settings, threads, data, carry, locks
<1>1. ASSUME UNCHANGED <<splitterLock, splitter, raw, m_bUseServiceID>>,
             UNCHANGED <<m_fifoRawTS, out>> \/ (m_fifoRawTS' = << >> /\ out' = << >>),
             ctl' = "start" =>
               UNCHANGED <<m_fifoTS, buf, m_SyncBuf, held>>
               \/ (m_fifoTS' = << >> /\ buf' = << >> /\ m_SyncBuf' = held'),
             m_hTsRead' = m_hTsRead \/ ctl' # "start",
             ctl' = "start" => ctl = "start"
      PROVE  Waits'
  BY <1>1 DEF Waits
<1>2. CASE OpenTuner \/ CloseTuner \/ Release
  BY <1>1, <1>2 DEF OpenTuner, CloseTuner, Release
<1>3. ASSUME NEW c \in Channels, SetChannel(c) PROVE Waits'
  BY <1>1, <1>3 DEF SetChannel
<1>4. CASE StopReader \/ Exchange \/ Load \/ LoadFails \/ Tune \/ TuneFails \/ Keep
  BY <1>1, <1>4 DEF StopReader, Exchange, Load, LoadFails, Tune, TuneFails, Keep, Err1, Return
<1>5. CASE JoinReader
  BY <1>1, <1>5, AfterStopIs DEF JoinReader, Stopping
<1>6. CASE Store
  <2>1. /\ splitterLock = None /\ m_fifoRawTS' = << >> /\ out' = << >>
        /\ m_fifoTS' = << >> /\ buf' = << >> /\ m_SyncBuf' = held'
        /\ UNCHANGED <<splitterLock, splitter, raw>>
    BY <1>6 DEF Store, TsFlush
  <2> QED
    BY <2>1 DEF Waits
<1>7. CASE Start
  <2>1. ctl = "start" /\ ctl' = "idle"
        /\ UNCHANGED <<splitterLock, splitter, raw, m_bUseServiceID, m_fifoRawTS, out>>
    BY <1>7 DEF Start, Return
  <2> QED
    BY <1>1, <2>1
<1>8. CASE StartFails
  <2>1. /\ ctl = "start" /\ ctl' = "idle" /\ ~m_hTsRead
        /\ UNCHANGED <<splitterLock, splitter, raw, m_fifoRawTS, out>>
    BY <1>8 DEF StartFails, Return
  <2> QED
    BY <2>1 DEF Waits
<1>9. CASE CloseDriver \/ CloseEnd \/ ReleaseDriver
  BY <1>1, <1>9 DEF CloseDriver, CloseEnd, ReleaseDriver
<1>10. CASE Delete
  <2>1. /\ ctl' = "deleted" /\ m_fifoRawTS' = << >> /\ out' = << >>
        /\ UNCHANGED <<splitterLock, splitter, raw, m_bUseServiceID>>
    BY <1>10 DEF Delete, TsFlush
  <2> QED
    BY <1>1, <2>1
<1>11. CASE ReaderStart
  <2>1. /\ reader = "start" /\ splitter' \in {"wait", "failed"}
        /\ UNCHANGED <<splitterLock, raw, m_bUseServiceID, m_fifoRawTS, ctl, m_hTsRead>>
        /\ out' \in {<< >>, out}
    BY <1>11 DEF ReaderStart
  <2>2. splitter # "filter" /\ m_hTsRead
    BY <2>1 DEF Lives, Nested, Handles
  <2> QED
    BY <2>1, <2>2 DEF Waits
<1>12. CASE ReaderRead
  <2>1. /\ reader = "read" /\ UNCHANGED <<splitterLock, splitter, raw, m_bUseServiceID, out, ctl, m_hTsRead>>
        /\ ~m_bUseServiceID => UNCHANGED m_fifoRawTS
    BY <1>12 DEF ReaderRead
  <2>2. m_hTsRead
    BY <2>1 DEF Lives, Handles
  <2> QED
    BY <2>1, <2>2 DEF Waits
<1>13. CASE ReaderCheck \/ ReaderStop \/ ReaderEnd
  <2>1. UNCHANGED <<splitterLock, splitter, data, m_bUseServiceID, ctl, m_hTsRead>>
    BY <1>13 DEF ReaderCheck, ReaderStop, ReaderEnd
  <2> QED
    BY <1>1, <2>1
<1>14. CASE SplitterWake
  <2>1. /\ splitter = "wait" /\ splitter' \in {"ended", "woken"}
        /\ UNCHANGED <<splitterLock, data, m_bUseServiceID, ctl, m_hTsRead>>
    BY <1>14 DEF SplitterWake
  <2> QED
    BY <2>1 DEF Waits
<1>15. CASE SplitterTake
  <2>1. /\ splitter = "woken" /\ UNCHANGED <<m_bUseServiceID, ctl, m_hTsRead, out>>
    BY <1>15 DEF SplitterTake
  <2>2. m_hTsRead
    BY <2>1 DEF Lives, Nested, Handles
  <2>3. CASE m_fifoRawTS = << >>
    <3>1. splitter' = "wait" /\ UNCHANGED <<raw, m_fifoRawTS, splitterLock>>
      BY <1>15, <2>3 DEF SplitterTake
    <3> QED
      BY <2>1, <2>2, <3>1 DEF Waits
  <2>4. CASE m_fifoRawTS # << >>
    <3>1. splitter' = "filter" /\ splitterLock' # None
      BY <1>15, <2>4, NoneAssumption DEF SplitterTake
    <3>2. m_bUseServiceID /\ ~(ctl = "start" /\ ~m_hTsRead)
      BY <2>2, <2>4 DEF Waits
    <3> QED
      BY <2>1, <3>1, <3>2 DEF Waits
  <2> QED
    BY <2>3, <2>4
<1>16. CASE SplitterFilter
  <2>1. /\ splitter = "filter" /\ splitter' = "wait" /\ raw' = << >> /\ splitterLock' = None
        /\ UNCHANGED <<m_bUseServiceID, ctl, m_hTsRead>>
    BY <1>16 DEF SplitterFilter
  <2>2. m_bUseServiceID /\ ~(ctl = "start" /\ ~m_hTsRead)
    BY <2>1 DEF Waits
  <2> QED
    BY <2>1, <2>2 DEF Waits
<1>17. CASE GetTsStream \/ Purge \/ AppStep \/ Deleted \/ UNCHANGED vars
  <2>1. /\ UNCHANGED <<splitterLock, splitter, raw, m_bUseServiceID, ctl, m_hTsRead>>
        /\ UNCHANGED <<m_fifoRawTS, out>> \/ (m_fifoRawTS' = << >> /\ out' = << >>)
        /\ \/ UNCHANGED <<m_fifoTS, buf, m_SyncBuf, held>>
           \/ m_fifoTS' = << >> /\ buf' = << >> /\ m_SyncBuf' = held'
           \/ m_fifoTS # << >> /\ UNCHANGED <<m_fifoRawTS, out>>
    BY <1>17 DEF GetTsStream, Purge, AppStep, PurgeLock, PurgeWrite, PurgeEnd, TsFlush, Deleted, vars
  <2> QED
    BY <2>1 DEF Waits
<1> QED
  BY <1>2, <1>3, <1>4, <1>5, <1>6, <1>7, <1>8, <1>9, <1>10, <1>11, <1>12, <1>13, <1>14, <1>15, <1>16,
     <1>17 DEF Next, ControlStep, ReaderStep, SplitterStep

LEMMA SettledInvariant == Spec => [](Lives /\ Stored /\ Waits)
<1>1. Init => Lives /\ Stored /\ Waits
  BY LivesInit, SettledInit
<1>2. Lives /\ Stored /\ Waits /\ [Next]_vars => (Lives /\ Stored /\ Waits)'
  BY LivesStep, StoredStep, WaitsStep
<1> QED
  BY <1>1, <1>2, PTL DEF Spec

\* After every call, also one that failed half way, what the splitter filters by
\* is what the stored channel asks for, and without a service nothing waits for
\* the filter.
THEOREM SettingsStayWithChannel == Spec => []SettingsAgree
<1>1. Lives /\ Stored /\ Waits => SettingsAgree
  BY DEF Stored, Waits, NothingWaits, Setting, SettingsAgree
<1> QED
  BY <1>1, SettledInvariant, PTL

-----------------------------------------------------------------------------
(* The tuner and the channel stored                                         *)

On(c) == tuner.open /\ tuner.at = TargetOf[c]

\* The loaded tuner is on the channel stored last, unless that is being changed
\* or they have lost touch.
Touch ==
  /\ tuner \in [open : BOOLEAN, at : Targets \cup {None}]
  /\ m_pIBon2 # None /\ ~unsure /\ ctl \notin {"tune", "flush"} =>
       cur # None /\ m_pIBon2 = BonNoOf[cur] /\ On(cur)
  /\ ctl = "keep" => TargetOf[req] = TargetOf[cur]
  /\ ctl = "flush" /\ ~unsure => On(req)
  /\ ctl = "start" => cur = req

\* What the application was promised is what is stored, with a reader.
Promised ==
  /\ ctl \in Closing \cup Releasing => promise = None
  /\ promise # None /\ ctl = "idle" =>
       m_hTsRead /\ ~m_bStopTsRead /\ m_pIBon2 = BonNoOf[promise] /\ cur = promise

LEMMA TouchInit == Init => Touch /\ Promised
<1> SUFFICES ASSUME Init PROVE Touch /\ Promised
  OBVIOUS
<1>1. tuner = [open |-> FALSE, at |-> None] /\ m_pIBon2 = None /\ ctl = "idle" /\ promise = None
  BY DEF Init, Closed
<1> QED
  BY <1>1 DEF Touch, Promised, Closing, Releasing

LEMMA TouchStep ==
  ASSUME Lives, Touch, [Next]_vars PROVE Touch'
<1> USE DEF On, control, settings, ghosts
<1>1. ASSUME UNCHANGED <<m_pIBon2, tuner, cur, unsure>>, UNCHANGED req \/ ctl' = "idle",
             ctl' \in {"keep", "tune", "flush", "start"} => ctl' = ctl,
             ctl \notin {"tune", "flush"} \/ ctl' = ctl
      PROVE  Touch'
  BY <1>1 DEF Touch
<1>2. CASE OpenTuner \/ CloseTuner \/ Release
  BY <1>1, <1>2 DEF OpenTuner, CloseTuner, Release
<1>3. ASSUME NEW c \in Channels, SetChannel(c) PROVE Touch'
  <2>1. /\ ctl = "idle" /\ req' = c /\ UNCHANGED <<m_pIBon2, tuner, cur, unsure>>
        /\ ctl' = "keep" => TargetOf[c] = TargetOf[cur]
        /\ ctl' \in {"keep", "tune", "load", "stop"}
    BY <1>3 DEF SetChannel, bChange
  <2> QED
    BY <2>1 DEF Touch
<1>4. CASE StopReader
  BY <1>1, <1>4 DEF StopReader
<1>5. CASE JoinReader
  BY <1>1, <1>5, AfterStopIs DEF JoinReader, Stopping
<1>6. CASE Exchange \/ ReleaseDriver
  <2>1. tuner' = [open |-> FALSE, at |-> None] /\ m_pIBon2' = None
        /\ ctl' \in {"load", "flushAll"}
    BY <1>6 DEF Exchange, ReleaseDriver, Closed
  <2> QED
    BY <2>1 DEF Touch
<1>7. CASE Load
  <2>1. tuner' = [open |-> TRUE, at |-> None] /\ ctl' = "tune"
    BY <1>7 DEF Load
  <2> QED
    BY <2>1 DEF Touch
<1>8. CASE LoadFails
  <2>1. m_pIBon2 = None
    BY <1>8 DEF LoadFails, Lives, Places
  <2>2. ctl = "load" /\ ctl' = "idle" /\ UNCHANGED <<m_pIBon2, tuner, cur, unsure>>
    BY <1>8 DEF LoadFails, Err1, Return
  <2> QED
    BY <1>1, <2>2
<1>9. CASE Tune
  <2>1. /\ ctl = "tune" /\ ctl' = "flush" /\ UNCHANGED <<req, m_pIBon2, cur>>
        /\ unsure' = ~tuner.open
        /\ tuner' = IF tuner.open THEN [tuner EXCEPT !.at = TargetOf[req]] ELSE tuner
    BY <1>9 DEF Tune
  <2>2. req \in Channels /\ TargetOf[req] \in Targets
    BY <2>1 DEF Lives, Places, Setting, Targets
  <2>3. CASE tuner.open
    <3>1. tuner' = [tuner EXCEPT !.at = TargetOf[req]]
      BY <2>1, <2>3
    <3>2. tuner'.open /\ tuner'.at = TargetOf[req] /\ tuner' \in [open : BOOLEAN, at : Targets \cup {None}]
      BY <2>2, <2>3, <3>1 DEF Touch
    <3> QED
      BY <2>1, <3>2 DEF Touch
  <2>4. CASE ~tuner.open
    <3>1. tuner' = tuner /\ unsure'
      BY <2>1, <2>4
    <3> QED
      BY <2>1, <3>1 DEF Touch
  <2> QED
    BY <2>3, <2>4
<1>10. CASE TuneFails \/ StartFails
  <2>1. ctl' = "idle" /\ unsure' = TRUE /\ UNCHANGED tuner
    BY <1>10 DEF TuneFails, StartFails, Err1, Return
  <2>2. unsure'
    BY <2>1, Zenon
  <2> QED
    BY <2>1, <2>2 DEF Touch
<1>11. CASE Keep
  <2>1. /\ ctl = "keep" /\ ctl' = "flush" /\ UNCHANGED <<req, m_pIBon2, tuner, cur, unsure>>
    BY <1>11 DEF Keep
  <2>2. m_pIBon2 # None
    BY <2>1, TunerNamed DEF Lives, Places, Setting
  <2> QED
    BY <2>1, <2>2 DEF Touch
<1>12. CASE Store
  <2>1. /\ ctl = "flush" /\ ctl' = "start" /\ cur' = req /\ UNCHANGED <<req, m_pIBon2, tuner, unsure>>
    BY <1>12 DEF Store
  <2>2. m_pIBon2 = BonNoOf[req] /\ req # None
    BY <2>1, NoneAssumption DEF Lives, Places, Setting
  <2> QED
    BY <2>1, <2>2 DEF Touch
<1>13. CASE Start \/ CloseEnd \/ Delete
  BY <1>1, <1>13 DEF Start, Return, CloseEnd, Delete
<1>14. CASE CloseDriver
  <2>1. ctl' = "closed" /\ unsure' = TRUE /\ tuner' = [open |-> FALSE, at |-> None]
    BY <1>14 DEF CloseDriver, Closed
  <2>2. unsure'
    BY <2>1, Zenon
  <2> QED
    BY <2>1, <2>2 DEF Touch
<1>15. CASE ReaderStep \/ SplitterStep \/ GetTsStream \/ Purge \/ AppStep \/ Deleted \/ UNCHANGED vars
  <2>1. UNCHANGED <<ctl, req, m_pIBon2, tuner, cur, unsure>>
    BY <1>15 DEF ReaderStep, ReaderStart, ReaderCheck, ReaderRead, ReaderStop, ReaderEnd, SplitterStep,
                 SplitterWake, SplitterTake, SplitterFilter, GetTsStream, Purge, AppStep, PurgeLock,
                 PurgeWrite, PurgeEnd, Deleted, vars
  <2> QED
    BY <1>1, <2>1
<1> QED
  BY <1>2, <1>3, <1>4, <1>5, <1>6, <1>7, <1>8, <1>9, <1>10, <1>11, <1>12, <1>13, <1>14, <1>15
     DEF Next, ControlStep

LEMMA PromisedStep ==
  ASSUME Lives, Touch, Promised, [Next]_vars PROVE Promised'
<1> USE DEF control, settings, threads, ghosts, Setting, Closing, Releasing
<1>1. ASSUME UNCHANGED <<promise, m_hTsRead, m_bStopTsRead, m_pIBon2, cur>>, UNCHANGED ctl
      PROVE  Promised'
  BY <1>1 DEF Promised
<1>2. ASSUME promise' = None PROVE Promised'
  BY <1>2 DEF Promised
<1>3. ASSUME ctl' \in Setting \cup {"start"} PROVE Promised'
  BY <1>3 DEF Promised
<1>4. CASE OpenTuner \/ StopReader
  BY <1>1, <1>4 DEF OpenTuner, StopReader, Promised, Stopping
<1>5. CASE CloseTuner \/ Release \/ LoadFails \/ TuneFails \/ StartFails
  BY <1>2, <1>5 DEF CloseTuner, Release, LoadFails, TuneFails, StartFails, Err1, Return
<1>6. CASE (\E c \in Channels : SetChannel(c)) \/ Exchange \/ Load \/ Tune \/ Keep \/ Store
  BY <1>3, <1>6 DEF SetChannel, Exchange, Load, Tune, Keep, Store
<1>7. CASE JoinReader
  <2>1. UNCHANGED promise /\ ctl \in Stopping /\ ctl' = AfterStop[ctl]
    BY <1>7 DEF JoinReader
  <2> QED
    BY <2>1, AfterStopIs DEF Stopping, Promised
<1>8. CASE Start
  <2>1. /\ ctl = "start" /\ ctl' = "idle" /\ promise' = req /\ UNCHANGED <<m_pIBon2, cur>>
        /\ m_pIBon2 = BonNoOf[req] /\ cur = req
    BY <1>8 DEF Start, Return, Lives, Places, Touch
  <2>2. CASE m_hTsRead
    <3>1. UNCHANGED <<m_hTsRead, m_bStopTsRead>>
      BY <1>8, <2>2 DEF Start
    <3>2. ~m_bStopTsRead
      BY <2>1, <2>2 DEF Lives, Told, Stopping
    <3> QED
      BY <2>1, <2>2, <3>1, <3>2 DEF Promised
  <2>3. CASE ~m_hTsRead
    <3>1. m_hTsRead' /\ ~m_bStopTsRead'
      BY <1>8, <2>3, Zenon DEF Start
    <3> QED
      BY <2>1, <3>1 DEF Promised
  <2> QED
    BY <2>2, <2>3
<1>9. CASE CloseDriver \/ CloseEnd \/ ReleaseDriver \/ Delete
  <2>1. ctl \in Closing \cup Releasing /\ UNCHANGED promise
    BY <1>9 DEF CloseDriver, CloseEnd, ReleaseDriver, Delete
  <2> QED
    BY <1>2, <2>1 DEF Promised
<1>10. CASE ReaderStep \/ SplitterStep \/ GetTsStream \/ Purge \/ AppStep \/ Deleted \/ UNCHANGED vars
  <2>1. UNCHANGED <<ctl, promise, m_hTsRead, m_bStopTsRead, m_pIBon2, cur>>
    BY <1>10 DEF ReaderStep, ReaderStart, ReaderCheck, ReaderRead, ReaderStop, ReaderEnd, SplitterStep,
                 SplitterWake, SplitterTake, SplitterFilter, GetTsStream, Purge, AppStep, PurgeLock,
                 PurgeWrite, PurgeEnd, Deleted, vars
  <2> QED
    BY <1>1, <2>1
<1> QED
  BY <1>4, <1>5, <1>6, <1>7, <1>8, <1>9, <1>10 DEF Next, ControlStep

\* As long as SetChannel's TRUE holds, the tuner of that entry is loaded with a
\* reader on it, and tuned to the entry unless the tuner and the stored channel
\* have lost touch.
THEOREM PromiseIsKept == Spec => []PlaysWhatWasPromised
<1>1. Init => Lives /\ Touch /\ Promised
  BY LivesInit, TouchInit
<1>2. Lives /\ Touch /\ Promised /\ [Next]_vars => (Lives /\ Touch /\ Promised)'
  BY LivesStep, TouchStep, PromisedStep
<1>3. Lives /\ Touch /\ Promised => PlaysWhatWasPromised
  <2> SUFFICES ASSUME Lives, Touch, Promised, promise # None, ctl = "idle"
               PROVE  /\ m_pIBon2 = BonNoOf[promise] /\ cur = promise
                      /\ reader \in {"start", "check", "read"} \/ splitter = "failed"
                      /\ unsure \/ tuner = [open |-> TRUE, at |-> TargetOf[promise]]
    BY DEF PlaysWhatWasPromised
  <2>1. m_hTsRead /\ ~m_bStopTsRead /\ m_pIBon2 = BonNoOf[promise] /\ cur = promise
    BY DEF Promised
  <2>2. reader \in {"start", "check", "read"} \/ splitter = "failed"
    BY <2>1 DEF Lives, Told
  <2>3. ASSUME ~unsure PROVE tuner = [open |-> TRUE, at |-> TargetOf[promise]]
    <3>1. tuner.open /\ tuner.at = TargetOf[promise]
      BY <2>1, <2>3 DEF Touch, On, Lives, Handles
    <3>2. tuner \in [open : BOOLEAN, at : Targets \cup {None}]
      BY DEF Touch
    <3> QED
      BY <3>1, <3>2
  <2> QED
    BY <2>1, <2>2, <2>3
<1> QED
  BY <1>1, <1>2, <1>3, PTL DEF Spec

-----------------------------------------------------------------------------
(* Lines of buffers                                                         *)

\* The packets of a sequence, and those of a line of sequences.
Packs(s) == {s[i] : i \in 1..Len(s)}
All(f) == UNION {Packs(f[k]) : k \in 1..Len(f)}

Older(S, T) == \A x \in S, y \in T : x[2] < y[2]

Rising(s) == \A i, j \in 1..Len(s) : i < j => s[i][2] < s[j][2]

Lines == Seq(Seq(Units))

\* A line ascends when each of its buffers does and each is older than those
\* behind it.
LEMMA AscendingIs ==
  ASSUME NEW f
  PROVE  Ascending(f) <=> /\ \A k \in 1..Len(f) : Rising(f[k])
                          /\ \A k, l \in 1..Len(f) : k < l => Older(Packs(f[k]), Packs(f[l]))
<1>1. ASSUME Ascending(f), NEW k \in 1..Len(f) PROVE Rising(f[k])
  BY <1>1 DEF Ascending, Rising
<1>2. ASSUME Ascending(f), NEW k \in 1..Len(f), NEW l \in 1..Len(f), k < l
      PROVE  Older(Packs(f[k]), Packs(f[l]))
  BY <1>2 DEF Ascending, Older, Packs
<1>3. ASSUME \A k \in 1..Len(f) : Rising(f[k]),
             \A k, l \in 1..Len(f) : k < l => Older(Packs(f[k]), Packs(f[l])),
             NEW k \in 1..Len(f), NEW l \in 1..Len(f),
             NEW i \in 1..Len(f[k]), NEW j \in 1..Len(f[l]), k < l \/ (k = l /\ i < j)
      PROVE  f[k][i][2] < f[l][j][2]
  <2>1. CASE k < l
    <3>1. Older(Packs(f[k]), Packs(f[l]))
      BY <1>3, <2>1
    <3> QED
      BY <3>1 DEF Older, Packs
  <2>2. CASE k = l /\ i < j
    <3>1. Rising(f[k])
      BY <1>3
    <3> QED
      BY <2>2, <3>1 DEF Rising
  <2> QED
    BY <1>3, <2>1, <2>2
<1> QED
  BY <1>1, <1>2, <1>3 DEF Ascending

LEMMA OlderParts ==
  ASSUME NEW S, NEW T, NEW U
  PROVE  /\ Older(S \cup T, U) <=> Older(S, U) /\ Older(T, U)
         /\ Older(U, S \cup T) <=> Older(U, S) /\ Older(U, T)
         /\ Older({}, U) /\ Older(U, {})
         /\ S \subseteq T /\ Older(T, U) => Older(S, U)
         /\ S \subseteq T /\ Older(U, T) => Older(U, S)
BY DEF Older

LEMMA NoPackets == Packs(<< >>) = {} /\ All(<< >>) = {} /\ Rising(<< >>) /\ Ascending(<< >>)
<1>1. Len(<< >>) = 0
  OBVIOUS
<1> QED
  BY <1>1 DEF Packs, All, Rising, Ascending

LEMMA PacksConcat ==
  ASSUME NEW S, NEW s \in Seq(S), NEW t \in Seq(S)
  PROVE  Packs(s \o t) = Packs(s) \cup Packs(t)
<1> DEFINE u == s \o t
           m == Len(s)
           n == Len(t)
<1>1. /\ m \in Nat /\ n \in Nat /\ Len(u) = m + n
      /\ \A i \in 1..(m + n) : u[i] = IF i <= m THEN s[i] ELSE t[i - m]
  BY ConcatProperties, LenProperties
<1> HIDE DEF u
<1>2. ASSUME NEW i \in 1..m PROVE i \in 1..(m + n) /\ u[i] = s[i]
  BY <1>1
<1>3. ASSUME NEW i \in 1..n PROVE m + i \in 1..(m + n) /\ u[m + i] = t[i]
  <2>1. m + i \in 1..(m + n) /\ ~(m + i <= m) /\ (m + i) - m = i
    BY <1>1
  <2> QED
    BY <1>1, <2>1
<1>4. ASSUME NEW i \in 1..(m + n)
      PROVE  (i \in 1..m /\ u[i] = s[i]) \/ (i - m \in 1..n /\ u[i] = t[i - m])
  BY <1>1
<1>5. Packs(s) \subseteq Packs(u)
  BY <1>1, <1>2 DEF Packs
<1>6. ASSUME NEW p \in Packs(t) PROVE p \in Packs(u)
  <2>1. PICK i \in 1..n : p = t[i]
    BY DEF Packs
  <2>2. m + i \in 1..Len(u) /\ u[m + i] = p
    BY <1>1, <1>3, <2>1
  <2> QED
    BY <2>2, Zenon DEF Packs
<1>7. Packs(u) \subseteq Packs(s) \cup Packs(t)
  BY <1>1, <1>4 DEF Packs
<1> QED
  BY <1>5, <1>6, <1>7 DEF u

LEMMA RisingConcat ==
  ASSUME NEW S, NEW s \in Seq(S), NEW t \in Seq(S), Rising(s), Rising(t), Older(Packs(s), Packs(t))
  PROVE  Rising(s \o t)
<1> DEFINE u == s \o t
           m == Len(s)
           n == Len(t)
<1>1. /\ m \in Nat /\ n \in Nat /\ Len(u) = m + n
      /\ \A i \in 1..(m + n) : u[i] = IF i <= m THEN s[i] ELSE t[i - m]
  BY ConcatProperties, LenProperties
<1> HIDE DEF u
<1>2. ASSUME NEW i \in 1..(m + n), NEW j \in 1..(m + n), i < j PROVE u[i][2] < u[j][2]
  <2>1. CASE j <= m
    <3>1. i \in 1..m /\ j \in 1..m /\ u[i] = s[i] /\ u[j] = s[j]
      BY <1>1, <1>2, <2>1
    <3> QED
      BY <1>2, <3>1 DEF Rising
  <2>2. CASE i > m
    <3>1. /\ i - m \in 1..n /\ j - m \in 1..n /\ i - m < j - m
          /\ u[i] = t[i - m] /\ u[j] = t[j - m]
      BY <1>1, <1>2, <2>2
    <3> QED
      BY <3>1 DEF Rising
  <2>3. CASE i <= m /\ j > m
    <3>1. i \in 1..m /\ j - m \in 1..n /\ u[i] = s[i] /\ u[j] = t[j - m]
      BY <1>1, <1>2, <2>3
    <3>2. u[i] \in Packs(s) /\ u[j] \in Packs(t)
      BY <3>1 DEF Packs
    <3> QED
      BY <3>2 DEF Older
  <2> QED
    BY <1>1, <2>1, <2>2, <2>3
<1> QED
  BY <1>1, <1>2 DEF Rising, u

LEMMA RisingParts ==
  ASSUME NEW S, NEW s \in Seq(S), NEW t \in Seq(S), Rising(s \o t)
  PROVE  Rising(s) /\ Rising(t) /\ Older(Packs(s), Packs(t))
<1> DEFINE u == s \o t
           m == Len(s)
           n == Len(t)
<1>1. /\ m \in Nat /\ n \in Nat /\ Len(u) = m + n
      /\ \A i \in 1..(m + n) : u[i] = IF i <= m THEN s[i] ELSE t[i - m]
  BY ConcatProperties, LenProperties
<1>2. \A i, j \in 1..(m + n) : i < j => u[i][2] < u[j][2]
  BY <1>1 DEF Rising
<1> HIDE DEF u
<1>3. ASSUME NEW i \in 1..m PROVE i \in 1..(m + n) /\ u[i] = s[i]
  BY <1>1
<1>4. ASSUME NEW i \in 1..n PROVE m + i \in 1..(m + n) /\ m < m + i /\ u[m + i] = t[i]
  <2>1. m + i \in 1..(m + n) /\ ~(m + i <= m) /\ (m + i) - m = i
    BY <1>1
  <2> QED
    BY <1>1, <2>1
<1>5. Rising(s)
  BY <1>2, <1>3 DEF Rising
<1>6. Rising(t)
  <2>1. \A i, j \in 1..n : i < j => m + i < m + j
    BY <1>1
  <2> QED
    BY <1>2, <1>4, <2>1 DEF Rising
<1>7. Older(Packs(s), Packs(t))
  <2>1. \A i \in 1..m, j \in 1..n : i < m + j
    BY <1>1
  <2>2. \A i \in 1..m, j \in 1..n : s[i][2] < t[j][2]
    BY <1>2, <1>3, <1>4, <2>1
  <2> QED
    BY <2>2 DEF Older, Packs
<1> QED
  BY <1>5, <1>6, <1>7

LEMMA AllConcat ==
  ASSUME NEW S, NEW f \in Seq(S), NEW g \in Seq(S)
  PROVE  All(f \o g) = All(f) \cup All(g)
<1>1. ASSUME NEW h PROVE All(h) = UNION {Packs(s) : s \in Packs(h)}
  BY DEF All, Packs
<1> QED
  BY <1>1, PacksConcat

LEMMA AscendingConcat ==
  ASSUME NEW S, NEW f \in Seq(S), NEW g \in Seq(S), Ascending(f), Ascending(g), Older(All(f), All(g))
  PROVE  Ascending(f \o g)
<1> DEFINE h == f \o g
           m == Len(f)
           n == Len(g)
<1>1. /\ m \in Nat /\ n \in Nat /\ Len(h) = m + n
      /\ \A i \in 1..(m + n) : h[i] = IF i <= m THEN f[i] ELSE g[i - m]
  BY ConcatProperties, LenProperties
<1>2. /\ \A k \in 1..m : Rising(f[k])
      /\ \A k, l \in 1..m : k < l => Older(Packs(f[k]), Packs(f[l]))
  BY AscendingIs
<1>3. /\ \A k \in 1..n : Rising(g[k])
      /\ \A k, l \in 1..n : k < l => Older(Packs(g[k]), Packs(g[l]))
  BY AscendingIs
<1>4. \A k \in 1..m, l \in 1..n : Older(Packs(f[k]), Packs(g[l]))
  BY DEF Older, All
<1> HIDE DEF h
<1>5. ASSUME NEW i \in 1..(m + n) PROVE Rising(h[i])
  <2>1. (i \in 1..m /\ h[i] = f[i]) \/ (i - m \in 1..n /\ h[i] = g[i - m])
    BY <1>1
  <2> QED
    BY <1>2, <1>3, <2>1
<1>6. ASSUME NEW i \in 1..(m + n), NEW j \in 1..(m + n), i < j
      PROVE  Older(Packs(h[i]), Packs(h[j]))
  <2>1. CASE j <= m
    <3>1. i \in 1..m /\ j \in 1..m /\ h[i] = f[i] /\ h[j] = f[j]
      BY <1>1, <1>6, <2>1
    <3> QED
      BY <1>2, <1>6, <3>1
  <2>2. CASE i > m
    <3>1. /\ i - m \in 1..n /\ j - m \in 1..n /\ i - m < j - m
          /\ h[i] = g[i - m] /\ h[j] = g[j - m]
      BY <1>1, <1>6, <2>2
    <3> QED
      BY <1>3, <3>1
  <2>3. CASE i <= m /\ j > m
    <3>1. i \in 1..m /\ j - m \in 1..n /\ h[i] = f[i] /\ h[j] = g[j - m]
      BY <1>1, <1>6, <2>3
    <3> QED
      BY <1>4, <3>1
  <2> QED
    BY <1>1, <2>1, <2>2, <2>3
<1>7. Ascending(h)
  BY <1>1, <1>5, <1>6, AscendingIs
<1> QED
  BY <1>7 DEF h

LEMMA Joined ==
  ASSUME NEW f \in Lines, NEW g \in Lines, Ascending(f), Ascending(g), Older(All(f), All(g)),
         NEW h, h = f \o g
  PROVE  h \in Lines /\ Ascending(h) /\ All(h) = All(f) \cup All(g)
BY AllConcat, AscendingConcat, ConcatProperties DEF Lines

LEMMA OneBuffer ==
  ASSUME NEW s
  PROVE  /\ All(<<s>>) = Packs(s)
         /\ Rising(s) => Ascending(<<s>>)
<1>1. Len(<<s>>) = 1 /\ <<s>>[1] = s
  OBVIOUS
<1>2. All(<<s>>) = Packs(s)
  BY <1>1 DEF All
<1>3. Rising(s) => Ascending(<<s>>)
  <2>1. \A k \in 1..1 : k = 1
    OBVIOUS
  <2> QED
    BY <1>1, <2>1, AscendingIs
<1> QED
  BY <1>2, <1>3

\* A stretch of a line ascends as the line does.
LEMMA Stretch ==
  ASSUME NEW S, NEW f \in Seq(S), NEW m \in Nat \ {0}, NEW n \in Nat, n <= Len(f)
  PROVE  LET g == SubSeq(f, m, n)
         IN  /\ g \in Seq(S) /\ Len(g) = IF m <= n THEN n - m + 1 ELSE 0
             /\ All(g) \subseteq All(f) /\ Packs(g) \subseteq Packs(f)
             /\ Ascending(f) => Ascending(g)
             /\ Rising(f) => Rising(g)
<1> DEFINE g == SubSeq(f, m, n)
           d == IF m <= n THEN n - m + 1 ELSE 0
<1>1. Len(f) \in Nat
  BY LenProperties
<1>2. /\ g \in Seq(S) /\ Len(g) = d
      /\ \A i \in 1..d : g[i] = f[m + i - 1]
  <2>1. \A i \in m..n : f[i] \in S
    BY <1>1, ElementOfSeq
  <2>2. /\ SubSeq(f, m, n) \in Seq(S)
        /\ Len(SubSeq(f, m, n)) = IF m <= n THEN n - m + 1 ELSE 0
        /\ \A i \in 1..(n - m + 1) : SubSeq(f, m, n)[i] = f[m + i - 1]
    BY <1>1, <2>1, SubSeqProperties
  <2>3. d \in Nat /\ (d = n - m + 1 \/ d = 0)
    OBVIOUS
  <2> QED
    BY <2>2, <2>3
<1>3. ASSUME NEW i \in 1..d PROVE m + i - 1 \in 1..Len(f) /\ g[i] = f[m + i - 1]
  BY <1>1, <1>2
<1>4. ASSUME NEW i \in 1..d, NEW j \in 1..d, i < j PROVE m + i - 1 < m + j - 1
  BY <1>4
<1> HIDE DEF g, d
<1>5. All(g) \subseteq All(f)
  BY <1>2, <1>3 DEF All
<1>6. Packs(g) \subseteq Packs(f)
  BY <1>2, <1>3 DEF Packs
<1>7. ASSUME Ascending(f) PROVE Ascending(g)
  <2>1. /\ \A k \in 1..Len(f) : Rising(f[k])
        /\ \A k, l \in 1..Len(f) : k < l => Older(Packs(f[k]), Packs(f[l]))
    BY <1>7, AscendingIs
  <2>2. \A k \in 1..Len(g) : Rising(g[k])
    BY <1>2, <1>3, <2>1
  <2>3. ASSUME NEW k \in 1..Len(g), NEW l \in 1..Len(g), k < l
        PROVE  Older(Packs(g[k]), Packs(g[l]))
    <3> DEFINE x == m + k - 1
               y == m + l - 1
    <3>1. x \in 1..Len(f) /\ y \in 1..Len(f) /\ x < y /\ g[k] = f[x] /\ g[l] = f[y]
      BY <1>2, <1>3, <1>4, <2>3
    <3> HIDE DEF x, y
    <3> QED
      BY <2>1, <3>1
  <2> QED
    BY <2>2, <2>3, AscendingIs
<1>8. ASSUME Rising(f) PROVE Rising(g)
  <2>1. ASSUME NEW k \in 1..Len(g), NEW l \in 1..Len(g), k < l
        PROVE  g[k][2] < g[l][2]
    <3> DEFINE x == m + k - 1
               y == m + l - 1
    <3>1. x \in 1..Len(f) /\ y \in 1..Len(f) /\ x < y /\ g[k] = f[x] /\ g[l] = f[y]
      BY <1>2, <1>3, <1>4, <2>1
    <3> HIDE DEF x, y
    <3> QED
      BY <1>8, <3>1 DEF Rising
  <2> QED
    BY <2>1 DEF Rising
<1> QED
  BY <1>2, <1>5, <1>6, <1>7, <1>8 DEF g, d

\* The first buffer of a line and the rest.
LEMMA HeadOfLine ==
  ASSUME NEW S, NEW f \in Seq(S), f # << >>, Ascending(f)
  PROVE  /\ Head(f) \in S /\ Tail(f) \in Seq(S) /\ Len(Tail(f)) = Len(f) - 1 /\ Len(f) \in Nat
         /\ Packs(Head(f)) \subseteq All(f) /\ All(Tail(f)) \subseteq All(f)
         /\ Rising(Head(f)) /\ Ascending(Tail(f)) /\ Older(Packs(Head(f)), All(Tail(f)))
<1> DEFINE h == Head(f)
           g == Tail(f)
           n == Len(f)
<1>1. /\ n \in Nat /\ h \in S /\ g \in Seq(S) /\ Len(g) = n - 1
      /\ \A i \in 1..Len(g) : g[i] = f[i + 1]
  BY HeadTailProperties, LenProperties
<1>2. n # 0
  BY EmptySeq
<1>3. h = f[1]
  OBVIOUS
<1> HIDE DEF h, g, n
<1>4. 1 \in 1..n /\ \A i \in 1..Len(g) : i + 1 \in 1..n /\ 1 < i + 1
  BY <1>1, <1>2
<1>5. /\ \A k \in 1..n : Rising(f[k])
      /\ \A k, l \in 1..n : k < l => Older(Packs(f[k]), Packs(f[l]))
  BY AscendingIs DEF n
<1>6. Packs(h) \subseteq All(f) /\ All(g) \subseteq All(f)
  BY <1>1, <1>3, <1>4 DEF All, n
<1>7. Rising(h)
  BY <1>3, <1>4, <1>5
<1>8. Older(Packs(h), All(g))
  <2>1. \A i \in 1..Len(g) : Older(Packs(h), Packs(g[i]))
    BY <1>1, <1>3, <1>4, <1>5
  <2> QED
    BY <2>1 DEF Older, All
<1>9. Ascending(g)
  <2>1. \A i \in 1..Len(g) : Rising(g[i])
    BY <1>1, <1>4, <1>5
  <2>2. ASSUME NEW k \in 1..Len(g), NEW l \in 1..Len(g), k < l
        PROVE  Older(Packs(g[k]), Packs(g[l]))
    <3>1. k + 1 < l + 1
      BY <1>1, <2>2
    <3> DEFINE x == k + 1
               y == l + 1
    <3>2. x \in 1..n /\ y \in 1..n /\ x < y /\ g[k] = f[x] /\ g[l] = f[y]
      BY <1>1, <1>4, <3>1
    <3> HIDE DEF x, y
    <3> QED
      BY <1>5, <3>2
  <2> QED
    BY <2>1, <2>2, AscendingIs
<1> QED
  BY <1>1, <1>6, <1>7, <1>8, <1>9 DEF h, g, n

LEMMA PushedIs ==
  ASSUME NEW S, NEW f \in Seq(S), NEW g \in Seq(S),
         Ascending(f), Ascending(g), Older(All(f), All(g))
  PROVE  /\ Pushed(f, g) \in Seq(S) /\ Len(Pushed(f, g)) <= FifoSize
         /\ Ascending(Pushed(f, g)) /\ All(Pushed(f, g)) \subseteq All(f) \cup All(g)
<1> DEFINE h == f \o g
           n == Len(h)
<1>1. h \in Seq(S) /\ n \in Nat
  BY ConcatProperties, LenProperties
<1>2. Ascending(h) /\ All(h) = All(f) \cup All(g)
  BY AscendingConcat, AllConcat
<1>3. Pushed(f, g) = IF n <= FifoSize THEN h ELSE SubSeq(h, n - FifoSize + 1, n)
  BY DEF Pushed
<1> HIDE DEF h, n
<1>4. CASE n <= FifoSize
  BY <1>1, <1>2, <1>3, <1>4 DEF n
<1>5. CASE ~(n <= FifoSize)
  <2> DEFINE m == n - FifoSize + 1
             g2 == SubSeq(h, m, n)
  <2>1. m \in Nat \ {0} /\ n \in Nat /\ n <= Len(h) /\ m <= n /\ n - m + 1 = FifoSize
    BY <1>1, <1>5, SizeAssumption DEF n
  <2> HIDE DEF m
  <2>2. /\ g2 \in Seq(S) /\ Len(g2) = (IF m <= n THEN n - m + 1 ELSE 0)
        /\ All(g2) \subseteq All(h) /\ Ascending(g2)
    BY <1>1, <1>2, <2>1, Stretch
  <2>3. Pushed(f, g) = g2
    BY <1>3, <1>5 DEF m
  <2> QED
    BY <1>2, <2>1, <2>2, <2>3, SizeAssumption
<1> QED
  BY <1>4, <1>5

LEMMA Quotient ==
  ASSUME NEW a \in Nat, NEW b \in Nat \ {0}
  PROVE  a \div b \in Nat /\ (a \div b) * b <= a /\ a < (a \div b) * b + b
OBVIOUS

LEMMA Multiples ==
  ASSUME NEW i \in Nat, NEW j \in Nat, NEW b \in Nat, i <= j
  PROVE  i * b \in Nat /\ j * b \in Nat /\ i * b <= j * b
OBVIOUS

LEMMA NextMultiple ==
  ASSUME NEW i \in Nat \ {0}, NEW b \in Nat
  PROVE  (i - 1) * b \in Nat /\ i * b = (i - 1) * b + b
OBVIOUS

FullBuffers == {ts \in Seq(Units) : Len(ts) = BufSize}

\* The full buffers of a rising sequence ascend, and what is left is behind them
\* and fills none.
LEMMA Parted ==
  ASSUME NEW ts \in Seq(Units), Rising(ts)
  PROVE  /\ Whole(ts) \in Seq(FullBuffers) /\ Ascending(Whole(ts))
         /\ Left(ts) \in Seq(Units) /\ Rising(Left(ts)) /\ Len(Left(ts)) < BufSize
         /\ All(Whole(ts)) \subseteq Packs(ts) /\ Packs(Left(ts)) \subseteq Packs(ts)
         /\ Older(All(Whole(ts)), Packs(Left(ts)))
<1> DEFINE n == Len(ts)
           w == n \div BufSize
           e == w * BufSize
           f == Whole(ts)
           r == Left(ts)
<1>1. n \in Nat /\ BufSize \in Nat \ {0} /\ BufSize \in Nat
  BY LenProperties, SizeAssumption
<1>2. w \in Nat /\ e \in Nat /\ e <= n /\ n < e + BufSize
  <2> HIDE DEF n
  <2>1. w \in Nat /\ w * BufSize <= n /\ n < w * BufSize + BufSize
    BY <1>1, Quotient
  <2>2. w * BufSize \in Nat
    BY <1>1, <2>1
  <2> QED
    BY <2>1, <2>2
<1>3. \A i, j \in 1..n : i < j => ts[i][2] < ts[j][2]
  BY DEF Rising
<1> DEFINE a(k) == (k - 1) * BufSize
<1>4. f = [k \in 1..w |-> SubSeq(ts, a(k) + 1, k * BufSize)]
  BY DEF Whole
<1>5. r = SubSeq(ts, e + 1, n)
  BY DEF Left
<1> HIDE DEF f, r
\* The k-th buffer.
<1>6. ASSUME NEW k \in 1..w
      PROVE  /\ a(k) \in Nat /\ a(k) + BufSize <= e
             /\ f[k] \in FullBuffers /\ Rising(f[k]) /\ Packs(f[k]) \subseteq Packs(ts)
             /\ \A i \in 1..BufSize : f[k][i] = ts[a(k) + i]
  <2> DEFINE b == a(k)
             c == k * BufSize
  <2> HIDE DEF w
  <2>1. k \in Nat \ {0} /\ k \in Nat /\ k <= w
    BY <1>2
  <2>2. b \in Nat /\ c = b + BufSize
    BY <1>1, <2>1, NextMultiple
  <2>3. c \in Nat /\ c <= e
    BY <1>1, <1>2, <2>1, Multiples
  <2>4. f[k] = SubSeq(ts, b + 1, c)
    BY <1>4
  <2> HIDE DEF b, c, e, n
  <2>5. b + 1 \in Nat \ {0} /\ c \in Nat /\ c <= n /\ c - (b + 1) + 1 = BufSize /\ b + 1 <= c
    BY <1>1, <1>2, <2>2, <2>3
  <2> DEFINE m == b + 1
             g == SubSeq(ts, m, c)
  <2>6. m \in Nat \ {0} /\ c <= Len(ts)
    BY <2>5 DEF n
  <2> HIDE DEF m
  <2>7. /\ g \in Seq(Units) /\ Len(g) = IF m <= c THEN c - m + 1 ELSE 0
        /\ Packs(g) \subseteq Packs(ts) /\ Rising(g)
    BY <2>3, <2>6, Stretch
  <2>8. Len(g) = BufSize
    BY <2>5, <2>7 DEF m
  <2>9. \A i \in 1..BufSize : g[i] = ts[b + i]
    <3>1. \A i \in m..c : ts[i] \in Units
      BY <2>5, <2>6, ElementOfSeq DEF m
    <3>2. \A i \in 1..(c - m + 1) : g[i] = ts[m + i - 1]
      BY <2>3, <2>6, <3>1, SubSeqProperties
    <3>3. c - m + 1 = BufSize /\ \A i \in 1..BufSize : m + i - 1 = b + i
      BY <1>1, <2>2, <2>5 DEF m
    <3> QED
      BY <3>2, <3>3
  <2>10. f[k] = g
    BY <2>4 DEF m
  <2>11. g \in FullBuffers
    BY <2>7, <2>8 DEF FullBuffers
  <2>12. b + BufSize <= e
    BY <2>2, <2>3
  <2> QED
    BY <2>2, <2>7, <2>9, <2>10, <2>11, <2>12 DEF b
<1>7. f \in Seq(FullBuffers) /\ Len(f) = w
  <2> HIDE DEF w, a
  <2>1. f \in [1..w -> FullBuffers]
    BY <1>4, <1>6
  <2> QED
    BY <1>2, <2>1
\* A packet of the line is one of the first e of ts.
<1>8. ASSUME NEW k \in 1..w, NEW p \in Packs(f[k])
      PROVE  \E i \in 1..e : p = ts[i] /\ a(k) < i /\ i <= a(k) + BufSize
  <2>1. Len(f[k]) = BufSize
    BY <1>6 DEF FullBuffers
  <2>2. PICK i \in 1..BufSize : p = f[k][i]
    BY <2>1 DEF Packs
  <2>3. a(k) \in Nat /\ a(k) + BufSize <= e /\ f[k][i] = ts[a(k) + i]
    BY <1>6
  <2> DEFINE b == a(k)
  <2> HIDE DEF e, a, w, b
  <2>4. b \in Nat /\ b + BufSize <= e /\ p = ts[b + i]
    BY <2>2, <2>3 DEF b
  <2>5. b + i \in 1..e /\ b < b + i /\ b + i <= b + BufSize
    BY <1>1, <1>2, <2>4
  <2> QED
    BY <2>4, <2>5 DEF b
<1>9. /\ r \in Seq(Units) /\ Len(r) < BufSize /\ Rising(r) /\ Packs(r) \subseteq Packs(ts)
      /\ \A p \in Packs(r) : \E j \in 1..n : p = ts[j] /\ e < j
  <2> HIDE DEF w, e
  <2> DEFINE m == e + 1
             g == SubSeq(ts, m, n)
  <2>1. m \in Nat \ {0} /\ n <= Len(ts)
    BY <1>1, <1>2
  <2>2. n \in Nat /\ g = r
    BY <1>1, <1>5
  <2>3. \A i \in m..n : ts[i] \in Units
    BY <1>1, <2>1, ElementOfSeq
  <2> HIDE DEF m, n
  <2>4. /\ g \in Seq(Units) /\ Len(g) = IF m <= n THEN n - m + 1 ELSE 0
        /\ Packs(g) \subseteq Packs(ts) /\ Rising(g)
    BY <2>1, <2>2, Stretch
  <2>5. \A i \in 1..(n - m + 1) : g[i] = ts[m + i - 1]
    BY <2>1, <2>2, <2>3, SubSeqProperties
  <2>6. Len(g) < BufSize
    BY <1>1, <1>2, <2>4 DEF m
  <2>7. ASSUME NEW p \in Packs(g) PROVE \E j \in 1..n : p = ts[j] /\ e < j
    <3>1. PICK i \in 1..Len(g) : p = g[i]
      BY <2>7 DEF Packs
    <3>2. i \in 1..(n - m + 1) /\ m + i - 1 \in 1..n /\ e < m + i - 1
      BY <1>2, <2>2, <2>4, <3>1 DEF m
    <3> QED
      BY <2>5, <3>1, <3>2
  <2> QED
    BY <2>2, <2>4, <2>6, <2>7
<1>10. Ascending(f)
  <2>1. ASSUME NEW k \in 1..w, NEW l \in 1..w, k < l, NEW p \in Packs(f[k]), NEW q \in Packs(f[l])
        PROVE  p[2] < q[2]
    <3>1. PICK i \in 1..e : p = ts[i] /\ a(k) < i /\ i <= a(k) + BufSize
      BY <1>8
    <3>2. PICK j \in 1..e : q = ts[j] /\ a(l) < j /\ j <= a(l) + BufSize
      BY <1>8
    <3>3. a(k) + BufSize <= a(l) /\ a(k) \in Nat /\ a(l) \in Nat
      <4> HIDE DEF w
      <4>1. k \in Nat \ {0} /\ k \in Nat /\ l - 1 \in Nat /\ k <= l - 1
        BY <1>2, <2>1
      <4>2. (k - 1) * BufSize \in Nat /\ k * BufSize = (k - 1) * BufSize + BufSize
        BY <1>1, <4>1, NextMultiple
      <4>3. (l - 1) * BufSize \in Nat /\ k * BufSize <= (l - 1) * BufSize
        BY <1>1, <4>1, Multiples
      <4> QED
        BY <4>2, <4>3
    <3> HIDE DEF e, a, w, n
    <3>4. i < j /\ i \in 1..n /\ j \in 1..n
      BY <1>1, <1>2, <3>1, <3>2, <3>3
    <3> QED
      BY <1>3, <3>1, <3>2, <3>4 DEF n
  <2>2. \A k, l \in 1..w : k < l => Older(Packs(f[k]), Packs(f[l]))
    <3> HIDE DEF w
    <3> QED
      BY <2>1 DEF Older
  <2>3. \A k \in 1..w : Rising(f[k])
    BY <1>6
  <2> HIDE DEF w
  <2> QED
    BY <1>7, <2>2, <2>3, AscendingIs
<1>11. All(f) \subseteq Packs(ts)
  <2> HIDE DEF w
  <2> QED
    BY <1>6, <1>7 DEF All
<1>12. Older(All(f), Packs(r))
  <2> SUFFICES ASSUME NEW p \in All(f), NEW q \in Packs(r) PROVE p[2] < q[2]
    BY DEF Older
  <2>1. PICK k \in 1..w : p \in Packs(f[k])
    <3> HIDE DEF w
    <3> QED
      BY <1>7 DEF All
  <2>2. PICK i \in 1..e : p = ts[i]
    <3> HIDE DEF w, e, a
    <3> QED
      BY <1>8, <2>1
  <2>3. PICK j \in 1..n : q = ts[j] /\ e < j
    BY <1>9
  <2> HIDE DEF e, n
  <2>4. i \in 1..n /\ i < j
    BY <1>1, <1>2, <2>3
  <2> QED
    BY <1>3, <2>2, <2>3, <2>4 DEF n
<1> QED
  BY <1>7, <1>9, <1>10, <1>11, <1>12 DEF f, r

\* What the tuner returns next is behind everything read so far.
LEMMA ChunkIs ==
  ASSUME NEW n \in Nat, NEW u \in Nat, NEW e \in 0..MaxSets, u + n <= MaxUnits
  PROVE  LET new == [k \in 1..n |-> <<e, u + k>>]
         IN  /\ new \in Seq(Units) /\ Rising(new)
             /\ \A p \in Packs(new) : p[1] = e /\ u < p[2] /\ p[2] <= u + n
<1> DEFINE new == [k \in 1..n |-> <<e, u + k>>]
<1>1. \A k \in 1..n : <<e, u + k>> \in Units
  BY BoundAssumption DEF Units
<1>2. new \in [1..n -> Units]
  BY <1>1
<1>3. new \in Seq(Units) /\ Len(new) = n
  BY <1>2
<1>4. \A k \in 1..n : new[k] = <<e, u + k>>
  OBVIOUS
<1> HIDE DEF new
<1>5. Rising(new)
  BY <1>3, <1>4 DEF Rising
<1>6. \A p \in Packs(new) : p[1] = e /\ u < p[2] /\ p[2] <= u + n
  BY <1>3, <1>4 DEF Packs
<1> QED
  BY <1>3, <1>5, <1>6 DEF new

\* A selection rises as the buffer it is taken from.
LEMMA Selected ==
  ASSUME NEW S, NEW ts \in Seq(S), Rising(ts), NEW kept \in Selections(ts)
  PROVE  kept \in Seq(S) /\ Packs(kept) \subseteq Packs(ts) /\ Rising(kept)
<1>1. PICK n \in 0..Len(ts) : \E at \in [1..n -> 1..Len(ts)] :
        /\ \A k, l \in 1..n : k < l => at[k] < at[l]
        /\ kept = [k \in 1..n |-> ts[at[k]]]
  BY DEF Selections
<1>2. PICK at \in [1..n -> 1..Len(ts)] :
       /\ \A k, l \in 1..n : k < l => at[k] < at[l]
       /\ kept = [k \in 1..n |-> ts[at[k]]]
  BY <1>1
<1>3. \A k \in 1..n : at[k] \in 1..Len(ts) /\ ts[at[k]] \in S
  BY <1>2, ElementOfSeq
<1>4. n \in Nat
  BY LenProperties
<1>5. kept \in [1..n -> S]
  BY <1>2, <1>3
<1>6. kept \in Seq(S) /\ Len(kept) = n
  BY <1>4, <1>5
<1>7. Packs(kept) \subseteq Packs(ts)
  BY <1>2, <1>3, <1>6 DEF Packs
<1>8. Rising(kept)
  BY <1>2, <1>3, <1>6 DEF Rising
<1> QED
  BY <1>6, <1>7, <1>8

-----------------------------------------------------------------------------
(* The stages a packet passes: f is the queue the application takes from, o   *)
(* the output of the splitter and r what it has left of its queue q, b the    *)
(* buffer of the reader, u the number of packets read                         *)

Way(f, o, r, q, b) == All(f) \cup Packs(o) \cup Packs(r) \cup All(q) \cup Packs(b)

Sized(f, o, r, q, b) ==
  /\ o \in Seq(Units) /\ r \in Seq(Units) /\ b \in Seq(Units)
  /\ Len(o) < BufSize /\ Len(b) < BufSize
  /\ f \in Seq(FullBuffers) /\ Len(f) <= FifoSize
  /\ q \in Seq(FullBuffers) /\ Len(q) <= FifoSize

Ordered(f, o, r, q, b) ==
  /\ Ascending(f) /\ Rising(o) /\ Rising(r) /\ Ascending(q) /\ Rising(b)
  /\ Older(All(f), Packs(o) \cup Packs(r) \cup All(q) \cup Packs(b))
  /\ Older(Packs(o), Packs(r) \cup All(q) \cup Packs(b))
  /\ Older(Packs(r), All(q) \cup Packs(b))
  /\ Older(All(q), Packs(b))

Stages(f, o, r, q, b, u) ==
  /\ u \in Nat
  /\ Sized(f, o, r, q, b) /\ Ordered(f, o, r, q, b)
  /\ \A p \in Way(f, o, r, q, b) : p[2] <= u

\* Nothing on the way but what the splitter has left.
LEMMA AllClear ==
  ASSUME NEW r \in Seq(Units), Rising(r), NEW u \in Nat, \A p \in Packs(r) : p[2] <= u
  PROVE  Stages(<< >>, << >>, r, << >>, << >>, u) /\ Way(<< >>, << >>, r, << >>, << >>) = Packs(r)
<1>1. /\ Packs(<< >>) = {} /\ All(<< >>) = {} /\ Rising(<< >>) /\ Ascending(<< >>)
      /\ Len(<< >>) = 0 /\ << >> \in Seq(Units) /\ << >> \in Seq(FullBuffers)
  BY NoPackets, EmptySeq
<1>2. Way(<< >>, << >>, r, << >>, << >>) = Packs(r)
  BY <1>1 DEF Way
<1>3. Sized(<< >>, << >>, r, << >>, << >>)
  BY <1>1, SizeAssumption DEF Sized
<1>4. Ordered(<< >>, << >>, r, << >>, << >>)
  BY <1>1 DEF Ordered, Older
<1> QED
  BY <1>2, <1>3, <1>4 DEF Stages

\* The reader starts again with both buffers being filled empty.
LEMMA Restarted ==
  ASSUME NEW f, NEW o, NEW r, NEW q, NEW b, NEW u, Stages(f, o, r, q, b, u)
  PROVE  /\ Stages(f, << >>, r, q, << >>, u)
         /\ Way(f, << >>, r, q, << >>) \subseteq Way(f, o, r, q, b)
<1>1. Packs(<< >>) = {} /\ Rising(<< >>) /\ Len(<< >>) = 0 /\ << >> \in Seq(Units)
  BY NoPackets, EmptySeq
<1>2. Way(f, << >>, r, q, << >>) \subseteq Way(f, o, r, q, b)
  BY <1>1 DEF Way
<1>3. Sized(f, << >>, r, q, << >>)
  BY <1>1, SizeAssumption DEF Stages, Sized
<1>4. Ordered(f, << >>, r, q, << >>)
  BY <1>1, <1>2 DEF Stages, Ordered, Older
<1> QED
  BY <1>2, <1>3, <1>4 DEF Stages

\* The reader's buffer and a chunk: what is full goes into the splitter's queue,
LEMMA ReadToFilter ==
  ASSUME NEW f, NEW o, NEW r, NEW q, NEW b, NEW u, Stages(f, o, r, q, b, u),
         NEW new \in Seq(Units), Rising(new), NEW v \in Nat, u <= v,
         \A p \in Packs(new) : u < p[2] /\ p[2] <= v
  PROVE  LET ts == b \o new
         IN  /\ Stages(f, o, r, Pushed(q, Whole(ts)), Left(ts), v)
             /\ Way(f, o, r, Pushed(q, Whole(ts)), Left(ts)) \subseteq Way(f, o, r, q, b) \cup Packs(new)
<1> DEFINE ts == b \o new
           w == Whole(ts)
           c == Left(ts)
           d == Pushed(q, w)
<1>1. /\ b \in Seq(Units) /\ Rising(b) /\ q \in Seq(FullBuffers) /\ Ascending(q)
      /\ Older(All(q), Packs(b)) /\ u \in Nat
      /\ \A p \in Way(f, o, r, q, b) : p[2] <= u /\ p \in Units
  <2>1. \A s \in Seq(Units) : Packs(s) \subseteq Units
    BY ElementOfSeq DEF Packs
  <2>2. \A h \in Seq(FullBuffers) : All(h) \subseteq Units
    <3> SUFFICES ASSUME NEW h \in Seq(FullBuffers), NEW k \in 1..Len(h) PROVE Packs(h[k]) \subseteq Units
      BY DEF All
    <3>1. h[k] \in FullBuffers
      BY ElementOfSeq
    <3> QED
      BY <2>1, <3>1 DEF FullBuffers
  <2> QED
    BY <2>1, <2>2 DEF Stages, Sized, Ordered, Way
<1>2. Older(Packs(b), Packs(new)) /\ Older(Way(f, o, r, q, b), Packs(new))
  <2>1. Packs(new) \subseteq Units
    BY ElementOfSeq DEF Packs
  <2>2. ASSUME NEW x \in Way(f, o, r, q, b), NEW y \in Packs(new) PROVE x[2] < y[2]
    <3>1. x \in Units /\ y \in Units /\ x[2] <= u /\ u < y[2]
      BY <1>1, <2>1
    <3>2. x[2] \in Nat /\ y[2] \in Nat
      BY <3>1, BoundAssumption DEF Units
    <3> QED
      BY <1>1, <3>1, <3>2
  <2> QED
    BY <2>2 DEF Older, Way
<1>3. ts \in Seq(Units) /\ Rising(ts) /\ Packs(ts) = Packs(b) \cup Packs(new)
  BY <1>1, <1>2, RisingConcat, PacksConcat, ConcatProperties
<1> HIDE DEF ts
<1>4. /\ w \in Seq(FullBuffers) /\ Ascending(w)
      /\ c \in Seq(Units) /\ Rising(c) /\ Len(c) < BufSize
      /\ All(w) \subseteq Packs(ts) /\ Packs(c) \subseteq Packs(ts) /\ Older(All(w), Packs(c))
  BY <1>3, Parted
<1> HIDE DEF w, c
<1>5. Older(All(q), Packs(ts))
  BY <1>1, <1>2, <1>3 DEF Older, Way
<1>6. Older(All(q), All(w)) /\ Older(All(q), Packs(c))
  BY <1>4, <1>5 DEF Older
<1>7. d \in Seq(FullBuffers) /\ Len(d) <= FifoSize /\ Ascending(d) /\ All(d) \subseteq All(q) \cup All(w)
  BY <1>1, <1>4, <1>6, PushedIs
<1> HIDE DEF d
<1>8. Way(f, o, r, d, c) \subseteq Way(f, o, r, q, b) \cup Packs(new)
  BY <1>3, <1>4, <1>7 DEF Way
<1>9. All(d) \cup Packs(c) \subseteq All(q) \cup Packs(b) \cup Packs(new)
  BY <1>3, <1>4, <1>7
<1>10. Older(All(d), Packs(c))
  BY <1>4, <1>6, <1>7 DEF Older
<1>11. Sized(f, o, r, d, c)
  BY <1>4, <1>7 DEF Stages, Sized
<1>12. Ordered(f, o, r, d, c)
  <2>2. Older(All(f), Packs(o) \cup Packs(r) \cup All(d) \cup Packs(c))
    BY <1>2, <1>9 DEF Stages, Ordered, Older, Way
  <2>3. Older(Packs(o), Packs(r) \cup All(d) \cup Packs(c))
    BY <1>2, <1>9 DEF Stages, Ordered, Older, Way
  <2>4. Older(Packs(r), All(d) \cup Packs(c))
    BY <1>2, <1>9 DEF Stages, Ordered, Older, Way
  <2> QED
    BY <1>4, <1>7, <1>10, <2>2, <2>3, <2>4 DEF Stages, Ordered
<1>13. \A p \in Way(f, o, r, d, c) : p[2] <= v
  <2>1. \A p \in Way(f, o, r, q, b) : p[2] \in Nat /\ p[2] <= u
    BY <1>1, BoundAssumption DEF Units
  <2> QED
    BY <1>1, <1>8, <2>1
<1> QED
  BY <1>1, <1>8, <1>11, <1>12, <1>13 DEF Stages, ts, w, c, d

\* or, when the splitter has nothing, past it.
LEMMA ReadPastFilter ==
  ASSUME NEW f, NEW b, NEW u, Stages(f, << >>, << >>, << >>, b, u),
         NEW new \in Seq(Units), Rising(new), NEW v \in Nat, u <= v,
         \A p \in Packs(new) : u < p[2] /\ p[2] <= v
  PROVE  LET ts == b \o new
         IN  /\ Stages(Pushed(f, Whole(ts)), << >>, << >>, << >>, Left(ts), v)
             /\ Way(Pushed(f, Whole(ts)), << >>, << >>, << >>, Left(ts))
                  \subseteq Way(f, << >>, << >>, << >>, b) \cup Packs(new)
<1>1. Packs(<< >>) = {} /\ All(<< >>) = {} /\ Rising(<< >>) /\ Ascending(<< >>)
      /\ Len(<< >>) = 0 /\ << >> \in Seq(Units) /\ << >> \in Seq(FullBuffers)
  BY NoPackets, EmptySeq
<1>2. ASSUME NEW a, NEW h
      PROVE  /\ Stages(a, << >>, << >>, << >>, h, u) <=> Stages(<< >>, << >>, << >>, a, h, u)
             /\ Stages(a, << >>, << >>, << >>, h, v) <=> Stages(<< >>, << >>, << >>, a, h, v)
             /\ Way(a, << >>, << >>, << >>, h) = Way(<< >>, << >>, << >>, a, h)
  <2>1. Way(a, << >>, << >>, << >>, h) = Way(<< >>, << >>, << >>, a, h)
    BY <1>1 DEF Way
  <2>2. Sized(a, << >>, << >>, << >>, h) <=> Sized(<< >>, << >>, << >>, a, h)
    BY <1>1, SizeAssumption DEF Sized
  <2>3. Ordered(a, << >>, << >>, << >>, h) <=> Ordered(<< >>, << >>, << >>, a, h)
    BY <1>1, <2>1 DEF Ordered, Older
  <2> QED
    BY <2>1, <2>2, <2>3 DEF Stages
<1>3. Stages(<< >>, << >>, << >>, f, b, u)
  BY <1>2
<1>4. LET ts == b \o new
      IN  /\ Stages(<< >>, << >>, << >>, Pushed(f, Whole(ts)), Left(ts), v)
          /\ Way(<< >>, << >>, << >>, Pushed(f, Whole(ts)), Left(ts))
               \subseteq Way(<< >>, << >>, << >>, f, b) \cup Packs(new)
  BY <1>3, ReadToFilter
<1> QED
  BY <1>2, <1>4

\* What the splitter has left and the first buffer of its queue are one stream,
LEMMA Reached ==
  ASSUME NEW f, NEW o, NEW r, NEW q, NEW b, NEW u, Stages(f, o, r, q, b, u), q # << >>
  PROVE  LET all == r \o Head(q)
         IN  /\ all \in Seq(Units) /\ Rising(all) /\ Packs(all) = Packs(r) \cup Packs(Head(q))
             /\ Len(all) = Len(r) + BufSize
<1> DEFINE h == Head(q)
<1>1. q \in Seq(FullBuffers) /\ Ascending(q) /\ r \in Seq(Units) /\ Rising(r) /\ Older(Packs(r), All(q))
  BY DEF Stages, Sized, Ordered, Older
<1>2. h \in FullBuffers /\ Packs(h) \subseteq All(q) /\ Rising(h)
  BY <1>1, HeadOfLine
<1> HIDE DEF h
<1>3. h \in Seq(Units) /\ Len(h) = BufSize /\ Older(Packs(r), Packs(h))
  BY <1>1, <1>2 DEF FullBuffers, Older
<1>4. r \o h \in Seq(Units) /\ Len(r \o h) = Len(r) + BufSize
  BY <1>1, <1>3, ConcatProperties
<1>5. Rising(r \o h) /\ Packs(r \o h) = Packs(r) \cup Packs(h)
  BY <1>1, <1>2, <1>3, RisingConcat, PacksConcat
<1> QED
  BY <1>4, <1>5 DEF h

\* which it takes over, less what TsSync throws away.
LEMMA TakenToFilter ==
  ASSUME NEW f, NEW o, NEW r, NEW q, NEW b, NEW u, Stages(f, o, r, q, b, u), q # << >>,
         NEW s \in Seq(Units), Rising(s), Packs(s) \subseteq Packs(r) \cup Packs(Head(q))
  PROVE  /\ Stages(f, o, s, Tail(q), b, u)
         /\ Way(f, o, s, Tail(q), b) \subseteq Way(f, o, r, q, b)
<1> DEFINE h == Head(q)
           t == Tail(q)
<1>1. q \in Seq(FullBuffers) /\ Ascending(q) /\ Len(q) <= FifoSize
  BY DEF Stages, Sized, Ordered
<1>2. /\ h \in FullBuffers /\ t \in Seq(FullBuffers) /\ Len(t) = Len(q) - 1 /\ Len(q) \in Nat
      /\ Packs(h) \subseteq All(q) /\ All(t) \subseteq All(q)
      /\ Rising(h) /\ Ascending(t) /\ Older(Packs(h), All(t))
  BY <1>1, HeadOfLine
<1>3. Packs(s) \subseteq Packs(r) \cup Packs(h)
  OBVIOUS
<1> HIDE DEF h, t
<1>4. Way(f, o, s, t, b) \subseteq Way(f, o, r, q, b)
  BY <1>2, <1>3 DEF Way
<1>5. Len(t) <= FifoSize
  BY <1>1, <1>2, SizeAssumption
<1>6. Sized(f, o, s, t, b)
  BY <1>2, <1>5 DEF Stages, Sized
<1>7. Ordered(f, o, s, t, b)
  BY <1>2, <1>3 DEF Stages, Ordered, Older
<1> QED
  BY <1>4, <1>6, <1>7 DEF Stages, t

\* It adds what it keeps of the packets it filters to its output; what is held
\* back, c, stays.
LEMMA Filtered ==
  ASSUME NEW f, NEW o, NEW x \in Seq(Units), NEW c \in Seq(Units), NEW q, NEW b, NEW u,
         Stages(f, o, x \o c, q, b, u), NEW kept \in Selections(x)
  PROVE  LET ts == o \o kept
         IN  /\ Stages(Pushed(f, Whole(ts)), Left(ts), c, q, b, u)
             /\ Way(Pushed(f, Whole(ts)), Left(ts), c, q, b) \subseteq Way(f, o, x \o c, q, b)
<1> DEFINE ts == o \o kept
           w == Whole(ts)
           e == Left(ts)
           d == Pushed(f, w)
           r == x \o c
           behind == Packs(c) \cup All(q) \cup Packs(b)
<1>1. r \in Seq(Units) /\ Rising(r)
  BY DEF Stages, Sized, Ordered
<1>2. Rising(x) /\ Rising(c) /\ Older(Packs(x), Packs(c)) /\ Packs(r) = Packs(x) \cup Packs(c)
  BY <1>1, RisingParts, PacksConcat
<1> HIDE DEF r
<1>3. /\ o \in Seq(Units) /\ Rising(o) /\ f \in Seq(FullBuffers) /\ Ascending(f)
      /\ Older(All(f), Packs(o) \cup Packs(x)) /\ Older(Packs(o), Packs(x))
      /\ Older(All(f) \cup Packs(o) \cup Packs(x), behind)
  <2>1. Stages(f, o, r, q, b, u)
    BY DEF r
  <2> QED
    BY <1>2, <2>1 DEF Stages, Sized, Ordered, Older
<1>4. kept \in Seq(Units) /\ Packs(kept) \subseteq Packs(x) /\ Rising(kept)
  BY <1>2, Selected
<1>5. Older(Packs(o), Packs(kept))
  BY <1>3, <1>4 DEF Older
<1>6. ts \in Seq(Units) /\ Rising(ts) /\ Packs(ts) = Packs(o) \cup Packs(kept)
  BY <1>3, <1>4, <1>5, RisingConcat, PacksConcat, ConcatProperties
<1> HIDE DEF ts, behind
<1>7. /\ w \in Seq(FullBuffers) /\ Ascending(w)
      /\ e \in Seq(Units) /\ Rising(e) /\ Len(e) < BufSize
      /\ All(w) \subseteq Packs(ts) /\ Packs(e) \subseteq Packs(ts) /\ Older(All(w), Packs(e))
  BY <1>6, Parted
<1> HIDE DEF w, e
<1>8. Older(All(f), All(w)) /\ Older(All(f), Packs(e))
  BY <1>3, <1>4, <1>6, <1>7 DEF Older
<1>9. d \in Seq(FullBuffers) /\ Len(d) <= FifoSize /\ Ascending(d) /\ All(d) \subseteq All(f) \cup All(w)
  BY <1>3, <1>7, <1>8, PushedIs
<1> HIDE DEF d
<1>10. All(d) \cup Packs(e) \subseteq All(f) \cup Packs(o) \cup Packs(x)
  BY <1>4, <1>6, <1>7, <1>9
<1>11. Way(d, e, c, q, b) \subseteq Way(f, o, r, q, b)
  BY <1>2, <1>10 DEF Way
<1>12. Older(All(d), Packs(e)) /\ Older(All(d) \cup Packs(e), behind)
  BY <1>3, <1>7, <1>8, <1>9, <1>10 DEF Older
<1>13. Stages(f, o, r, q, b, u)
  BY DEF r
<1>14. Sized(d, e, c, q, b)
  BY <1>7, <1>9, <1>13 DEF Stages, Sized
<1>15. Ordered(d, e, c, q, b)
  <2>1. /\ Older(All(d), Packs(e) \cup Packs(c) \cup All(q) \cup Packs(b))
        /\ Older(Packs(e), Packs(c) \cup All(q) \cup Packs(b))
    BY <1>12 DEF Older, behind
  <2>2. Older(Packs(c), All(q) \cup Packs(b)) /\ Older(All(q), Packs(b)) /\ Ascending(q) /\ Rising(b)
    BY <1>2, <1>13 DEF Stages, Ordered, Older
  <2> QED
    BY <1>2, <1>7, <1>9, <2>1, <2>2 DEF Ordered
<1>16. Stages(d, e, c, q, b, u)
  BY <1>11, <1>13, <1>14, <1>15 DEF Stages
<1> QED
  BY <1>11, <1>16 DEF ts, w, e, d, r

\* The application is given the first buffer of its queue, older than all the rest.
LEMMA Given ==
  ASSUME NEW f, NEW o, NEW r, NEW q, NEW b, NEW u, Stages(f, o, r, q, b, u), f # << >>
  PROVE  LET last == Head(f)[Len(Head(f))]
         IN  /\ Stages(Tail(f), o, r, q, b, u)
             /\ Way(Tail(f), o, r, q, b) \subseteq Way(f, o, r, q, b)
             /\ last \in Units /\ last[2] <= u /\ Older({last}, Way(Tail(f), o, r, q, b))
<1> DEFINE h == Head(f)
           t == Tail(f)
           last == h[Len(h)]
<1>1. f \in Seq(FullBuffers) /\ Ascending(f) /\ Len(f) <= FifoSize
  BY DEF Stages, Sized, Ordered
<1>2. /\ h \in FullBuffers /\ t \in Seq(FullBuffers) /\ Len(t) = Len(f) - 1 /\ Len(f) \in Nat
      /\ Packs(h) \subseteq All(f) /\ All(t) \subseteq All(f)
      /\ Ascending(t) /\ Older(Packs(h), All(t))
  BY <1>1, HeadOfLine
<1> HIDE DEF h, t
<1>3. last \in Packs(h) /\ last \in Units
  <2>1. Len(h) \in 1..Len(h) /\ h \in Seq(Units)
    BY <1>2, SizeAssumption DEF FullBuffers
  <2> QED
    BY <2>1, ElementOfSeq DEF Packs
<1> HIDE DEF last
<1>4. Way(t, o, r, q, b) \subseteq Way(f, o, r, q, b)
  BY <1>2 DEF Way
<1>5. Len(t) <= FifoSize
  BY <1>1, <1>2, SizeAssumption
<1>6. Sized(t, o, r, q, b)
  BY <1>2, <1>5 DEF Stages, Sized
<1>7. Older({last}, Way(t, o, r, q, b))
  BY <1>2, <1>3 DEF Stages, Ordered, Older, Way
<1>8. Older(All(t), Packs(o) \cup Packs(r) \cup All(q) \cup Packs(b))
  BY <1>2 DEF Stages, Ordered, Older
<1>9. Ordered(t, o, r, q, b)
  BY <1>2, <1>8 DEF Stages, Ordered
<1>10. \A p \in Way(t, o, r, q, b) \cup {last} : p[2] <= u
  BY <1>2, <1>3, <1>4 DEF Stages, Way
<1> QED
  BY <1>3, <1>4, <1>6, <1>7, <1>9, <1>10 DEF Stages, h, t, last

-----------------------------------------------------------------------------
(* The counters, the locks and the packets on the way                       *)

Untuned == {"stop", "exchange", "load", "tune", "keep"}

\* Each SetChannel tunes at most once.
Counted ==
  /\ sets \in 0..MaxSets /\ opens \in 0..MaxOpens /\ units \in 0..MaxUnits /\ epoch \in Nat
  /\ epoch <= sets /\ (ctl \in Untuned => epoch < sets)

Types ==
  /\ req \in Channels \cup {None} /\ promise \in Channels \cup {None}
  /\ m_pIBon2 \in BonNos \cup {None}
  /\ m_bTuner \in BOOLEAN /\ m_hTsRead \in BOOLEAN /\ m_bStopTsRead \in BOOLEAN
  /\ m_StopTsSplit \in BOOLEAN /\ unsure \in BOOLEAN
  /\ bonLock \in {None, "control", "app"} /\ writeLock \in {None, "control", "app"}
  /\ splitterLock \in {None, "splitter"}
  /\ app \in {"idle", "purge", "purgeBon", "purgeWrite"}

\* What TsSync holds back are at most the last packets the splitter got.
Holds ==
  /\ g_TsSync \in BOOLEAN
  /\ raw \in Seq(Units) /\ m_SyncBuf \in Seq(Units) /\ held \in Seq(Units)
  /\ Len(raw) < BufSize + SyncPackets /\ Len(m_SyncBuf) <= SyncPackets
  /\ Rising(m_SyncBuf) /\ \A p \in Packs(m_SyncBuf) : p[2] <= units
  /\ ~g_TsSync => m_SyncBuf = << >> /\ held = << >>

OnTheWay == Way(m_fifoTS, out, Waiting, m_fifoRawTS, buf)
Fresh == OnTheWay \ Packs(held)

\* But for what was held back at the last flush, the way is newer than what the
\* application has, and only between the tuner's SetChannel and the flush is
\* anything on it that was read before.
Flows ==
  /\ got \in Units /\ got[2] <= units /\ Holds
  /\ Stages(m_fifoTS, out, Waiting, m_fifoRawTS, buf, units)
  /\ Older({got}, Fresh)
  /\ ctl # "flush" => \A p \in Fresh : p[1] = epoch

IInv == Lives /\ Stored /\ Waits /\ Touch /\ Promised /\ Counted /\ Types /\ Flows

\* All that is left on the way was held back.
LEMMA Emptied ==
  ASSUME got' \in Units, got'[2] <= units', units' \in Nat, Holds', held' = m_SyncBuf',
         m_fifoTS' = << >>, out' = << >>, raw' = << >>, m_fifoRawTS' = << >>, buf' = << >>
  PROVE  Flows'
<1> DEFINE w == Waiting'
<1>1. Packs(<< >>) = {} /\ Rising(<< >>) /\ << >> \in Seq(Units)
  BY NoPackets, EmptySeq
<1>2. w = m_SyncBuf' \/ w = << >>
  BY EmptySeq, ConcatEmptySeq DEF Waiting, Holds
<1>3. /\ w \in Seq(Units) /\ Rising(w) /\ Packs(w) \subseteq Packs(held')
      /\ \A p \in Packs(w) : p[2] <= units'
  BY <1>1, <1>2 DEF Holds
<1> HIDE DEF w
<1>4. /\ Stages(<< >>, << >>, w, << >>, << >>, units')
      /\ Way(<< >>, << >>, w, << >>, << >>) = Packs(w)
  BY <1>3, AllClear
<1>5. Stages(m_fifoTS, out, Waiting, m_fifoRawTS, buf, units)' /\ Fresh' = {}
  BY <1>3, <1>4 DEF Fresh, OnTheWay, w
<1> QED
  BY <1>5 DEF Flows, Older

LEMMA IInvInit == Init => IInv
<1> SUFFICES ASSUME Init PROVE IInv
  OBVIOUS
<1>1. Lives /\ Stored /\ Waits /\ Touch /\ Promised
  BY LivesInit, SettledInit, TouchInit
<1>2. Counted
  BY BoundAssumption DEF Init, Counted, Untuned
<1>3. Types
  BY Zenon DEF Init, Types
<1>4. Flows
  <2>1. got \in Units /\ got[2] <= units /\ units \in Nat
    BY BoundAssumption DEF Init, Units
  <2>2. /\ buf = << >> /\ raw = << >> /\ out = << >> /\ m_fifoTS = << >> /\ m_fifoRawTS = << >>
        /\ m_SyncBuf = << >> /\ held = << >> /\ g_TsSync \in BOOLEAN
    BY DEF Init
  <2>3. Holds
    <3>1. Packs(<< >>) = {} /\ Rising(<< >>) /\ << >> \in Seq(Units) /\ Len(<< >>) = 0
      BY NoPackets, EmptySeq
    <3> QED
      BY <2>2, <3>1, SizeAssumption DEF Holds, SyncPackets
  <2>4. Waiting = << >>
    BY <2>2, EmptySeq, ConcatEmptySeq DEF Waiting
  <2>5. /\ Stages(<< >>, << >>, << >>, << >>, << >>, units)
        /\ Way(<< >>, << >>, << >>, << >>, << >>) = {}
    BY <2>1, AllClear, NoPackets, EmptySeq
  <2>6. Stages(m_fifoTS, out, Waiting, m_fifoRawTS, buf, units) /\ Fresh = {}
    BY <2>2, <2>4, <2>5 DEF Fresh, OnTheWay
  <2> QED
    BY <2>1, <2>3, <2>6 DEF Flows, Older
<1> QED
  BY <1>1, <1>2, <1>3, <1>4 DEF IInv

LEMMA CountedStep ==
  ASSUME Lives, Counted, [Next]_vars PROVE Counted'
<1> USE DEF Counted, Untuned, counts, control
<1>1. ASSUME UNCHANGED counts, ctl' \in Untuned => ctl \in Untuned PROVE Counted'
  BY <1>1
<1>2. CASE OpenTuner
  BY <1>2, BoundAssumption DEF OpenTuner
<1>3. ASSUME NEW c \in Channels, SetChannel(c) PROVE Counted'
  BY <1>3, BoundAssumption DEF SetChannel
<1>4. CASE Tune
  BY <1>4, BoundAssumption DEF Tune
<1>5. CASE ReaderRead
  <2>1. UNCHANGED <<sets, opens, epoch, ctl>>
    BY <1>5 DEF ReaderRead
  <2>2. units' \in 0..MaxUnits
    <3>1. ASSUME NEW n \in ChunkSizes, units + n <= MaxUnits, units' = units + n
          PROVE  units' \in 0..MaxUnits
      BY <3>1, SizeAssumption, BoundAssumption
    <3>2. (\E n \in ChunkSizes : units + n <= MaxUnits /\ units' = units + n) \/ units' = units
      BY <1>5 DEF ReaderRead
    <3> QED
      BY <3>1, <3>2
  <2> QED
    BY <2>1, <2>2
<1>6. CASE CloseTuner \/ Release \/ StopReader \/ Exchange \/ Load \/ LoadFails \/ TuneFails
           \/ Keep \/ Store \/ Start \/ StartFails \/ CloseDriver \/ CloseEnd \/ ReleaseDriver \/ Delete
  BY <1>1, <1>6 DEF CloseTuner, Release, StopReader, Exchange, Load, LoadFails, TuneFails, Err1, Return,
                    Keep, Store, Start, StartFails, CloseDriver, CloseEnd, ReleaseDriver, Delete
<1>7. CASE JoinReader
  BY <1>1, <1>7, AfterStopIs DEF JoinReader, Stopping
<1>8. CASE ReaderStart \/ ReaderCheck \/ ReaderStop \/ ReaderEnd \/ SplitterStep \/ GetTsStream
           \/ Purge \/ AppStep \/ Deleted \/ UNCHANGED vars
  <2>1. UNCHANGED counts /\ UNCHANGED ctl
    BY <1>8 DEF ReaderStart, ReaderCheck, ReaderStop, ReaderEnd, SplitterStep, SplitterWake,
                SplitterTake, SplitterFilter, GetTsStream, Purge, AppStep, PurgeLock, PurgeWrite,
                PurgeEnd, Deleted, vars
  <2> QED
    BY <1>1, <2>1
<1> QED
  BY <1>2, <1>3, <1>4, <1>5, <1>6, <1>7, <1>8 DEF Next, ControlStep, ReaderStep

LEMMA TypesStep ==
  ASSUME Lives, Types, [Next]_vars PROVE Types'
<1> USE DEF Types, control, threads, locks, ghosts
<1>1. CASE OpenTuner
  BY <1>1 DEF OpenTuner
<1>2. ASSUME NEW c \in Channels, SetChannel(c) PROVE Types'
  BY <1>2 DEF SetChannel
<1>3. CASE CloseTuner
  BY <1>3 DEF CloseTuner
<1>4. CASE Release
  BY <1>4 DEF Release
<1>5. CASE StopReader
  BY <1>5 DEF StopReader
<1>6. CASE JoinReader
  <2>1. m_hTsRead' \in BOOLEAN
    BY <1>6, Zenon DEF JoinReader
  <2>2. UNCHANGED <<req, promise, m_bTuner, m_pIBon2, m_bStopTsRead, m_StopTsSplit, unsure, locks, app>>
    BY <1>6 DEF JoinReader
  <2> QED
    BY <2>1, <2>2
<1>7. CASE Exchange
  BY <1>7 DEF Exchange
<1>8. CASE Load
  <2>1. req \in Channels
    BY <1>8 DEF Load, Lives, Places, Setting
  <2> QED
    BY <1>8, <2>1, TunerNamed DEF Load
<1>9. CASE LoadFails
  BY <1>9 DEF LoadFails, Err1, Return
<1>10. CASE Tune
  <2>1. unsure' \in BOOLEAN
    BY <1>10, Zenon DEF Tune
  <2> QED
    BY <1>10, <2>1 DEF Tune
<1>11. CASE TuneFails
  BY <1>11 DEF TuneFails, Err1, Return
<1>12. CASE Keep
  BY <1>12 DEF Keep
<1>13. CASE Store
  BY <1>13 DEF Store
<1>14. CASE Start
  <2>1. m_hTsRead' \in BOOLEAN /\ m_bStopTsRead' \in BOOLEAN
    BY <1>14, Zenon DEF Start
  <2>2. /\ promise' = req
        /\ req' = None /\ UNCHANGED <<m_bTuner, m_pIBon2, m_StopTsSplit, unsure, locks, app>>
    BY <1>14 DEF Start, Return
  <2> QED
    BY <2>1, <2>2
<1>15. CASE StartFails
  BY <1>15 DEF StartFails, Return
<1>16. CASE CloseDriver \/ CloseEnd
  <2>1. unsure' \in BOOLEAN /\ m_bTuner' \in BOOLEAN
    BY <1>16, Zenon DEF CloseDriver, CloseEnd
  <2>2. bonLock' \in {None, "control", "app"}
    BY <1>16 DEF CloseDriver, CloseEnd
  <2>3. UNCHANGED <<req, promise, m_pIBon2, threads, writeLock, splitterLock, app>>
    BY <1>16 DEF CloseDriver, CloseEnd
  <2> QED
    BY <2>1, <2>2, <2>3
<1>17. CASE ReleaseDriver \/ Delete
  BY <1>17 DEF ReleaseDriver, Delete
<1>18. CASE ReaderStep
  <2>1. m_StopTsSplit' \in BOOLEAN
    <3>1. m_StopTsSplit' = TRUE \/ m_StopTsSplit' = FALSE \/ m_StopTsSplit' = m_StopTsSplit
      BY <1>18, Zenon DEF ReaderStep, ReaderStart, ReaderCheck, ReaderRead, ReaderStop, ReaderEnd
    <3> QED
      BY <3>1, Zenon
  <2>2. UNCHANGED <<req, promise, m_bTuner, m_pIBon2, m_hTsRead, m_bStopTsRead, unsure, locks, app>>
    BY <1>18 DEF ReaderStep, ReaderStart, ReaderCheck, ReaderRead, ReaderStop, ReaderEnd
  <2> QED
    BY <2>1, <2>2
<1>19. CASE SplitterStep
  BY <1>19 DEF SplitterStep, SplitterWake, SplitterTake, SplitterFilter
<1>20. CASE GetTsStream \/ Purge \/ AppStep
  BY <1>20 DEF GetTsStream, Purge, AppStep, PurgeLock, PurgeWrite, PurgeEnd
<1>21. CASE Deleted \/ UNCHANGED vars
  BY <1>21 DEF Deleted, vars
<1> QED
  BY <1>1, <1>2, <1>3, <1>4, <1>5, <1>6, <1>7, <1>8, <1>9, <1>10, <1>11, <1>12, <1>13, <1>14, <1>15,
     <1>16, <1>17, <1>18, <1>19, <1>20, <1>21 DEF Next, ControlStep

\* A step that only loses packets.
LEMMA FlowsOn ==
  ASSUME Flows, UNCHANGED <<epoch, got, units, held>>, ctl' = "flush" \/ ctl # "flush", Holds',
         Stages(m_fifoTS, out, Waiting, m_fifoRawTS, buf, units)', OnTheWay' \subseteq OnTheWay
  PROVE  Flows'
<1>1. Fresh' \subseteq Fresh
  BY DEF Fresh
<1> QED
  BY <1>1 DEF Flows, Older

\* A step that does not touch them.
LEMMA FlowsStay ==
  ASSUME Flows, UNCHANGED <<data, m_bUseServiceID, got, units, epoch>>,
         ctl' = "flush" \/ ctl # "flush"
  PROVE  Flows'
<1>1. UNCHANGED <<Waiting, buf, raw, out, m_fifoTS, m_fifoRawTS, g_TsSync, m_SyncBuf, held>>
  BY DEF data, carry, Waiting
<1> QED
  BY <1>1 DEF Flows, Holds, Fresh, OnTheWay

LEMMA FlushFlows ==
  ASSUME Waits, Flows, TsFlush, UNCHANGED <<got, units>> PROVE Flows'
<1>1. raw = << >>
  BY DEF TsFlush, Waits
<1>2. /\ m_fifoTS' = << >> /\ m_fifoRawTS' = << >> /\ buf' = << >> /\ out' = << >> /\ raw' = << >>
      /\ held' = m_SyncBuf' /\ UNCHANGED <<g_TsSync, m_SyncBuf, raw>>
  BY <1>1 DEF TsFlush
<1>3. got' \in Units /\ units' \in Nat /\ got'[2] <= units'
  BY DEF Flows, Stages
<1>4. Holds'
  BY <1>2 DEF Flows, Holds
<1> QED
  BY <1>2, <1>3, <1>4, Emptied

\* No reader runs and the way was flushed: the service may be another again.
LEMMA StartFailsFlows ==
  ASSUME Waits, Flows, StartFails PROVE Flows'
<1>1. UNCHANGED data /\ UNCHANGED <<got, units>> /\ NothingWaits /\ NothingRead
  BY DEF StartFails, Waits, counts
<1>2. /\ m_fifoTS' = << >> /\ m_fifoRawTS' = << >> /\ buf' = << >> /\ out' = << >> /\ raw' = << >>
      /\ held' = m_SyncBuf' /\ UNCHANGED <<g_TsSync, m_SyncBuf, raw, held>>
  BY <1>1 DEF NothingWaits, NothingRead, Waits, data, carry
<1>3. got' \in Units /\ units' \in Nat /\ got'[2] <= units'
  BY <1>1 DEF Flows, Stages
<1>4. Holds'
  BY <1>1, <1>2 DEF Flows, Holds
<1> QED
  BY <1>2, <1>3, <1>4, Emptied

LEMMA ReadFlows ==
  ASSUME Lives, Waits, Counted, Flows, ReaderRead PROVE Flows'
<1>1. UNCHANGED <<got, raw, out, carry, m_bUseServiceID, ctl, epoch>>
  BY DEF ReaderRead, ghosts, control, settings
<1>2. UNCHANGED <<Waiting, g_TsSync, m_SyncBuf, held>>
  BY <1>1 DEF Waiting, carry
<1>3. CASE UNCHANGED <<buf, m_fifoTS, m_fifoRawTS, units>>
  BY <1>1, <1>3, FlowsStay DEF data
<1>4. ASSUME NEW n \in ChunkSizes, units + n <= MaxUnits, units' = units + n,
             LET ts == buf \o [k \in 1..n |-> <<epoch, units + k>>]
             IN  /\ buf' = Left(ts)
                 /\ IF m_bUseServiceID
                    THEN m_fifoRawTS' = Pushed(m_fifoRawTS, Whole(ts)) /\ UNCHANGED m_fifoTS
                    ELSE m_fifoTS' = Pushed(m_fifoTS, Whole(ts)) /\ UNCHANGED m_fifoRawTS
      PROVE  Flows'
  <2> DEFINE new == [k \in 1..n |-> <<epoch, units + k>>]
             ts == buf \o new
  <2>1. n \in Nat /\ units \in Nat /\ epoch \in 0..MaxSets /\ units + n \in Nat /\ units <= units + n
    BY SizeAssumption, BoundAssumption DEF Counted
  <2>2. /\ new \in Seq(Units) /\ Rising(new)
        /\ \A p \in Packs(new) : p[1] = epoch /\ units < p[2] /\ p[2] <= units + n
    BY <1>4, <2>1, ChunkIs
  <2>3. /\ buf' = Left(ts)
        /\ m_bUseServiceID => m_fifoRawTS' = Pushed(m_fifoRawTS, Whole(ts)) /\ m_fifoTS' = m_fifoTS
        /\ ~m_bUseServiceID => m_fifoTS' = Pushed(m_fifoTS, Whole(ts)) /\ m_fifoRawTS' = m_fifoRawTS
    BY <1>4
  <2>4. Stages(m_fifoTS, out, Waiting, m_fifoRawTS, buf, units)
    BY DEF Flows
  <2> HIDE DEF new
  <2>5. /\ Stages(m_fifoTS, out, Waiting, m_fifoRawTS, buf, units)'
        /\ OnTheWay' \subseteq OnTheWay \cup Packs(new)
    <3>1. CASE m_bUseServiceID
      <4>1. /\ Stages(m_fifoTS, out, Waiting, Pushed(m_fifoRawTS, Whole(ts)), Left(ts), units + n)
            /\ Way(m_fifoTS, out, Waiting, Pushed(m_fifoRawTS, Whole(ts)), Left(ts))
                 \subseteq Way(m_fifoTS, out, Waiting, m_fifoRawTS, buf) \cup Packs(new)
        BY <2>1, <2>2, <2>4, ReadToFilter
      <4>2. /\ m_fifoTS' = m_fifoTS /\ out' = out /\ Waiting' = Waiting /\ buf' = Left(ts)
            /\ m_fifoRawTS' = Pushed(m_fifoRawTS, Whole(ts)) /\ units' = units + n
        BY <1>1, <1>2, <1>4, <2>3, <3>1
      <4> QED
        BY <4>1, <4>2 DEF OnTheWay
    <3>2. CASE ~m_bUseServiceID
      <4>1. out = << >> /\ Waiting = << >> /\ m_fifoRawTS = << >>
        BY <3>2, EmptySeq, ConcatEmptySeq DEF Waits, NothingWaits, Waiting
      <4>2. Stages(m_fifoTS, << >>, << >>, << >>, buf, units)
        BY <2>4, <4>1
      <4>3. /\ Stages(Pushed(m_fifoTS, Whole(ts)), << >>, << >>, << >>, Left(ts), units + n)
            /\ Way(Pushed(m_fifoTS, Whole(ts)), << >>, << >>, << >>, Left(ts))
                 \subseteq Way(m_fifoTS, << >>, << >>, << >>, buf) \cup Packs(new)
        BY <2>1, <2>2, <4>2, ReadPastFilter
      <4>4. /\ out' = << >> /\ Waiting' = << >> /\ m_fifoRawTS' = << >> /\ buf' = Left(ts)
            /\ m_fifoTS' = Pushed(m_fifoTS, Whole(ts)) /\ units' = units + n
        BY <1>1, <1>2, <1>4, <2>3, <3>2, <4>1
      <4> QED
        BY <4>1, <4>3, <4>4 DEF OnTheWay
    <3> QED
      BY <3>1, <3>2
  <2>6. Fresh' \subseteq Fresh \cup Packs(new)
    BY <1>2, <2>5 DEF Fresh
  <2>7. got \in Units /\ got[2] \in Nat /\ got[2] <= units
    BY BoundAssumption DEF Flows, Units
  <2>8. Older({got}, Packs(new))
    <3>1. \A p \in Packs(new) : p \in Units /\ p[2] \in Nat
      BY <2>2, ElementOfSeq, BoundAssumption DEF Packs, Units
    <3> QED
      BY <2>1, <2>2, <2>7, <3>1 DEF Older
  <2>9. Holds'
    <3>1. \A p \in Packs(m_SyncBuf) : p \in Units /\ p[2] \in Nat /\ p[2] <= units
      BY ElementOfSeq, BoundAssumption DEF Flows, Holds, Packs, Units
    <3>2. \A p \in Packs(m_SyncBuf) : p[2] <= units'
      BY <1>4, <2>1, <3>1
    <3> QED
      BY <1>1, <1>2, <3>2 DEF Flows, Holds
  <2>10. got' \in Units /\ got'[2] <= units'
    BY <1>1, <1>4, <2>1, <2>7
  <2>11. Older({got}, Fresh)' /\ (ctl # "flush" => \A p \in Fresh : p[1] = epoch)'
    BY <1>1, <2>2, <2>6, <2>8 DEF Flows, Older
  <2> QED
    BY <2>5, <2>9, <2>10, <2>11 DEF Flows
<1> QED
  BY <1>3, <1>4 DEF ReaderRead

LEMMA SyncedIs ==
  ASSUME NEW all \in Seq(Units), Rising(all), NEW s \in Synced(all)
  PROVE  /\ s.whole \in Seq(Units) /\ Len(s.whole) < Len(all)
         /\ s.rest \in Seq(Units) /\ Len(s.rest) <= SyncPackets /\ Rising(s.rest)
         /\ s.whole \o s.rest \in Seq(Units) /\ Rising(s.whole \o s.rest)
         /\ Packs(s.whole \o s.rest) \subseteq Packs(all)
<1> DEFINE n == Len(all)
<1>1. n \in Nat
  BY LenProperties
<1>2. CASE \E i \in 1..n : s = [whole |-> SubSeq(all, i, n - 1), rest |-> SubSeq(all, n, n)]
  <2>1. PICK i \in 1..n : s = [whole |-> SubSeq(all, i, n - 1), rest |-> SubSeq(all, n, n)]
    BY <1>2
  <2> DEFINE w == SubSeq(all, i, n - 1)
             t == SubSeq(all, n, n)
             m == n - 1
  <2>2. i \in Nat \ {0} /\ m \in Nat /\ m <= n /\ n \in Nat \ {0} /\ n <= n /\ i <= n
    BY <1>1
  <2>3. s.whole = w /\ s.rest = t
    BY <2>1
  <2> HIDE DEF m, n
  <2>4. /\ SubSeq(all, i, m) \in Seq(Units) /\ Len(SubSeq(all, i, m)) = (IF i <= m THEN m - i + 1 ELSE 0)
        /\ Packs(SubSeq(all, i, m)) \subseteq Packs(all) /\ Rising(SubSeq(all, i, m))
    BY <2>2, Stretch DEF n
  <2>5. /\ t \in Seq(Units) /\ Len(t) = (IF n <= n THEN n - n + 1 ELSE 0)
        /\ Packs(t) \subseteq Packs(all) /\ Rising(t)
    BY <2>2, Stretch DEF n
  <2>6. w = SubSeq(all, i, m)
    BY DEF m
  <2>7. Len(t) = 1 /\ Len(w) < n /\ Len(w) \in Nat
    BY <2>2, <2>4, <2>5, <2>6
  <2>8. Older(Packs(w), Packs(t))
    <3>1. \A k \in i..m : all[k] \in Units
      BY <2>2, ElementOfSeq DEF m, n
    <3>2. \A k \in 1..(m - i + 1) : w[k] = all[i + k - 1]
      BY <2>2, <2>6, <3>1, SubSeqProperties DEF n
    <3>3. \A k \in n..n : all[k] \in Units
      BY <2>2, ElementOfSeq DEF n
    <3>4. \A k \in 1..(n - n + 1) : t[k] = all[n + k - 1]
      BY <2>2, <3>3, SubSeqProperties DEF n
    <3>5. t[1] = all[n]
      BY <2>2, <3>4
    <3>6. \A k \in 1..Len(w) : i + k - 1 \in 1..n /\ i + k - 1 < n /\ w[k] = all[i + k - 1]
      BY <2>2, <2>4, <2>6, <3>2 DEF m
    <3>7. \A k \in 1..Len(w) : w[k][2] < t[1][2]
      BY <2>2, <3>5, <3>6 DEF Rising, n
    <3>8. \A x \in Packs(w) : x[2] < t[1][2]
      BY <3>7 DEF Packs
    <3>9. \A y \in Packs(t) : y = t[1]
      <4>1. \A k \in 1..Len(t) : k = 1
        BY <2>7
      <4> HIDE DEF t
      <4> QED
        BY <4>1 DEF Packs
    <3> QED
      BY <3>8, <3>9 DEF Older
  <2> HIDE DEF w, t
  <2>9. /\ w \o t \in Seq(Units) /\ Rising(w \o t) /\ Packs(w \o t) = Packs(w) \cup Packs(t)
    BY <2>4, <2>5, <2>6, <2>8, RisingConcat, PacksConcat, ConcatProperties
  <2> QED
    BY <2>3, <2>4, <2>5, <2>6, <2>7, <2>9 DEF SyncPackets, n
<1>3. CASE \E i \in {k \in 1..n : k + SyncPackets > n} : s = [whole |-> << >>, rest |-> SubSeq(all, i, n)]
  <2>1. PICK i \in 1..n : i + SyncPackets > n /\ s = [whole |-> << >>, rest |-> SubSeq(all, i, n)]
    BY <1>3
  <2> DEFINE t == SubSeq(all, i, n)
  <2>2. i \in Nat \ {0} /\ n \in Nat /\ n <= n /\ i <= n /\ n - i + 1 <= SyncPackets
    BY <1>1, <2>1 DEF SyncPackets
  <2>3. s.whole = << >> /\ s.rest = t
    BY <2>1
  <2> HIDE DEF n
  <2>4. /\ t \in Seq(Units) /\ Len(t) = (IF i <= n THEN n - i + 1 ELSE 0)
        /\ Packs(t) \subseteq Packs(all) /\ Rising(t)
    BY <2>2, Stretch DEF n
  <2>5. << >> \o t = t /\ << >> \in Seq(Units) /\ Len(<< >>) = 0
    BY <2>4, EmptySeq, ConcatEmptySeq
  <2> HIDE DEF t
  <2> QED
    BY <2>2, <2>3, <2>4, <2>5 DEF n
<1> QED
  BY <1>2, <1>3 DEF Synced

LEMMA SplitterFlows ==
  ASSUME Waits, Flows, SplitterStep PROVE Flows'
<1>1. UNCHANGED <<ctl, epoch, got, units, buf, g_TsSync, held, m_bUseServiceID>>
  BY DEF SplitterStep, SplitterWake, SplitterTake, SplitterFilter, control, settings, counts, ghosts,
         data, carry
<1>2. Stages(m_fifoTS, out, Waiting, m_fifoRawTS, buf, units) /\ Holds
  BY DEF Flows
<1>3. CASE SplitterWake
  <2>1. UNCHANGED data
    BY <1>3 DEF SplitterWake
  <2> QED
    BY <1>1, <2>1, FlowsStay
<1>4. CASE SplitterTake
  <2>1. raw = << >> /\ UNCHANGED <<m_fifoTS, out>>
    BY <1>4 DEF SplitterTake, Waits
  <2>2. CASE m_fifoRawTS = << >>
    <3>1. UNCHANGED data
      BY <1>1, <1>4, <2>1, <2>2 DEF SplitterTake, data, carry
    <3> QED
      BY <1>1, <3>1, FlowsStay
  <2>3. CASE m_fifoRawTS # << >>
    <3> DEFINE all == m_SyncBuf \o Head(m_fifoRawTS)
    <3>1. m_fifoRawTS' = Tail(m_fifoRawTS)
      BY <1>4, <2>3 DEF SplitterTake
    <3>2. m_bUseServiceID /\ Waiting = m_SyncBuf /\ Waiting' = raw' \o m_SyncBuf'
      BY <1>1, <1>2, <2>1, <2>3, EmptySeq, ConcatEmptySeq DEF Waits, NothingWaits, Waiting, Holds
    <3>3. /\ all \in Seq(Units) /\ Rising(all)
          /\ Packs(all) = Packs(m_SyncBuf) \cup Packs(Head(m_fifoRawTS))
          /\ Len(all) = Len(m_SyncBuf) + BufSize
      <4>1. Stages(m_fifoTS, out, m_SyncBuf, m_fifoRawTS, buf, units)
        BY <1>2, <3>2
      <4> QED
        BY <2>3, <4>1, Reached
    <3>4. Len(m_SyncBuf) \in Nat /\ Len(m_SyncBuf) <= SyncPackets /\ Len(all) <= BufSize + SyncPackets
      BY <1>2, <3>3, SizeAssumption, LenProperties DEF Holds, SyncPackets
    <3>5. /\ raw' \in Seq(Units) /\ Len(raw') < BufSize + SyncPackets
          /\ m_SyncBuf' \in Seq(Units) /\ Len(m_SyncBuf') <= SyncPackets /\ Rising(m_SyncBuf')
          /\ raw' \o m_SyncBuf' \in Seq(Units) /\ Rising(raw' \o m_SyncBuf')
          /\ Packs(raw' \o m_SyncBuf') \subseteq Packs(all)
          /\ ~g_TsSync => m_SyncBuf' = << >>
      <4>1. CASE g_TsSync
        <5>1. PICK s \in Synced(all) : raw' = s.whole /\ m_SyncBuf' = s.rest
          BY <1>4, <2>3, <4>1 DEF SplitterTake
        <5> HIDE DEF all
        <5>2. /\ s.whole \in Seq(Units) /\ Len(s.whole) < Len(all)
              /\ s.rest \in Seq(Units) /\ Len(s.rest) <= SyncPackets /\ Rising(s.rest)
              /\ s.whole \o s.rest \in Seq(Units) /\ Rising(s.whole \o s.rest)
              /\ Packs(s.whole \o s.rest) \subseteq Packs(all)
          BY <3>3, SyncedIs
        <5>3. Len(s.whole) < BufSize + SyncPackets
          BY <3>4, <5>2, SizeAssumption, LenProperties DEF SyncPackets
        <5> QED
          BY <4>1, <5>1, <5>2, <5>3
      <4>2. CASE ~g_TsSync
        <5>1. raw' = Head(m_fifoRawTS) /\ m_SyncBuf' = << >> /\ m_SyncBuf = << >>
          BY <1>2, <1>4, <2>3, <4>2 DEF SplitterTake, Holds
        <5>2. Head(m_fifoRawTS) \in FullBuffers
          BY <1>2, <2>3, HeadOfLine DEF Stages, Sized, Ordered
        <5>3. /\ raw' \in Seq(Units) /\ Len(raw') = BufSize
              /\ all = raw' /\ raw' \o m_SyncBuf' = raw' /\ Rising(<< >>) /\ << >> \in Seq(Units)
              /\ Len(<< >>) = 0
          BY <5>1, <5>2, EmptySeq, ConcatEmptySeq, NoPackets DEF FullBuffers
        <5> QED
          BY <3>3, <5>1, <5>3, SizeAssumption DEF SyncPackets
      <4> QED
        BY <4>1, <4>2
    <3> HIDE DEF all
    <3>6. Waiting' \in Seq(Units) /\ Rising(Waiting')
          /\ Packs(Waiting') \subseteq Packs(Waiting) \cup Packs(Head(m_fifoRawTS))
      BY <3>2, <3>3, <3>5
    <3> DEFINE w == Waiting'
    <3>7. w \in Seq(Units) /\ Rising(w)
          /\ Packs(w) \subseteq Packs(Waiting) \cup Packs(Head(m_fifoRawTS))
      BY <3>6
    <3> HIDE DEF w
    <3>8. /\ Stages(m_fifoTS, out, w, Tail(m_fifoRawTS), buf, units)
          /\ Way(m_fifoTS, out, w, Tail(m_fifoRawTS), buf) \subseteq OnTheWay
      BY <1>2, <2>3, <3>7, TakenToFilter DEF OnTheWay
    <3>9. Stages(m_fifoTS, out, Waiting, m_fifoRawTS, buf, units)' /\ OnTheWay' \subseteq OnTheWay
      BY <1>1, <2>1, <3>1, <3>8 DEF OnTheWay, w
    <3>10. Holds'
      <4>1. Packs(m_SyncBuf') \subseteq Packs(Waiting')
        BY <3>2, <3>5, PacksConcat
      <4>2. Packs(Waiting') \subseteq OnTheWay'
        BY DEF OnTheWay, Way
      <4>3. \A p \in Packs(m_SyncBuf') : p[2] <= units'
        BY <3>9, <4>1, <4>2 DEF Stages, OnTheWay
      <4> QED
        BY <1>1, <1>2, <3>5, <4>3 DEF Holds
    <3> QED
      BY <1>1, <3>9, <3>10, FlowsOn
  <2> QED
    BY <2>2, <2>3
<1>5. CASE SplitterFilter
  <2>1. PICK kept \in Selections(raw) :
          out' = Left(out \o kept) /\ m_fifoTS' = Pushed(m_fifoTS, Whole(out \o kept))
    BY <1>5 DEF SplitterFilter
  <2>2. raw' = << >> /\ UNCHANGED <<m_fifoRawTS, m_SyncBuf>> /\ splitter = "filter"
    BY <1>5 DEF SplitterFilter, carry
  <2>3. /\ Waiting = raw \o m_SyncBuf /\ Waiting' = m_SyncBuf
        /\ raw \in Seq(Units) /\ m_SyncBuf \in Seq(Units)
    BY <1>1, <1>2, <2>2, EmptySeq, ConcatEmptySeq DEF Waits, NothingWaits, Waiting, Holds
  <2>4. /\ Stages(Pushed(m_fifoTS, Whole(out \o kept)), Left(out \o kept), m_SyncBuf, m_fifoRawTS, buf, units)
        /\ Way(Pushed(m_fifoTS, Whole(out \o kept)), Left(out \o kept), m_SyncBuf, m_fifoRawTS, buf)
             \subseteq Way(m_fifoTS, out, raw \o m_SyncBuf, m_fifoRawTS, buf)
    BY <1>2, <2>3, Filtered
  <2>5. Stages(m_fifoTS, out, Waiting, m_fifoRawTS, buf, units)' /\ OnTheWay' \subseteq OnTheWay
    BY <1>1, <2>1, <2>2, <2>3, <2>4 DEF OnTheWay
  <2>6. Holds'
    <3>1. raw' \in Seq(Units) /\ Len(raw') < BufSize + SyncPackets
      BY <2>2, EmptySeq, SizeAssumption DEF SyncPackets
    <3> QED
      BY <1>1, <1>2, <2>2, <3>1 DEF Holds
  <2> QED
    BY <1>1, <2>5, <2>6, FlowsOn
<1> QED
  BY <1>3, <1>4, <1>5 DEF SplitterStep

LEMMA FlowsStep ==
  ASSUME Lives, Waits, Counted, Flows, [Next]_vars PROVE Flows'
<1> USE DEF control, counts, ghosts, settings
<1>1. CASE OpenTuner \/ (\E c \in Channels : SetChannel(c)) \/ CloseTuner \/ Release
  <2>1. UNCHANGED <<data, m_bUseServiceID, got, units, epoch>> /\ ctl # "flush"
    BY <1>1 DEF OpenTuner, SetChannel, CloseTuner, Release
  <2> QED
    BY <2>1, FlowsStay
<1>2. CASE StopReader \/ JoinReader \/ Exchange \/ Load \/ LoadFails \/ TuneFails \/ Keep
           \/ Start \/ CloseDriver \/ CloseEnd \/ ReleaseDriver
  <2>1. UNCHANGED <<data, m_bUseServiceID, got, units, epoch>> /\ ctl # "flush"
    BY <1>2 DEF StopReader, JoinReader, Exchange, Load, LoadFails, TuneFails, Keep, Start,
                CloseDriver, CloseEnd, ReleaseDriver, Err1, Return, Stopping
  <2> QED
    BY <2>1, FlowsStay
<1>3. CASE Tune
  <2>1. ctl' = "flush" /\ UNCHANGED <<data, m_bUseServiceID, got, units>>
    BY <1>3 DEF Tune
  <2>2. UNCHANGED <<Waiting, buf, raw, out, m_fifoTS, m_fifoRawTS, g_TsSync, m_SyncBuf, held>>
    BY <2>1 DEF data, carry, Waiting
  <2> QED
    BY <2>1, <2>2 DEF Flows, Holds, Fresh, OnTheWay
<1>4. CASE Store \/ Delete
  <2>1. TsFlush /\ UNCHANGED <<got, units>>
    BY <1>4 DEF Store, Delete
  <2> QED
    BY <2>1, FlushFlows
<1>5. CASE ReaderStart
  <2>1. UNCHANGED <<ctl, epoch, got, units, m_fifoTS, raw, carry, m_fifoRawTS, m_bUseServiceID>>
        /\ ((buf' = << >> /\ out' = << >>) \/ UNCHANGED <<buf, out>>)
    BY <1>5 DEF ReaderStart
  <2>2. CASE UNCHANGED <<buf, out>>
    BY <2>1, <2>2, FlowsStay DEF data
  <2>3. CASE buf' = << >> /\ out' = << >>
    <3>1. Stages(m_fifoTS, out, Waiting, m_fifoRawTS, buf, units) /\ Holds
      BY DEF Flows
    <3>2. /\ Stages(m_fifoTS, << >>, Waiting, m_fifoRawTS, << >>, units)
          /\ Way(m_fifoTS, << >>, Waiting, m_fifoRawTS, << >>)
               \subseteq Way(m_fifoTS, out, Waiting, m_fifoRawTS, buf)
      BY <3>1, Restarted
    <3>3. UNCHANGED <<Waiting, g_TsSync, m_SyncBuf, held>>
      BY <2>1 DEF Waiting, carry
    <3>4. Stages(m_fifoTS, out, Waiting, m_fifoRawTS, buf, units)' /\ OnTheWay' \subseteq OnTheWay
      BY <2>1, <2>3, <3>2, <3>3 DEF OnTheWay
    <3>5. Holds'
      BY <2>1, <3>1, <3>3 DEF Holds
    <3> QED
      BY <2>1, <3>3, <3>4, <3>5, FlowsOn
  <2> QED
    BY <2>1, <2>2, <2>3
<1>6. CASE ReaderRead
  BY <1>6, ReadFlows
<1>7. CASE ReaderCheck \/ ReaderStop \/ ReaderEnd \/ Purge \/ PurgeLock \/ PurgeWrite \/ Deleted
           \/ UNCHANGED vars
  <2>1. UNCHANGED <<data, m_bUseServiceID, got, units, epoch, ctl>>
    BY <1>7 DEF ReaderCheck, ReaderStop, ReaderEnd, Purge, PurgeLock, PurgeWrite, Deleted, vars
  <2> QED
    BY <2>1, FlowsStay
<1>8. CASE SplitterStep
  BY <1>8, SplitterFlows
<1>9. CASE GetTsStream
  <2> DEFINE last == Head(m_fifoTS)[Len(Head(m_fifoTS))]
  <2>1. /\ UNCHANGED <<ctl, epoch, units, buf, raw, out, carry, m_fifoRawTS, m_bUseServiceID>>
        /\ m_fifoTS # << >> /\ got' = last /\ m_fifoTS' = Tail(m_fifoTS)
    BY <1>9 DEF GetTsStream
  <2>2. Stages(m_fifoTS, out, Waiting, m_fifoRawTS, buf, units) /\ Holds
    BY DEF Flows
  <2>3. /\ Stages(Tail(m_fifoTS), out, Waiting, m_fifoRawTS, buf, units)
        /\ Way(Tail(m_fifoTS), out, Waiting, m_fifoRawTS, buf)
             \subseteq Way(m_fifoTS, out, Waiting, m_fifoRawTS, buf)
        /\ last \in Units /\ last[2] <= units
        /\ Older({last}, Way(Tail(m_fifoTS), out, Waiting, m_fifoRawTS, buf))
    BY <2>1, <2>2, Given
  <2> HIDE DEF last
  <2>4. UNCHANGED <<Waiting, g_TsSync, m_SyncBuf, held>>
    BY <2>1 DEF Waiting, carry
  <2>5. /\ Stages(m_fifoTS, out, Waiting, m_fifoRawTS, buf, units)' /\ OnTheWay' \subseteq OnTheWay
        /\ got' \in Units /\ got'[2] <= units' /\ Older({got'}, OnTheWay')
    BY <2>1, <2>3, <2>4 DEF OnTheWay
  <2>6. Holds'
    BY <2>1, <2>2, <2>4 DEF Holds
  <2>7. Fresh' \subseteq Fresh /\ Fresh' \subseteq OnTheWay'
    BY <2>4, <2>5 DEF Fresh
  <2> QED
    BY <2>1, <2>5, <2>6, <2>7 DEF Flows, Older
<1>10. CASE PurgeEnd
  <2>1. TsFlush /\ UNCHANGED <<got, units>>
    BY <1>10 DEF PurgeEnd
  <2> QED
    BY <2>1, FlushFlows
<1>11. CASE StartFails
  BY <1>11, StartFailsFlows
<1> QED
  BY <1>1, <1>2, <1>3, <1>4, <1>5, <1>6, <1>7, <1>8, <1>9, <1>10, <1>11
     DEF Next, ControlStep, ReaderStep, AppStep

LEMMA IInvStep == IInv /\ [Next]_vars => IInv'
BY LivesStep, StoredStep, WaitsStep, TouchStep, PromisedStep, CountedStep, TypesStep, FlowsStep DEF IInv

LEMMA Invariance == Spec => []IInv
BY IInvInit, IInvStep, PTL DEF Spec

\* Every variable has its type; in particular neither buffer being filled is ever
\* full between two steps, and neither queue exceeds its size, whatever the sizes
\* of the buffers, the queues and the chunks the tuner returns.
THEOREM TypesCorrect == Spec => []TypeOK
<1>1. IInv => TypeOK
  <2> SUFFICES ASSUME IInv PROVE TypeOK
    OBVIOUS
  <2>1. Lives /\ Stored /\ Waits /\ Touch /\ Counted /\ Types
        /\ Stages(m_fifoTS, out, Waiting, m_fifoRawTS, buf, units) /\ Holds /\ got \in Units
    BY DEF IInv, Flows
  <2>2. ctl \in {"idle", "keep", "tune", "load", "exchange", "flush", "start", "closeDriver",
                 "closed", "releaseDriver", "flushAll", "deleted"} \cup Stopping
    BY <2>1 DEF Lives, Places, Setting, Closing, Releasing, Stopping
  <2>3. /\ cur \in Channels \cup {None} /\ m_bUseServiceID \in BOOLEAN
        /\ old \in [channel : Channels \cup {None}, use : BOOLEAN, service : Services]
    BY <2>1, ServiceIDs DEF Stored, Olds
  <2>4. m_dwServiceID \in Services
    <3>1. CASE ctl \in Setting
      <4>1. req \in Channels /\ m_dwServiceID = ServiceOf[req]
        BY <2>1, <3>1 DEF Lives, Places, Stored
      <4> QED
        BY <4>1 DEF Services
    <3>2. CASE ctl \notin Setting
      BY <2>1, <3>2, ServiceIDs DEF Stored
    <3> QED
      BY <3>1, <3>2
  <2>5. /\ reader \in {"none", "start", "check", "read", "stop", "join", "ended"}
        /\ splitter \in {"none", "failed", "wait", "woken", "filter", "ended"}
        /\ splitterLock = None <=> splitter # "filter"
        /\ tuner \in [open : BOOLEAN, at : Targets \cup {None}]
    BY <2>1 DEF Lives, Handles, Nested, Waits, Touch
  <2>6. {m_hTsRead, m_bStopTsRead, m_StopTsSplit, unsure} \subseteq BOOLEAN
    BY <2>1, Zenon DEF Types
  <2>7. /\ Len(buf) < BufSize /\ Len(out) < BufSize /\ got \in Units
        /\ {buf, out} \subseteq Buffers
        /\ Len(m_fifoTS) <= FifoSize /\ Len(m_fifoRawTS) <= FifoSize
    <3>1. /\ out \in Seq(Units) /\ buf \in Seq(Units)
          /\ Len(out) < BufSize /\ Len(buf) < BufSize
          /\ Len(m_fifoTS) <= FifoSize /\ Len(m_fifoRawTS) <= FifoSize /\ got \in Units
      BY <2>1 DEF Stages, Sized
    <3>2. Len(out) <= BufSize /\ Len(buf) <= BufSize
      BY <3>1, SizeAssumption, LenProperties
    <3> QED
      BY <3>1, <3>2 DEF Buffers
  <2>8. m_fifoTS \in Seq(Buffers) /\ m_fifoRawTS \in Seq(Buffers)
    <3>1. FullBuffers \subseteq Buffers
      BY SizeAssumption DEF FullBuffers, Buffers
    <3>2. Seq(FullBuffers) \subseteq Seq(Buffers)
      BY <3>1, SeqMonotonic
    <3> QED
      BY <2>1, <3>2 DEF Stages, Sized
  <2>9. sets \in 0..MaxSets /\ opens \in 0..MaxOpens /\ units \in 0..MaxUnits /\ epoch \in 0..MaxSets
    BY <2>1, BoundAssumption DEF Counted
  <2>10. /\ req \in Channels \cup {None} /\ promise \in Channels \cup {None}
         /\ m_bTuner \in BOOLEAN /\ m_pIBon2 \in BonNos \cup {None}
         /\ bonLock \in {None, "control", "app"} /\ writeLock \in {None, "control", "app"}
         /\ splitterLock \in {None, "splitter"}
         /\ app \in {"idle", "purge", "purgeBon", "purgeWrite"}
    BY <2>1 DEF Types
  <2>11. /\ g_TsSync \in BOOLEAN /\ {raw, m_SyncBuf, held} \subseteq Seq(Units)
         /\ Len(m_SyncBuf) <= SyncPackets /\ Len(raw) < BufSize + SyncPackets
         /\ ~g_TsSync => m_SyncBuf = << >> /\ held = << >>
    BY <2>1 DEF Holds
  <2> QED
    BY <2>2, <2>3, <2>4, <2>5, <2>6, <2>7, <2>8, <2>9, <2>10, <2>11, Zenon DEF TypeOK
<1> QED
  BY <1>1, Invariance, PTL

\* What the application gets never goes back in the stream, through both queues
\* and every change of the tuner, the filter and the service, and once a SetChannel
\* has answered TRUE nothing that was read before it is on the way: but for the
\* packets, two at most and only with TSSYNC, that TsSync held back at the last
\* flush.
THEOREM StreamInOrder == Spec => []FreshAndInOrder
<1>1. IInv => FreshAndInOrder
  <2> SUFFICES ASSUME IInv PROVE FreshAndInOrder
    OBVIOUS
  <2> DEFINE one == <<out, Waiting>>
             end == <<buf>>
             w1 == m_fifoTS \o one
             w2 == w1 \o m_fifoRawTS
             way == w2 \o end
  <2>1. /\ Stages(m_fifoTS, out, Waiting, m_fifoRawTS, buf, units) /\ Older({got}, Fresh)
        /\ ctl # "flush" => \A p \in Fresh : p[1] = epoch
    BY DEF IInv, Flows
  <2>2. /\ out \in Seq(Units) /\ Waiting \in Seq(Units) /\ buf \in Seq(Units)
        /\ m_fifoTS \in Seq(FullBuffers) /\ m_fifoRawTS \in Seq(FullBuffers)
        /\ Ordered(m_fifoTS, out, Waiting, m_fifoRawTS, buf)
    BY <2>1 DEF Stages, Sized
  <2>3. m_fifoTS \in Lines /\ m_fifoRawTS \in Lines
    <3>1. FullBuffers \subseteq Seq(Units)
      BY DEF FullBuffers
    <3>2. Seq(FullBuffers) \subseteq Lines
      BY <3>1, SeqMonotonic DEF Lines
    <3> QED
      BY <2>2, <3>2
  <2>4. one \in Lines /\ end \in Lines /\ <<out>> \in Lines /\ <<Waiting>> \in Lines
    BY <2>2 DEF Lines
  <2>5. All(one) = Packs(out) \cup Packs(Waiting) /\ Ascending(one)
    <3> DEFINE x == <<out>>
               y == <<Waiting>>
    <3>1. one = x \o y /\ x \in Lines /\ y \in Lines
      BY <2>4
    <3>2. /\ All(x) = Packs(out) /\ All(y) = Packs(Waiting)
          /\ Ascending(x) /\ Ascending(y) /\ Older(Packs(out), Packs(Waiting))
      BY <2>2, OneBuffer DEF Ordered, Older
    <3> HIDE DEF one, x, y
    <3>3. Ascending(one) /\ All(one) = All(x) \cup All(y)
      BY <3>1, <3>2, Joined
    <3> QED
      BY <3>2, <3>3
  <2>6. All(end) = Packs(buf) /\ Ascending(end)
    BY <2>2, OneBuffer DEF Ordered
  <2> HIDE DEF one, end
  <2>7. w1 \in Lines /\ Ascending(w1) /\ All(w1) = All(m_fifoTS) \cup Packs(out) \cup Packs(Waiting)
    <3>1. Older(All(m_fifoTS), All(one)) /\ Ascending(m_fifoTS)
      BY <2>2, <2>5 DEF Ordered, Older
    <3>2. w1 \in Lines /\ Ascending(w1) /\ All(w1) = All(m_fifoTS) \cup All(one)
      BY <2>3, <2>4, <2>5, <3>1, Joined
    <3> QED
      BY <2>5, <3>2
  <2> HIDE DEF w1
  <2>8. w2 \in Lines /\ Ascending(w2) /\ All(w2) = All(w1) \cup All(m_fifoRawTS)
    <3>1. Older(All(w1), All(m_fifoRawTS)) /\ Ascending(m_fifoRawTS)
      BY <2>2, <2>7 DEF Ordered, Older
    <3> QED
      BY <2>3, <2>7, <3>1, Joined
  <2> HIDE DEF w2
  <2>9. way \in Lines /\ Ascending(way) /\ All(way) = All(w2) \cup Packs(buf)
    <3>1. Older(All(w2), All(end))
      BY <2>2, <2>6, <2>7, <2>8 DEF Ordered, Older
    <3>2. way \in Lines /\ Ascending(way) /\ All(way) = All(w2) \cup All(end)
      <4>1. way = w2 \o end
        OBVIOUS
      <4> HIDE DEF way
      <4> QED
        BY <2>4, <2>6, <2>8, <3>1, <4>1, Joined
    <3> QED
      BY <2>6, <3>2
  <2> HIDE DEF way
  <2>10. All(way) = OnTheWay
    BY <2>7, <2>8, <2>9 DEF Way, OnTheWay
  <2>11. ASSUME NEW k \in 1..Len(way), NEW i \in 1..Len(way[k]),
                \A h \in 1..Len(held) : way[k][i] # held[h]
         PROVE  /\ got[2] < way[k][i][2]
                /\ promise # None /\ ctl = "idle" => way[k][i][1] = epoch
    <3>1. way[k][i] \in All(way)
      BY DEF All, Packs
    <3>2. way[k][i] \in Fresh
      BY <2>10, <2>11, <3>1 DEF Fresh, Packs
    <3> QED
      BY <2>1, <3>2 DEF Older
  <2>12. way = m_fifoTS \o <<out, Waiting>> \o m_fifoRawTS \o <<buf>>
    BY DEF way, w2, w1, one, end
  <2> QED
    BY <2>9, <2>11, <2>12 DEF FreshAndInOrder
<1> QED
  BY <1>1, Invariance, PTL
=============================================================================
