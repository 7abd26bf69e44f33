---------------------------- MODULE ServiceProofs ----------------------------
(* Theorems about Service and the Shutdown it runs, for every value of      *)
(* their constants.                                                         *)
EXTENDS Service, TLAPS

Critical == {"handle", "select", "release"}
Threads == {"none", "new", "start", "wait", "command", "handle", "select", "join", "delete", "release"}

-----------------------------------------------------------------------------
(* Shutdown                                                                 *)

ShutdownTypes ==
  /\ ui \in {"idle", "lock", "joinListener", "count", "reset", "cleanUp", "restart", "exited"}
  /\ goal \in {"none", "reload", "exit"}
  /\ listener \in {"check", "select", "spawn", "delete", "ended", "none"}
  /\ accepted \in Instances \cup {Free}
  /\ thread \in [Instances -> Threads]
  /\ g_Lock \in Instances \cup {"ui", Free}
  /\ g_InstanceList \subseteq Instances /\ m_Error \subseteq Instances
  /\ late \subseteq m_hModule /\ m_hModule \subseteq Instances

\* Who holds g_Lock is in a critical section, and nobody else.
Locked ==
  /\ g_Lock = "ui" <=> ui = "joinListener"
  /\ \A i \in Instances : g_Lock = i <=> thread[i] \in Critical

\* The instance that the Listen thread has just made is its own.
Accepting ==
  listener \in {"spawn", "delete"} => accepted \in Instances /\ thread[accepted] = "new"

\* An instance that has selected a driver is on the list or in its destructor.
\* So none is left once the list was seen empty under g_Lock, but for those that
\* select later; and the Listen thread is gone by then.
Going ==
  /\ \A i \in m_hModule : i \in g_InstanceList \/ thread[i] = "release"
  /\ AfterCount => m_hModule \subseteq late
  /\ ui = "count" \/ AfterCount => listener = "none"

Server == ShutdownTypes /\ Locked /\ Accepting /\ Going

LEMMA BeginKeeps ==
  ASSUME Server, NEW why \in {"reload", "exit"}, Begin(why) PROVE Server'
BY DEF Server, ShutdownTypes, Locked, Accepting, Going, AfterCount, Begin, listenVars, Critical

LEMMA UiKeeps ==
  ASSUME Server, UiStep \/ Exited PROVE Server'
<1> USE DEF Server, ShutdownTypes, Locked, Accepting, Going, AfterCount, listenVars, instances, drivers, Critical
<1>1. CASE LockForListener
  BY <1>1, FreeAssumption DEF LockForListener
<1>2. CASE JoinListener
  BY <1>2, FreeAssumption DEF JoinListener
<1>3. CASE CountInstances
  <2>1. /\ ui = "count" /\ g_Lock = Free /\ UNCHANGED <<goal, listenVars, instances, g_Lock>>
        /\ ui' = "count" \/ (ui' = "reset" /\ g_InstanceList = {})
    BY <1>3 DEF CountInstances
  <2>2. \A i \in Instances : thread[i] # "release"
    BY <2>1, FreeAssumption
  <2>3. g_InstanceList = {} => m_hModule = {}
    BY <2>2
  <2> QED
    BY <2>1, <2>3
<1>4. CASE ResetEvent \/ CleanUp
  BY <1>4 DEF ResetEvent, CleanUp
<1>5. CASE Restart
  BY <1>5 DEF Restart
<1>6. CASE Exited
  BY <1>6 DEF Exited, vars
<1> QED
  BY <1>1, <1>2, <1>3, <1>4, <1>5, <1>6 DEF UiStep

LEMMA ListenKeeps ==
  ASSUME Server, ListenStep \/ \E i \in Instances : ListenAccept(i) PROVE Server'
<1> USE DEF Server, ShutdownTypes, Locked, Accepting, Going, AfterCount, uiVars, instances, drivers, Critical, Threads
<1>1. CASE ListenCheck
  BY <1>1 DEF ListenCheck
<1>2. CASE ListenTimeout
  BY <1>2 DEF ListenTimeout
<1>3. ASSUME NEW i \in Instances, ListenAccept(i) PROVE Server'
  BY <1>3 DEF ListenAccept
<1>4. CASE ListenSpawn
  BY <1>4 DEF ListenSpawn
<1>5. CASE ListenDelete
  BY <1>5 DEF ListenDelete
<1> QED
  BY <1>1, <1>2, <1>3, <1>4, <1>5 DEF ListenStep

LEMMA ConnectionKeeps ==
  ASSUME Server, NEW i \in Instances, ConnectionStep(i) \/ WaitCommand(i) \/ Disconnect(i)
  PROVE  Server'
<1> USE DEF Server, ShutdownTypes, Locked, Accepting, Going, AfterCount, uiVars, listenVars, drivers, Critical, Threads
<1>1. CASE ProcessStart(i)
  BY <1>1 DEF ProcessStart
<1>2. CASE WaitEnd(i) \/ WaitCommand(i)
  BY <1>2 DEF WaitEnd, WaitCommand
<1>3. CASE LockCommand(i)
  BY <1>3, FreeAssumption DEF LockCommand
<1>4. CASE EndCommand(i)
  BY <1>4, FreeAssumption DEF EndCommand
<1>5. CASE JoinThreads(i)
  BY <1>5 DEF JoinThreads
<1>6. CASE DestructorUnlist(i)
  BY <1>6, FreeAssumption DEF DestructorUnlist
<1>7. CASE DestructorRelease(i)
  BY <1>7, FreeAssumption DEF DestructorRelease
<1>8. CASE Disconnect(i)
  BY <1>8 DEF Disconnect
<1> QED
  BY <1>1, <1>2, <1>3, <1>4, <1>5, <1>6, <1>7, <1>8 DEF ConnectionStep

-----------------------------------------------------------------------------
(* ServiceMain, the handler and the SCM                                     *)

ServiceTypes ==
  /\ build \in Builds
  /\ main \in {"none", "start", "init", "running", "runningHint", "runningReport", "wait",
               "shutdown", "close", "stopped", "stoppedHint", "stoppedReport", "done"}
  /\ handler \in {"idle", "check", "state", "hint", "report", "signal"}
  /\ hServerStopEvent \in {"NULL", "unset", "set"}
  /\ serviceStatus \in [state : States, hint : 0..HintPolls]
  /\ scm \in [state : States, hint : 0..HintPolls]
  /\ control \in {"idle", "start", "startPoll", "stop", "stopSent", "stopPoll"}
  /\ command \in {"none", "start", "stop", "restart"}
  /\ waited \in 0..HintPolls /\ commands \in 0..MaxCommands

\* Only the service has a ServiceMain, and something to control.
OnlyService == build # "service" => main = "none" /\ control = "idle"

\* How far the server is follows from where ServiceMain is: no listener before it
\* is started, no shutdown before the stop event, and at the end it was shut down
\* or has never served anybody.
Unused == m_hModule = {} /\ thread = [i \in Instances |-> "none"]
Ended == (ui = "exited" \/ (ui = "idle" /\ Unused)) /\ listener = "none"

Follows ==
  build = "service" =>
    /\ main \in {"none", "start", "init"} => ui = "idle" /\ listener = "none" /\ Unused
    /\ main \in {"running", "runningHint", "runningReport", "wait"} => ui = "idle"
    /\ main \in {"close", "stopped", "stoppedHint", "stoppedReport", "done"} => Ended

\* STOPPED is written and shown only at the end; before ServiceMain registers its
\* handler nothing calls that.
Shown ==
  /\ serviceStatus.state = "STOPPED" => main \in {"none", "start", "stoppedHint", "stoppedReport", "done"}
  /\ scm.state = "STOPPED" => main \in {"none", "stoppedHint", "stoppedReport", "done"}
  /\ main \in {"none", "start"} => handler = "idle"

Serving == Server /\ ServiceTypes /\ OnlyService /\ Follows /\ Shown

LEMMA UnusedOnly == UNCHANGED instances => (Unused' <=> Unused)
BY DEF Unused, instances, drivers

LEMMA StatusIs ==
  /\ Stopped.state = "STOPPED" /\ Status("START_PENDING", HintPolls).state = "START_PENDING"
  /\ {Stopped, Status("START_PENDING", HintPolls)} \subseteq [state : States, hint : 0..HintPolls]
BY BoundAssumption DEF Stopped, Status, States

LEMMA ServingInit == ServiceInit => Serving
<1> SUFFICES ASSUME ServiceInit PROVE Serving
  OBVIOUS
<1>1. /\ build \in Builds /\ ui = "idle" /\ goal = "none" /\ accepted = Free
      /\ listener = (IF build = "service" THEN "none" ELSE "check")
      /\ thread = [i \in Instances |-> "none"] /\ g_Lock = Free
      /\ g_InstanceList = {} /\ m_Error = {} /\ m_hModule = {} /\ late = {}
      /\ main = "none" /\ handler = "idle" /\ hServerStopEvent = "NULL"
      /\ serviceStatus = Stopped /\ scm = Stopped
      /\ control = "idle" /\ command = "none" /\ waited = 0 /\ commands = 0
  BY DEF ServiceInit
<1>2. Server
  BY <1>1, FreeAssumption DEF Server, ShutdownTypes, Locked, Accepting, Going, AfterCount, Critical, Threads
<1>3. ServiceTypes
  BY <1>1, StatusIs, BoundAssumption DEF ServiceTypes
<1>4. OnlyService /\ Follows /\ Shown
  BY <1>1 DEF OnlyService, Follows, Unused, Shown
<1> QED
  BY <1>2, <1>3, <1>4 DEF Serving

\* Shutdown's own steps.
LEMMA ShutdownStepKeeps ==
  ASSUME Serving, UNCHANGED serviceVars,
         \/ build = "ui" /\ \E why \in {"reload", "exit"} : Begin(why)
         \/ UiStep \/ Exited \/ ListenStep
         \/ \E i \in InstancesOf[build] : ListenAccept(i)
         \/ \E i \in InstancesOf[build] : ConnectionStep(i) \/ WaitCommand(i) \/ Disconnect(i)
  PROVE  Serving'
<1>1. InstancesOf[build] \subseteq Instances
  BY BuildAssumption DEF Serving, ServiceTypes
<1>2. Server'
  BY <1>1, BeginKeeps, UiKeeps, ListenKeeps, ConnectionKeeps DEF Serving
<1>3. ServiceTypes' /\ OnlyService' /\ Shown'
  BY DEF Serving, ServiceTypes, OnlyService, Shown, serviceVars, serviceMain, controlVars
<1>4. build' = build /\ main' = main
  BY DEF serviceVars, serviceMain
<1>5. ASSUME build = "service" PROVE (ui = "idle" => ui' = "idle") /\ (ui = "exited" => ui' = "exited")
                                     /\ (listener = "none" => listener' = "none" \/ ui = "restart")
                                     /\ (listener = "none" /\ ui = "idle" /\ Unused => Unused')
  <2> USE <1>5 DEF uiVars, listenVars, instances, drivers, Unused
  <2>1. CASE UiStep
    BY <2>1 DEF UiStep, LockForListener, JoinListener, CountInstances, ResetEvent, CleanUp, Restart
  <2>2. CASE Exited
    BY <2>2 DEF Exited, vars
  <2>3. CASE ListenStep
    BY <2>3 DEF ListenStep, ListenCheck, ListenTimeout, ListenSpawn, ListenDelete
  <2>4. ASSUME NEW i \in InstancesOf[build], ListenAccept(i)
        PROVE  (ui' = ui) /\ listener # "none"
    BY <2>4 DEF ListenAccept
  <2>5. ASSUME NEW i \in InstancesOf[build], ConnectionStep(i) \/ WaitCommand(i) \/ Disconnect(i)
        PROVE  UNCHANGED <<ui, listener>> /\ ~Unused
    <3>1. UNCHANGED <<ui, listener>> /\ thread[i] # "none"
      BY <2>5 DEF ConnectionStep, ProcessStart, WaitEnd, LockCommand, EndCommand, JoinThreads,
                  DestructorUnlist, DestructorRelease, WaitCommand, Disconnect
    <3> QED
      BY <1>1, <3>1
  <2> QED
    BY <2>1, <2>2, <2>3, <2>4, <2>5
<1>6. Follows'
  BY <1>4, <1>5 DEF Serving, Follows, Ended
<1> QED
  BY <1>2, <1>3, <1>6 DEF Serving

\* Server says nothing of the event.
LEMMA ServerOnly ==
  ASSUME Server, UNCHANGED <<uiVars, listenVars, instances, g_Lock>> PROVE Server'
BY DEF Server, ShutdownTypes, Locked, Accepting, Going, AfterCount, uiVars, listenVars, instances, drivers

LEMMA ConsoleKeeps ==
  ASSUME Serving, CtrlC \/ ConsoleEnd PROVE Serving'
<1>1. Server'
  BY ServerOnly, BeginKeeps DEF Serving, CtrlC, ConsoleEnd
<1>2. UNCHANGED serviceVars /\ build = "console"
  BY DEF CtrlC, ConsoleEnd
<1> QED
  BY <1>1, <1>2 DEF Serving, ServiceTypes, OnlyService, Follows, Shown, serviceVars, serviceMain, controlVars

LEMMA MainKeeps ==
  ASSUME Serving, MainStep PROVE Serving'
<1> USE DEF Serving, ServiceTypes, OnlyService, Follows, Ended, Shown, controlVars
<1>1. build = "service"
  BY DEF MainStep, RegisterService, RegisterFails, Registered, MainInit, MainRunning, MainWake,
         MainShutdown, MainStopped, MainGoes
<1>2. UNCHANGED vars => Server'
  BY ServerOnly DEF vars, uiVars, listenVars, instances, drivers
<1>3. ASSUME UNCHANGED vars, UNCHANGED <<build, handler, controlVars>>, Server',
             main' \in {"running", "runningHint", "runningReport", "wait"} => ui = "idle",
             main' \in {"close", "stopped", "stoppedHint", "stoppedReport", "done"} => Ended,
             main' \in {"none", "start", "init"} => ui = "idle" /\ listener = "none" /\ Unused /\ handler = "idle",
             main' \in {"init", "running", "runningHint", "runningReport", "wait", "shutdown", "close",
                       "stopped", "stoppedHint", "stoppedReport", "done"},
             hServerStopEvent' \in {"NULL", "unset", "set"},
             serviceStatus' \in [state : States, hint : 0..HintPolls],
             scm' \in [state : States, hint : 0..HintPolls],
             serviceStatus'.state = "STOPPED" => main' \in {"start", "stoppedHint", "stoppedReport", "done"},
             scm'.state = "STOPPED" => main' \in {"stoppedHint", "stoppedReport", "done"}
      PROVE  Serving'
  BY <1>1, <1>3, UnusedOnly DEF vars, instances, drivers
<1>4. CASE RegisterService
  <2>1. /\ main = "start" /\ main' = "init" /\ hServerStopEvent' = "unset" /\ UNCHANGED vars
        /\ serviceStatus' = Status("START_PENDING", HintPolls) /\ scm' = serviceStatus'
        /\ UNCHANGED <<build, handler, controlVars>>
    BY <1>4 DEF RegisterService, Registered
  <2>2. handler = "idle" /\ ui = "idle" /\ listener = "none" /\ Unused
    BY <1>1, <2>1
  <2>3. /\ serviceStatus' \in [state : States, hint : 0..HintPolls]
        /\ serviceStatus'.state = "START_PENDING"
    BY <2>1, StatusIs
  <2> QED
    BY <1>2, <1>3, <2>1, <2>2, <2>3
<1>5. CASE RegisterFails
  <2>1. /\ main = "start" /\ main' = "done" /\ UNCHANGED <<vars, hServerStopEvent, serviceStatus>>
        /\ scm' = Stopped /\ UNCHANGED <<build, handler, controlVars>>
    BY <1>5 DEF RegisterFails, Registered
  <2>2. Ended
    BY <1>1, <2>1
  <2>3. scm' \in [state : States, hint : 0..HintPolls]
    BY <2>1, StatusIs
  <2> QED
    BY <1>2, <1>3, <2>1, <2>2, <2>3
<1>6. CASE MainInit
  <2>1. /\ main = "init" /\ UNCHANGED <<uiVars, accepted, instances, g_Lock>>
        /\ UNCHANGED <<build, hServerStopEvent, serviceStatus, handler, scm, controlVars>>
        /\ \/ main' = "close" /\ UNCHANGED listener
           \/ main' = "running" /\ listener' = "check"
    BY <1>6 DEF MainInit
  <2>2. ui = "idle" /\ listener = "none" /\ Unused
    BY <1>1, <2>1
  <2>3. Server'
    BY <2>1, <2>2 DEF Server, ShutdownTypes, Locked, Accepting, Going, AfterCount, uiVars, instances, drivers
  <2> QED
    BY <1>1, <2>1, <2>2, <2>3, UnusedOnly DEF uiVars
<1>7. CASE MainRunning
  <2>1. /\ UNCHANGED <<vars, hServerStopEvent>> /\ UNCHANGED <<build, handler, controlVars>>
        /\ main \in {"running", "runningHint", "runningReport"}
        /\ main' \in {"runningHint", "runningReport", "wait"}
        /\ \/ UNCHANGED scm /\ serviceStatus' = [serviceStatus EXCEPT !.state = "RUNNING"]
           \/ UNCHANGED scm /\ serviceStatus' = [serviceStatus EXCEPT !.hint = 0]
           \/ scm' = serviceStatus /\ UNCHANGED serviceStatus
    BY <1>7 DEF MainRunning, MainGoes, SetState, SetHint
  <2>2. ui = "idle" /\ serviceStatus.state # "STOPPED" /\ scm.state # "STOPPED"
    BY <1>1, <2>1
  <2>3. /\ serviceStatus' \in [state : States, hint : 0..HintPolls]
        /\ serviceStatus'.state # "STOPPED" /\ scm'.state # "STOPPED"
        /\ scm' \in [state : States, hint : 0..HintPolls]
    BY <2>1, <2>2, BoundAssumption DEF States
  <2> QED
    BY <1>2, <1>3, <2>1, <2>2, <2>3
<1>8. CASE MainWake
  <2>1. /\ main = "wait" /\ main' = "shutdown" /\ Begin("exit")
        /\ UNCHANGED <<build, hServerStopEvent, serviceStatus, handler, scm, controlVars>>
    BY <1>8 DEF MainWake
  <2>2. Server'
    BY <2>1, BeginKeeps
  <2> QED
    BY <2>1, <2>2
<1>9. CASE MainShutdown
  <2>1. /\ main = "shutdown" /\ main' = "close" /\ ui = "exited"
        /\ UNCHANGED <<vars, hServerStopEvent, serviceStatus, scm>>
        /\ UNCHANGED <<build, handler, controlVars>>
    BY <1>9 DEF MainShutdown, MainGoes
  <2>2. Ended
    BY <2>1 DEF Server, Going, AfterCount
  <2> QED
    BY <1>2, <1>3, <2>1, <2>2
<1>10. CASE MainStopped
  <2>1. /\ UNCHANGED vars /\ UNCHANGED <<build, handler, controlVars>>
        /\ main \in {"close", "stopped", "stoppedHint", "stoppedReport"}
        /\ hServerStopEvent' \in {"NULL", hServerStopEvent}
        /\ \/ main' = "stopped" /\ main = "close" /\ UNCHANGED <<serviceStatus, scm>>
           \/ /\ main' = "stoppedHint" /\ UNCHANGED scm
              /\ serviceStatus' = [serviceStatus EXCEPT !.state = "STOPPED"]
           \/ /\ main' = "stoppedReport" /\ UNCHANGED scm /\ main = "stoppedHint"
              /\ serviceStatus' = [serviceStatus EXCEPT !.hint = 0]
           \/ main' = "done" /\ scm' = serviceStatus /\ UNCHANGED serviceStatus
    BY <1>10 DEF MainStopped, MainGoes, SetState, SetHint
  <2>2. Ended
    BY <1>1, <2>1
  <2>3. /\ serviceStatus' \in [state : States, hint : 0..HintPolls]
        /\ scm' \in [state : States, hint : 0..HintPolls]
    BY <2>1, BoundAssumption DEF States
  <2>4. /\ serviceStatus'.state = "STOPPED" => main' \in {"stoppedHint", "stoppedReport", "done"}
        /\ scm'.state = "STOPPED" => main' \in {"stoppedHint", "stoppedReport", "done"}
    BY <2>1
  <2> QED
    BY <1>2, <1>3, <2>1, <2>2, <2>3, <2>4
<1> QED
  BY <1>4, <1>5, <1>6, <1>7, <1>8, <1>9, <1>10 DEF MainStep

LEMMA HandlerKeeps ==
  ASSUME Serving, HandlerStop \/ HandlerInterrogate PROVE Serving'
<1> USE DEF Serving, ServiceTypes, OnlyService, Follows, Ended, Shown, controlVars
<1>1. UNCHANGED vars /\ UNCHANGED <<build, main, controlVars>>
  BY DEF HandlerStop, HandlerInterrogate, HandlerGoes, HandlerSignal
<1>2. Server'
  BY <1>1, ServerOnly DEF vars, uiVars, listenVars, instances, drivers
<1>3. /\ handler' \in {"idle", "check", "state", "hint", "report", "signal"}
      /\ hServerStopEvent' \in {"NULL", "unset", "set"}
      /\ handler # "idle" \/ main \notin {"none", "start", "done"}
      /\ handler = "idle" => handler' = "idle"
      /\ \/ UNCHANGED <<serviceStatus, scm>>
         \/ UNCHANGED scm /\ serviceStatus' = [serviceStatus EXCEPT !.state = "STOP_PENDING"]
         \/ UNCHANGED scm /\ serviceStatus' = [serviceStatus EXCEPT !.hint = HintPolls]
         \/ UNCHANGED serviceStatus /\ scm' = serviceStatus
  BY DEF HandlerStop, HandlerInterrogate, HandlerGoes, HandlerSignal, SetState, SetHint
<1>4. /\ serviceStatus' \in [state : States, hint : 0..HintPolls]
      /\ scm' \in [state : States, hint : 0..HintPolls]
  BY <1>3, BoundAssumption DEF States
<1>5. /\ serviceStatus'.state = "STOPPED" => serviceStatus.state = "STOPPED"
      /\ scm'.state = "STOPPED" => scm.state = "STOPPED" \/ serviceStatus.state = "STOPPED"
  BY <1>3
<1>6. main \notin {"none", "start"}
  BY <1>3
<1> QED
  BY <1>1, <1>2, <1>3, <1>4, <1>5, <1>6, UnusedOnly DEF vars, instances, drivers

LEMMA ControlKeeps ==
  ASSUME Serving,
         (\E what \in {"start", "stop", "restart"} : Command(what)) \/ ControlStep
  PROVE  Serving'
<1> USE DEF Serving, ServiceTypes, OnlyService, Follows, Ended, Shown
<1>1. UNCHANGED vars => Server'
  BY ServerOnly DEF vars, uiVars, listenVars, instances, drivers
<1>2. ASSUME UNCHANGED vars, UNCHANGED <<build, serviceMain, scm>>,
             handler' = handler \/ (handler' = "check" /\ main \notin {"none", "start"}),
             control' \in {"idle", "start", "startPoll", "stop", "stopSent", "stopPoll"},
             build # "service" => control' = "idle",
             command' \in {"none", "start", "stop", "restart"},
             waited' \in 0..HintPolls, commands' \in 0..MaxCommands
      PROVE  Serving'
  BY <1>1, <1>2, UnusedOnly DEF vars, serviceMain, instances, drivers
<1>3. ASSUME NEW what \in {"start", "stop", "restart"}, Command(what) PROVE Serving'
  <2>1. /\ UNCHANGED vars /\ UNCHANGED <<build, serviceMain, scm, handler, waited>>
        /\ build = "service" /\ control' \in {"start", "stop"} /\ command' = what
        /\ commands < MaxCommands /\ commands' = commands + 1
    BY <1>3 DEF Command
  <2>2. commands' \in 0..MaxCommands
    BY <2>1, BoundAssumption
  <2> QED
    BY <1>2, <2>1, <2>2
<1>4. build = "service" \/ ~ControlStep
  BY DEF ControlStep, Start, Stop, StopSent, Poll, Control, Answered
<1>5. CASE Start
  <2>1. CASE scm.state # "STOPPED"
    <3>1. /\ UNCHANGED vars /\ UNCHANGED <<build, serviceMain, scm, handler, commands>>
          /\ control' = "idle" /\ command' = "none" /\ waited' = 0
      BY <1>5, <2>1 DEF Start, Answered, Control
    <3> QED
      BY <1>2, <3>1, BoundAssumption
  <2>2. CASE scm.state = "STOPPED"
    <3>1. /\ UNCHANGED <<build, commands, command, waited>> /\ control' = "startPoll"
          /\ scm' = Status("START_PENDING", HintPolls)
          /\ main' = "start" /\ handler' = "idle" /\ hServerStopEvent' = "NULL" /\ serviceStatus' = Stopped
          /\ ui' = "idle" /\ goal' = "none" /\ listener' = "none" /\ accepted' = Free
          /\ thread' = [i \in Instances |-> "none"] /\ g_Lock' = Free
          /\ g_InstanceList' = {} /\ m_Error' = {} /\ m_hModule' = {} /\ late' = {}
      BY <1>5, <2>2 DEF Start, Control
    <3>2. Server'
      BY <3>1, FreeAssumption DEF Server, ShutdownTypes, Locked, Accepting, Going, AfterCount, Critical, Threads
    <3>3. /\ serviceStatus' \in [state : States, hint : 0..HintPolls]
          /\ scm' \in [state : States, hint : 0..HintPolls] /\ scm'.state # "STOPPED"
      BY <3>1, StatusIs
    <3>4. ControlStep
      BY <1>5 DEF ControlStep
    <3>5. ServiceTypes'
      BY <3>1, <3>3
    <3>6. OnlyService' /\ Follows' /\ Shown'
      BY <1>4, <3>1, <3>3, <3>4 DEF Unused
    <3> QED
      BY <3>2, <3>5, <3>6
  <2> QED
    BY <2>1, <2>2
<1>6. CASE Stop
  <2>1. /\ UNCHANGED vars /\ UNCHANGED <<build, serviceMain, scm, commands>>
        /\ handler' = handler \/ (handler' = "check" /\ main \notin {"none", "start"})
        /\ control' \in {"idle", "start", "stopSent"} /\ command' \in {command, "none"}
        /\ waited' \in {waited, 0}
    BY <1>6 DEF Stop, Answered, Control
  <2>2. build = "service" /\ waited' \in 0..HintPolls
    BY <1>4, <1>6, <2>1, BoundAssumption DEF ControlStep
  <2> QED
    BY <1>2, <2>1, <2>2
<1>7. CASE StopSent
  <2>1. /\ UNCHANGED vars /\ UNCHANGED <<build, serviceMain, scm, commands, handler, command, waited>>
        /\ control' = "stopPoll"
    BY <1>7 DEF StopSent, Control
  <2>2. build = "service"
    BY <1>4, <1>7 DEF ControlStep
  <2> QED
    BY <1>2, <2>1, <2>2
<1>8. CASE Poll
  <2>1. /\ UNCHANGED vars /\ UNCHANGED <<build, serviceMain, scm, commands, handler>>
        /\ control' \in {"idle", "start", control} /\ command' \in {command, "none"}
        /\ waited' \in {waited, 0} \/ (~(waited >= scm.hint) /\ waited' = waited + 1)
    BY <1>8 DEF Poll, Answered, Control
  <2>2. build = "service"
    BY <1>4, <1>8 DEF ControlStep
  <2>3. waited' \in 0..HintPolls
    <3>1. scm.hint \in 0..HintPolls /\ waited \in 0..HintPolls /\ HintPolls \in Nat
      BY BoundAssumption
    <3> QED
      BY <2>1, <3>1
  <2> QED
    BY <1>2, <2>1, <2>2, <2>3
<1> QED
  BY <1>3, <1>5, <1>6, <1>7, <1>8 DEF ControlStep

LEMMA ServingStep == Serving /\ [ServiceNext]_allVars => Serving'
<1> SUFFICES ASSUME Serving, [ServiceNext]_allVars PROVE Serving'
  OBVIOUS
<1>1. CASE UNCHANGED allVars
  <2>1. UNCHANGED vars /\ UNCHANGED serviceVars
    BY <1>1 DEF allVars
  <2>2. Server'
    BY <2>1, ServerOnly DEF Serving, vars, uiVars, listenVars, instances, drivers
  <2> QED
    BY <2>1, <2>2, UnusedOnly DEF Serving, ServiceTypes, OnlyService, Follows, Ended, Shown, vars, instances, drivers, serviceVars,
                      serviceMain, controlVars
<1>2. CASE ServiceNext
  BY <1>2, ShutdownStepKeeps, ConsoleKeeps, MainKeeps, HandlerKeeps, ControlKeeps DEF ServiceNext
<1> QED
  BY <1>1, <1>2

LEMMA ServingInvariant == ServiceSpec => []Serving
<1> QED
  BY ServingInit, ServingStep, PTL DEF ServiceSpec

-----------------------------------------------------------------------------
(* The theorems                                                             *)

EventType == g_ShutdownEvent \in BOOLEAN

LEMMA EventInvariant == ServiceSpec => []EventType
<1>1. ServiceInit => EventType
  BY Zenon DEF ServiceInit, EventType
<1>2. EventType /\ [ServiceNext]_allVars => EventType'
  <2> SUFFICES ASSUME g_ShutdownEvent \in BOOLEAN, [ServiceNext]_allVars
               PROVE  g_ShutdownEvent' = g_ShutdownEvent \/ g_ShutdownEvent' \in {TRUE, FALSE}
    BY Zenon DEF EventType
  <2> USE DEF vars, uiVars, listenVars, instances
  <2>1. CASE UNCHANGED allVars
    BY <2>1 DEF allVars
  <2>2. CASE UiStep \/ Exited
    BY <2>2 DEF UiStep, LockForListener, JoinListener, CountInstances, ResetEvent, CleanUp, Restart, Exited
  <2>3. CASE ListenStep
    BY <2>3 DEF ListenStep, ListenCheck, ListenTimeout, ListenSpawn, ListenDelete
  <2>4. ASSUME NEW i, ListenAccept(i) \/ ConnectionStep(i) \/ WaitCommand(i) \/ Disconnect(i)
        PROVE  g_ShutdownEvent' = g_ShutdownEvent
    BY <2>4 DEF ListenAccept, ConnectionStep, ProcessStart, WaitEnd, LockCommand, EndCommand, JoinThreads,
                DestructorUnlist, DestructorRelease, WaitCommand, Disconnect
  <2>5. ASSUME NEW why, Begin(why) PROVE g_ShutdownEvent' \in {TRUE, FALSE}
    BY <2>5 DEF Begin
  <2>6. CASE CtrlC \/ ConsoleEnd
    BY <2>5, <2>6 DEF CtrlC, ConsoleEnd
  <2>7. CASE MainStep
    BY <2>5, <2>7 DEF MainStep, RegisterService, RegisterFails, Registered, MainInit, MainRunning, MainWake,
                MainShutdown, MainStopped, MainGoes
  <2>8. CASE HandlerStop \/ HandlerInterrogate
    BY <2>8 DEF HandlerStop, HandlerInterrogate, HandlerGoes, HandlerSignal
  <2>9. CASE (\E what \in {"start", "stop", "restart"} : Command(what)) \/ ControlStep
    BY <2>9 DEF Command, ControlStep, Start, Stop, StopSent, Poll
  <2> QED
    BY <2>1, <2>2, <2>3, <2>4, <2>5, <2>6, <2>7, <2>8, <2>9 DEF ServiceNext
<1> QED
  BY <1>1, <1>2, PTL DEF ServiceSpec

\* Every variable of the three programs has its type, and g_Lock is held by
\* whoever is in a critical section, and by nobody else.
THEOREM ServiceTypeCorrect == ServiceSpec => []ServiceTypeOK
<1>1. Serving /\ EventType => ServiceTypeOK
  BY DEF EventType, Serving, Server, ShutdownTypes, Locked, Critical, Threads, ServiceTypes, ServiceTypeOK, TypeOK
<1> QED
  BY <1>1, ServingInvariant, EventInvariant, PTL

\* When the list has been seen empty no connection that was served a driver is
\* left, and neither is a driver or a listener in what is shown as stopped, but for
\* connections that select after the count: for any number of connections and
\* commands, and whatever fails.
THEOREM StoppedIsOver == ServiceSpec => []StoppedUsesNoDriver
<1>1. Serving => StoppedUsesNoDriver
  <2> SUFFICES ASSUME Serving PROVE StoppedUsesNoDriver
    OBVIOUS
  <2>1. CountedAreGone
    BY DEF Serving, Server, Going, CountedAreGone
  <2>2. ASSUME build = "service", scm.state = "STOPPED"
        PROVE  m_hModule \subseteq late /\ listener \in {"none", "ended"} /\ ui \in {"idle", "exited"}
    <3>1. listener = "none" /\ (ui = "exited" \/ (ui = "idle" /\ m_hModule = {}))
      BY <2>2 DEF Serving, Follows, Ended, Unused, Shown
    <3> QED
      BY <3>1 DEF Serving, Server, Going, AfterCount
  <2> QED
    BY <2>1, <2>2 DEF StoppedUsesNoDriver
<1> QED
  BY <1>1, ServingInvariant, PTL
=============================================================================
