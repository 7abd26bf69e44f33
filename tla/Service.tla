------------------------------- MODULE Service -------------------------------
(***************************************************************************)
(* The three programs the server is built as, around Shutdown: the one     *)
(* with a UI, the Windows service, and the same program at a console.  For *)
(* the service: ServiceMain, the control handler that the service control  *)
(* manager (SCM) calls, both with the one serviceStatus, and the program   *)
(* run again with "start", "stop" or "restart", which asks the SCM.  The   *)
(* UI thread of Shutdown is ServiceMain's thread, or the console's.        *)
(***************************************************************************)
EXTENDS Shutdown, Naturals

CONSTANTS
  InstancesOf,      \* bound: the connections that can exist, for each build
  HintPolls,        \* polls in a dwWaitHint (30000 ms / 500 ms)
  MaxCommands       \* bound: commands given to the control program

Builds == {"ui", "service", "console"}

ASSUME BuildAssumption == InstancesOf \in [Builds -> SUBSET Instances]
ASSUME BoundAssumption == HintPolls \in Nat \ {0} /\ MaxCommands \in Nat

VARIABLES
  build,
  main,             \* ServiceMain
  handler,          \* ServiceCtrlHandler with SERVICE_CONTROL_STOP
  hServerStopEvent, \* "NULL", "unset" or "set"
  serviceStatus,    \* dwCurrentState, and dwWaitHint in polls
  scm,              \* the status QueryServiceStatus gives (external)
  control, command, waited,        \* the control program
  commands

serviceMain == <<main, hServerStopEvent, serviceStatus>>
controlVars == <<control, command, waited, commands>>
serviceVars == <<build, serviceMain, handler, scm, controlVars>>
allVars == <<vars, serviceVars>>

Status(state, hint) == [state |-> state, hint |-> hint]
Stopped == Status("STOPPED", 0)

ServiceInit ==
  /\ build \in Builds
  /\ ui = "idle" /\ goal = "none" /\ accepted = Free
  /\ listener = IF build = "service" THEN "none" ELSE "check"
  /\ thread = [i \in Instances |-> "none"]
  /\ g_ShutdownEvent = FALSE /\ g_Lock = Free
  /\ g_InstanceList = {} /\ m_Error = {} /\ m_hModule = {} /\ late = {}
  /\ main = "none" /\ handler = "idle" /\ hServerStopEvent = "NULL"
  /\ serviceStatus = Stopped /\ scm = Stopped
  /\ control = "idle" /\ command = "none" /\ waited = 0 /\ commands = 0

-----------------------------------------------------------------------------
(* Console *)

\* HandlerRoutine
CtrlC ==
  /\ build = "console" /\ ui = "idle" /\ ~g_ShutdownEvent
  /\ g_ShutdownEvent' = TRUE
  /\ UNCHANGED <<uiVars, listenVars, instances, g_Lock, serviceVars>>

\* RunOnCmd: Listen() runs in this thread, and has returned.
ConsoleEnd ==
  /\ build = "console" /\ listener = "ended" /\ Begin("exit")
  /\ UNCHANGED serviceVars

-----------------------------------------------------------------------------
(* ServiceMain *)

Registered ==
  /\ build = "service" /\ main = "start"
  /\ UNCHANGED <<vars, build, handler, controlVars>>

\* Without an event or a handler ServiceMain returns, and the process ends.
RegisterFails ==
  /\ Registered
  /\ main' = "done" /\ scm' = Stopped
  /\ UNCHANGED <<hServerStopEvent, serviceStatus>>

RegisterService ==
  /\ Registered
  /\ main' = "init" /\ hServerStopEvent' = "unset"
  /\ serviceStatus' = Status("START_PENDING", HintPolls) /\ scm' = serviceStatus'

\* WSAStartup, Init or CreateThread fails, or the Listen thread runs.
MainInit ==
  /\ main = "init"
  /\ \/ main' = "close" /\ UNCHANGED listener
     \/ main' = "running" /\ listener' = "check"
  /\ UNCHANGED <<uiVars, accepted, instances, g_ShutdownEvent, g_Lock, build, hServerStopEvent,
                 serviceStatus, handler, scm, controlVars>>

\* One field of serviceStatus is written, by ServiceMain or by the handler.
SetState(state) == serviceStatus' = [serviceStatus EXCEPT !.state = state]
SetHint(hint) == serviceStatus' = [serviceStatus EXCEPT !.hint = hint]
MainGoes(from, to) ==
  /\ main = from /\ main' = to
  /\ UNCHANGED <<vars, build, handler, controlVars>>

\* ServiceRunning: RUNNING is written whatever the handler has written, then the
\* event is waited for.
MainRunning ==
  \/ MainGoes("running", "runningHint") /\ SetState("RUNNING") /\ UNCHANGED <<hServerStopEvent, scm>>
  \/ MainGoes("runningHint", "runningReport") /\ SetHint(0) /\ UNCHANGED <<hServerStopEvent, scm>>
  \/ /\ MainGoes("runningReport", "wait")
     /\ scm' = serviceStatus /\ UNCHANGED <<hServerStopEvent, serviceStatus>>

\* ShutdownInstances begins.
MainWake ==
  /\ main = "wait" /\ hServerStopEvent = "set"
  /\ Begin("exit") /\ main' = "shutdown"
  /\ UNCHANGED <<build, hServerStopEvent, serviceStatus, handler, scm, controlVars>>

\* ShutdownInstances and CleanUp are over.
MainShutdown ==
  /\ MainGoes("shutdown", "close") /\ ui = "exited"
  /\ UNCHANGED <<hServerStopEvent, serviceStatus, scm>>

\* ServiceStopped
MainStopped ==
  \/ MainGoes("close", "stopped") /\ hServerStopEvent' = "NULL" /\ UNCHANGED <<serviceStatus, scm>>
  \/ MainGoes("stopped", "stoppedHint") /\ SetState("STOPPED") /\ UNCHANGED <<hServerStopEvent, scm>>
  \/ MainGoes("stoppedHint", "stoppedReport") /\ SetHint(0) /\ UNCHANGED <<hServerStopEvent, scm>>
  \/ /\ MainGoes("stoppedReport", "done")
     /\ scm' = serviceStatus /\ UNCHANGED <<hServerStopEvent, serviceStatus>>

-----------------------------------------------------------------------------
(* ServiceCtrlHandler *)

HandlerGoes(from, to) ==
  /\ handler = from /\ handler' = to
  /\ UNCHANGED <<vars, build, main, controlVars>>

\* Mutant: the event is not set.
HandlerSignalForgotten ==
  HandlerGoes("signal", "idle") /\ UNCHANGED <<hServerStopEvent, serviceStatus, scm>>

\* SetEvent, on a handle that ServiceStopped may have closed meanwhile.
HandlerSignal ==
  /\ HandlerGoes("signal", "idle") /\ UNCHANGED <<serviceStatus, scm>>
  /\ hServerStopEvent' = IF hServerStopEvent = "NULL" THEN "NULL" ELSE "set"

\* STOP_PENDING is written and reported, then the event set.
HandlerStop ==
  \/ /\ HandlerGoes("check", IF hServerStopEvent = "NULL" THEN "idle" ELSE "state")
     /\ UNCHANGED <<hServerStopEvent, serviceStatus, scm>>
  \/ HandlerGoes("state", "hint") /\ SetState("STOP_PENDING") /\ UNCHANGED <<hServerStopEvent, scm>>
  \/ HandlerGoes("hint", "report") /\ SetHint(HintPolls) /\ UNCHANGED <<hServerStopEvent, scm>>
  \/ /\ HandlerGoes("report", "signal")
     /\ scm' = serviceStatus /\ UNCHANGED <<hServerStopEvent, serviceStatus>>
  \/ HandlerSignal

\* SERVICE_CONTROL_INTERROGATE
HandlerInterrogate ==
  /\ HandlerGoes("idle", "idle") /\ scm.state # "STOPPED" /\ main \notin {"none", "start", "done"}
  /\ scm' = serviceStatus /\ UNCHANGED <<hServerStopEvent, serviceStatus>>

-----------------------------------------------------------------------------
(* The control program *)

Control(from, to) ==
  /\ control = from /\ control' = to
  /\ UNCHANGED <<build, commands>>

Answered == Control(control, "idle") /\ command' = "none" /\ waited' = 0

\* "start", "stop" or "restart" on the command line.
Command(what) ==
  /\ build = "service" /\ control = "idle" /\ commands < MaxCommands
  /\ control' = IF what = "start" THEN "start" ELSE "stop"
  /\ command' = what /\ commands' = commands + 1
  /\ UNCHANGED <<vars, build, serviceMain, handler, scm, waited>>

\* Start: StartService runs a new process, if the service is stopped.
Start ==
  /\ control = "start"
  /\ IF scm.state = "STOPPED"
     THEN /\ Control("start", "startPoll") /\ UNCHANGED <<command, waited>>
          /\ scm' = Status("START_PENDING", HintPolls)
          /\ main' = "start" /\ handler' = "idle" /\ hServerStopEvent' = "NULL"
          /\ serviceStatus' = Stopped
          /\ ui' = "idle" /\ goal' = "none" /\ listener' = "none" /\ accepted' = Free
          /\ thread' = [i \in Instances |-> "none"]
          /\ g_ShutdownEvent' = FALSE /\ g_Lock' = Free
          /\ g_InstanceList' = {} /\ m_Error' = {} /\ m_hModule' = {} /\ late' = {}
     ELSE Answered /\ UNCHANGED <<vars, serviceMain, handler, scm>>

\* Stop: ControlService(STOP), which comes back when the handler does; the SCM
\* passes it on to a service that runs or says it takes STOP as it starts.
Stop ==
  /\ control = "stop"
  /\ \/ /\ scm.state \in {"RUNNING", "START_PENDING"} /\ main \notin {"none", "start", "done"}
        /\ handler = "idle" /\ handler' = "check"
        /\ Control("stop", "stopSent") /\ UNCHANGED <<command, waited>>
     \/ /\ scm.state # "RUNNING" /\ UNCHANGED handler
        /\ IF scm.state = "STOPPED" /\ command = "restart"
           THEN Control("stop", "start") /\ UNCHANGED <<command, waited>>
           ELSE Answered
  /\ UNCHANGED <<vars, serviceMain, scm>>

StopSent ==
  /\ Control("stopSent", "stopPoll") /\ handler = "idle"
  /\ UNCHANGED <<vars, serviceMain, handler, scm, command, waited>>

\* Both poll until the service is there or the hint it gives now is used up.
\* Restart goes on from Stop to Start, with a waited of its own.
Poll ==
  /\ control \in {"startPoll", "stopPoll"}
  /\ IF scm.state # (IF control = "startPoll" THEN "RUNNING" ELSE "STOPPED")
     THEN IF waited >= scm.hint THEN Answered
          ELSE Control(control, control) /\ waited' = waited + 1 /\ UNCHANGED command
     ELSE IF control = "stopPoll" /\ command = "restart"
          THEN Control(control, "start") /\ waited' = 0 /\ UNCHANGED command
          ELSE Answered
  /\ UNCHANGED <<vars, serviceMain, handler, scm>>

-----------------------------------------------------------------------------
MainStep == RegisterService \/ RegisterFails \/ MainInit \/ MainRunning \/ MainWake
              \/ MainShutdown \/ MainStopped
ControlStep == Start \/ Stop \/ StopSent \/ Poll

ServiceNext ==
  \/ /\ UNCHANGED serviceVars
     /\ \/ build = "ui" /\ \E why \in {"reload", "exit"} : Begin(why)
        \/ UiStep \/ Exited
        \/ ListenStep \/ \E i \in InstancesOf[build] : ListenAccept(i)
        \/ \E i \in InstancesOf[build] : ConnectionStep(i) \/ WaitCommand(i) \/ Disconnect(i)
  \/ CtrlC \/ ConsoleEnd
  \/ MainStep \/ HandlerStop \/ HandlerInterrogate
  \/ \E what \in {"start", "stop", "restart"} : Command(what)
  \/ ControlStep

\* Every thread of every process goes on (see Shutdown for g_Lock).
ServiceFairness ==
  /\ SF_allVars(UiStep /\ UNCHANGED serviceVars) /\ SF_allVars(ListenStep /\ UNCHANGED serviceVars)
  /\ \A i \in Instances :
       /\ SF_allVars(ConnectionStep(i) /\ UNCHANGED serviceVars)
       /\ SF_allVars(WaitEnd(i) /\ UNCHANGED serviceVars)
  /\ WF_allVars(ConsoleEnd) /\ WF_allVars(MainStep)
  /\ WF_allVars(HandlerStop) /\ WF_allVars(ControlStep)

ServiceSpec == ServiceInit /\ [][ServiceNext]_allVars /\ ServiceFairness

-----------------------------------------------------------------------------
(* Properties *)

States == {"STOPPED", "START_PENDING", "RUNNING", "STOP_PENDING"}

\* Every variable has its type, and g_Lock is held in the critical sections.
ServiceTypeOK ==
  /\ TypeOK
  /\ build \in Builds
  /\ main \in {"none", "start", "init", "running", "runningHint", "runningReport", "wait",
               "shutdown", "close", "stopped", "stoppedHint", "stoppedReport", "done"}
  /\ handler \in {"idle", "check", "state", "hint", "report", "signal"}
  /\ hServerStopEvent \in {"NULL", "unset", "set"}
  /\ {serviceStatus, scm} \subseteq [state : States, hint : 0..HintPolls]
  /\ control \in {"idle", "start", "startPoll", "stop", "stopSent", "stopPoll"}
  /\ command \in {"none", "start", "stop", "restart"}
  /\ waited \in 0..HintPolls /\ commands \in 0..MaxCommands

\* Once the instances have been counted to zero, no connection that was served a
\* driver is left; and what the SCM shows as stopped has no driver in use, nor a
\* listener, whatever the order of start, stop and failure was.  The exception is
\* a connection that selects after the count, to which ShutdownInstances is blind:
\* it may have a tuner while the service is shown as stopped, and "restart" then
\* runs the new process beside it.
StoppedUsesNoDriver ==
  /\ CountedAreGone
  /\ build = "service" /\ scm.state = "STOPPED" =>
       m_hModule \subseteq late /\ listener \in {"none", "ended"} /\ ui \in {"idle", "exited"}

\* The handler is in the middle of a STOP while ServiceStopped reports: both
\* write serviceStatus, and STOP_PENDING may be what is shown at the end.
Overlap == handler # "idle" /\ main \in {"close", "stopped", "stoppedHint", "stoppedReport", "done"}

\* A STOP that reached the handler ends in a service that is shown as stopped,
\* also when it came while the service was still starting; and start, stop and
\* restart come back whatever the service does.  The exceptions: the deadlock
\* ListenerStuck, and a STOP that overlaps the end.
ServiceStops ==
  /\ handler = "signal" ~> scm.state = "STOPPED" \/ ListenerStuck \/ Overlap
  /\ control # "idle" ~> control = "idle"
=============================================================================
