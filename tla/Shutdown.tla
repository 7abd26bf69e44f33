------------------------------ MODULE Shutdown ------------------------------
(***************************************************************************)
(* How the server stops its listener and its connections and unloads its   *)
(* drivers: ShutdownInstances and CleanUp, called by the UI thread for     *)
(* "reload ini" and at exit (BonDriverProxy.cpp, HAVE_UI), against the     *)
(* Listen thread and the connection threads.  g_Lock and the two lists are *)
(* the shared state; what the handlers do with drivers is DriverSharing.   *)
(***************************************************************************)
EXTENDS FiniteSets

CONSTANTS
  Instances,        \* connections that can exist at once
  SpawnMayFail,     \* may CreateThread fail for a new connection?
  Free              \* g_Lock is not held

ASSUME FreeAssumption == Free \notin Instances \cup {"ui"} /\ "ui" \notin Instances
ASSUME FlagAssumption == SpawnMayFail \in BOOLEAN

VARIABLES
  ui,               \* the thread that runs WndProc and WinMain
  goal,             \* what it shuts down for: "reload" or "exit"
  listener,         \* the Listen thread
  accepted,         \* the instance it is starting a thread for
  thread,           \* the Reception thread of each instance
  g_ShutdownEvent,
  g_Lock,           \* its holder
  g_InstanceList,
  m_Error,          \* instances whose m_Error is set
  m_hModule,        \* instances that have selected a driver: m_hModule is not NULL
  late              \* ghost: of these, the ones that selected after the last count

vars == <<ui, goal, listener, accepted, thread, g_ShutdownEvent, g_Lock, g_InstanceList, m_Error,
          m_hModule, late>>
drivers == <<m_hModule, late>>
instances == <<thread, g_InstanceList, m_Error, drivers>>
uiVars == <<ui, goal>>
listenVars == <<listener, accepted>>

Init ==
  /\ ui = "idle" /\ goal = "none"
  /\ listener = "check" /\ accepted = Free
  /\ thread = [i \in Instances |-> "none"]
  /\ g_ShutdownEvent = FALSE /\ g_Lock = Free
  /\ g_InstanceList = {} /\ m_Error = {} /\ m_hModule = {} /\ late = {}

-----------------------------------------------------------------------------
(* UI thread *)

\* ShutdownInstances has seen the list empty.
AfterCount == ui \in {"reset", "cleanUp", "restart", "exited"}

\* ID_TASKTRAY_RELOAD, or WinMain after its message loop: the event is set.
Begin(why) ==
  /\ ui = "idle"
  /\ goal' = why /\ ui' = "lock"
  /\ g_ShutdownEvent' = TRUE
  /\ late' = {}
  /\ UNCHANGED <<listenVars, thread, g_InstanceList, m_Error, m_hModule, g_Lock>>

LockForListener ==
  /\ ui = "lock" /\ g_Lock = Free
  /\ g_Lock' = "ui" /\ ui' = "joinListener"
  /\ UNCHANGED <<goal, listenVars, instances, g_ShutdownEvent>>

\* Mutant: g_Lock is not left.
JoinListenerKeepsLock ==
  /\ ui = "joinListener" /\ listener \in {"ended", "none"}
  /\ listener' = "none" /\ ui' = "count"
  /\ UNCHANGED <<goal, accepted, instances, g_ShutdownEvent, g_Lock>>

\* g_Lock is held while the Listen thread is waited for.
JoinListener ==
  /\ ui = "joinListener" /\ listener \in {"ended", "none"}
  /\ listener' = "none" /\ g_Lock' = Free /\ ui' = "count"
  /\ UNCHANGED <<goal, accepted, instances, g_ShutdownEvent>>

\* Mutant: the list is looked at without g_Lock.
CountUnlocked ==
  /\ ui = "count"
  /\ ui' = IF g_InstanceList = {} THEN "reset" ELSE "count"
  /\ UNCHANGED <<goal, listenVars, instances, g_ShutdownEvent, g_Lock>>

\* The list is looked at under g_Lock, again after 10 ms if it is not empty.
CountInstances ==
  /\ ui = "count" /\ g_Lock = Free
  /\ ui' = IF g_InstanceList = {} THEN "reset" ELSE "count"
  /\ UNCHANGED <<goal, listenVars, instances, g_ShutdownEvent, g_Lock>>

ResetEvent ==
  /\ ui = "reset"
  /\ g_ShutdownEvent' = FALSE /\ ui' = "cleanUp"
  /\ UNCHANGED <<goal, listenVars, instances, g_Lock>>

\* CleanUp walks and empties g_LoadedDriverList, without g_Lock.
CleanUp ==
  /\ ui = "cleanUp"
  /\ ui' = IF goal = "reload" THEN "restart" ELSE "exited"
  /\ UNCHANGED <<goal, listenVars, instances, g_ShutdownEvent, g_Lock>>

\* Init(), then a new Listen thread; failing that the message loop is left.
Restart ==
  /\ ui = "restart"
  /\ ui' = "idle" /\ goal' = "none"
  /\ listener' \in {"check", "none"}
  /\ UNCHANGED <<accepted, instances, g_ShutdownEvent, g_Lock>>

Exited == ui = "exited" /\ UNCHANGED vars

-----------------------------------------------------------------------------
(* Listen thread *)

ListenCheck ==
  /\ listener = "check"
  /\ listener' = IF g_ShutdownEvent THEN "ended" ELSE "select"
  /\ UNCHANGED <<uiVars, accepted, instances, g_ShutdownEvent, g_Lock>>

\* select() waits a second at most; its failure ends the thread.
ListenTimeout ==
  /\ listener = "select"
  /\ listener' \in {"check", "ended"}
  /\ UNCHANGED <<uiVars, accepted, instances, g_ShutdownEvent, g_Lock>>

\* select() and accept(): the event may have been set since the check.
ListenAccept(i) ==
  /\ listener = "select" /\ thread[i] = "none"
  /\ thread' = [thread EXCEPT ![i] = "new"]
  /\ accepted' = i /\ listener' = "spawn"
  /\ UNCHANGED <<uiVars, g_InstanceList, m_Error, g_ShutdownEvent, g_Lock, drivers>>

ListenSpawn ==
  /\ listener = "spawn"
  /\ \/ /\ thread' = [thread EXCEPT ![accepted] = "start"]
        /\ accepted' = Free /\ listener' = "check"
     \/ SpawnMayFail /\ listener' = "delete" /\ UNCHANGED <<thread, accepted>>
  /\ UNCHANGED <<uiVars, g_InstanceList, m_Error, g_ShutdownEvent, g_Lock, drivers>>

\* delete pProxy: the destructor takes g_Lock.
ListenDelete ==
  /\ listener = "delete" /\ g_Lock = Free
  /\ thread' = [thread EXCEPT ![accepted] = "none"]
  /\ accepted' = Free /\ listener' = "check"
  /\ UNCHANGED <<uiVars, g_InstanceList, m_Error, g_ShutdownEvent, g_Lock, drivers>>

-----------------------------------------------------------------------------
(* Connection threads *)

\* Process() starts the Sender and Receiver threads, or returns at once.
ProcessStart(i) ==
  /\ thread[i] = "start"
  /\ \/ thread' = [thread EXCEPT ![i] = "wait"]
     \/ SpawnMayFail /\ thread' = [thread EXCEPT ![i] = "delete"]
  /\ UNCHANGED <<uiVars, listenVars, g_InstanceList, m_Error, g_ShutdownEvent, g_Lock, drivers>>

\* WaitForMultipleObjects: m_Error, else a command, else the shutdown event.
WaitCommand(i) ==
  /\ thread[i] = "wait" /\ i \notin m_Error
  /\ thread' = [thread EXCEPT ![i] = "command"]
  /\ UNCHANGED <<uiVars, listenVars, g_InstanceList, m_Error, g_ShutdownEvent, g_Lock, drivers>>

\* Mutant: the shutdown event is not waited for.
WaitEndByError(i) ==
  /\ thread[i] = "wait" /\ i \in m_Error
  /\ thread' = [thread EXCEPT ![i] = "join"]
  /\ m_Error' = m_Error \cup {i}
  /\ UNCHANGED <<uiVars, listenVars, g_InstanceList, g_ShutdownEvent, g_Lock, drivers>>

\* m_Error or, when no command is queued, the shutdown event: Process() ends.
WaitEnd(i) ==
  /\ thread[i] = "wait" /\ (i \in m_Error \/ g_ShutdownEvent)
  /\ thread' = [thread EXCEPT ![i] = "join"]
  /\ m_Error' = m_Error \cup {i}
  /\ UNCHANGED <<uiVars, listenVars, g_InstanceList, g_ShutdownEvent, g_Lock, drivers>>

\* The handler runs under g_Lock; the first command of a client is
\* eSelectBonDriver, which uses g_LoadedDriverList.
LockCommand(i) ==
  /\ thread[i] = "command" /\ g_Lock = Free
  /\ g_Lock' = i
  /\ thread' = [thread EXCEPT ![i] = IF i \in g_InstanceList THEN "handle" ELSE "select"]
  /\ UNCHANGED <<uiVars, listenVars, g_InstanceList, m_Error, g_ShutdownEvent, drivers>>

\* eSelectBonDriver fails, or gives the instance its library and lists it.
EndCommand(i) ==
  /\ thread[i] \in {"handle", "select"}
  /\ \/ /\ thread[i] = "select"
        /\ g_InstanceList' = g_InstanceList \cup {i} /\ m_hModule' = m_hModule \cup {i}
        /\ late' = IF AfterCount THEN late \cup {i} ELSE late
     \/ UNCHANGED <<g_InstanceList, drivers>>
  /\ g_Lock' = Free
  /\ thread' = [thread EXCEPT ![i] = "wait"]
  /\ UNCHANGED <<uiVars, listenVars, m_Error, g_ShutdownEvent>>

\* The Receiver and Sender threads see m_Error and end (Connection).
JoinThreads(i) ==
  /\ thread[i] = "join"
  /\ thread' = [thread EXCEPT ![i] = "delete"]
  /\ UNCHANGED <<uiVars, listenVars, g_InstanceList, m_Error, g_ShutdownEvent, g_Lock, drivers>>

\* The destructor: off the list first, then the driver is released and its
\* library freed, all under g_Lock.
DestructorUnlist(i) ==
  /\ thread[i] = "delete" /\ g_Lock = Free
  /\ g_Lock' = i /\ g_InstanceList' = g_InstanceList \ {i}
  /\ thread' = [thread EXCEPT ![i] = "release"]
  /\ UNCHANGED <<uiVars, listenVars, m_Error, g_ShutdownEvent, drivers>>

DestructorRelease(i) ==
  /\ thread[i] = "release"
  /\ g_Lock' = Free /\ m_Error' = m_Error \ {i}
  /\ m_hModule' = m_hModule \ {i} /\ late' = late \ {i}
  /\ thread' = [thread EXCEPT ![i] = "none"]
  /\ UNCHANGED <<uiVars, listenVars, g_InstanceList, g_ShutdownEvent>>

\* The client is gone (Receiver or Sender sets m_Error).
Disconnect(i) ==
  /\ thread[i] \in {"wait", "command", "handle", "select"} /\ i \notin m_Error
  /\ m_Error' = m_Error \cup {i}
  /\ UNCHANGED <<uiVars, listenVars, thread, g_InstanceList, g_ShutdownEvent, g_Lock, drivers>>

-----------------------------------------------------------------------------
UiStep == LockForListener \/ JoinListener \/ CountInstances \/ ResetEvent \/ CleanUp \/ Restart
ListenStep == ListenCheck \/ ListenTimeout \/ ListenSpawn \/ ListenDelete
ConnectionStep(i) ==
  \/ ProcessStart(i) \/ WaitEnd(i) \/ LockCommand(i) \/ EndCommand(i)
  \/ JoinThreads(i) \/ DestructorUnlist(i) \/ DestructorRelease(i)

Next ==
  \/ \E why \in {"reload", "exit"} : Begin(why)
  \/ UiStep \/ Exited
  \/ ListenStep \/ \E i \in Instances : ListenAccept(i)
  \/ \E i \in Instances : ConnectionStep(i) \/ WaitCommand(i) \/ Disconnect(i)

\* Every thread goes on, and gets g_Lock in the end however often others do:
\* its holders are short, and ShutdownInstances sleeps between two looks at the
\* list.  A client does not keep a connection busy for ever: its calls are
\* synchronous, so the command queue runs empty and the event is seen (WaitEnd).
Fairness ==
  /\ SF_vars(UiStep) /\ SF_vars(ListenStep)
  /\ \A i \in Instances : SF_vars(ConnectionStep(i)) /\ SF_vars(WaitEnd(i))

Spec == Init /\ [][Next]_vars /\ Fairness

-----------------------------------------------------------------------------
(* Properties *)

\* Every variable has its type, and g_Lock is held in the critical sections.
TypeOK ==
  /\ ui \in {"idle", "lock", "joinListener", "count", "reset", "cleanUp", "restart", "exited"}
  /\ goal \in {"none", "reload", "exit"}
  /\ listener \in {"check", "select", "spawn", "delete", "ended", "none"}
  /\ accepted \in Instances \cup {Free}
  /\ thread \in [Instances -> {"none", "new", "start", "wait", "command", "handle", "select",
                               "join", "delete", "release"}]
  /\ g_ShutdownEvent \in BOOLEAN
  /\ g_Lock \in Instances \cup {"ui", Free}
  /\ g_Lock = "ui" <=> ui = "joinListener"
  /\ \A i \in Instances : g_Lock = i <=> thread[i] \in {"handle", "select", "release"}
  /\ g_InstanceList \subseteq Instances /\ m_Error \subseteq Instances
  /\ late \subseteq m_hModule /\ m_hModule \subseteq Instances

\* Counting under g_Lock rules out an instance that is off the list but still
\* in its destructor (comment at 124-125): once the count is zero, no instance
\* that has selected a driver still exists, whenever it was accepted.  The
\* exception is one that selects after the count (see NoSelectDuringCleanUp).
CountedAreGone ==
  AfterCount => m_hModule \subseteq late /\ listener = "none"

\* "No thread that accesses g_LoadedDriverList should be left after
\* ShutdownInstances()" (comment at 1723).
NoSelectDuringCleanUp ==
  ui = "cleanUp" => \A i \in Instances : thread[i] # "select"

\* The Listen thread is in the destructor of a connection for which CreateThread
\* failed, at the g_Lock that is held while that thread is waited for.
ListenerStuck == ui = "joinListener" /\ listener = "delete"

\* ShutdownInstances first waits for the end of the listening thread and then
\* for all client instances (comments at 111 and 121): it comes back, so that a
\* reload ends with the new settings and an exit exits.  Nothing but ListenerStuck
\* can keep it from that, whatever the connections are doing.
ShutdownReturnsUnlessStuck ==
  ui = "lock" ~> ui \in {"cleanUp", "idle", "exited"} \/ ListenerStuck
=============================================================================
