----------------------------- MODULE ClientCalls -----------------------------
(***************************************************************************)
(* A cProxyClient (src/BonDriver_Proxy) from CreateBonDriver() to its      *)
(* destructor: the thread that creates and releases it, the ProcessEntry,  *)
(* Sender and Receiver threads it counts out with m_lEndCount, and the     *)
(* application's threads, each waiting for the answer to its command in    *)
(* the slot and event of that command.  TS is left to ChannelChange.       *)
(***************************************************************************)
EXTENDS Integers, Sequences

CONSTANTS
  Threads,         \* application threads that call the driver
  Commands,        \* answered commands, each with a slot of its own
  CommandOf,       \* the command a thread calls
  MaxCalls,        \* bound: calls of each thread
  SpawnMayFail     \* may CreateThread fail?

ASSUME ThreadAssumption == CommandOf \in [Threads -> Commands]
ASSUME CommandAssumption == "select" \notin Commands /\ "create" \notin Commands
ASSUME BoundAssumption == MaxCalls \in Nat /\ SpawnMayFail \in BOOLEAN

Slots == Commands \cup {"select", "create"}
Main == "main"     \* the thread of CreateBonDriver() and Release()
Requests == [cmd : Slots, by : Threads \cup {Main}, id : 0..MaxCalls]

VARIABLES
  main, entry, sender, receiver,
  m_lEndCount, m_Error, m_StartTrigger,
  m_fifoSend, m_fifoRecv,
  out,             \* the packet Sender is in send() with
  atServer, fromServer, connected,
  result,          \* m_bRes, m_dwRes, m_pRes with their auto-reset events
  app, calls       \* the application threads

vars == <<main, entry, sender, receiver, m_lEndCount, m_Error, m_StartTrigger, m_fifoSend,
          m_fifoRecv, out, atServer, fromServer, connected, result, app, calls>>
network == <<atServer, fromServer, connected>>
apps == <<app, calls>>

Init ==
  /\ main = "spawn" /\ entry = "none" /\ sender = "none" /\ receiver = "none"
  /\ m_lEndCount = -1 /\ m_Error = FALSE /\ m_StartTrigger = FALSE
  /\ m_fifoSend = << >> /\ m_fifoRecv = << >> /\ out = << >>
  /\ atServer = << >> /\ fromServer = << >> /\ connected = TRUE
  /\ result = [s \in Slots |-> << >>]
  /\ app = [t \in Threads |-> "idle"] /\ calls = [t \in Threads |-> 0]

-----------------------------------------------------------------------------
(* CreateBonDriver(), Release() and the destructor *)

Spawn ==
  /\ main = "spawn"
  /\ \/ entry' = "spawnSender" /\ main' = "waitStart"
     \/ SpawnMayFail /\ main' = "delete" /\ UNCHANGED entry
  /\ UNCHANGED <<sender, receiver, m_lEndCount, m_Error, m_StartTrigger, m_fifoSend, m_fifoRecv,
                 out, network, result, apps>>

\* WaitStartTrigger(): an error wins.
WaitStart ==
  /\ main = "waitStart" /\ (m_Error \/ m_StartTrigger)
  /\ main' = IF m_Error THEN "delete" ELSE "select"
  /\ UNCHANGED <<entry, sender, receiver, m_lEndCount, m_Error, m_StartTrigger, m_fifoSend,
                 m_fifoRecv, out, network, result, apps>>

Waiting(cmd) == IF cmd = "select" THEN "selectWait" ELSE "createWait"

MainCall(cmd) ==
  /\ main = cmd
  /\ m_fifoSend' = Append(m_fifoSend, [cmd |-> cmd, by |-> Main, id |-> 0])
  /\ main' = Waiting(cmd)
  /\ UNCHANGED <<entry, sender, receiver, m_lEndCount, m_Error, m_StartTrigger, m_fifoRecv, out,
                 network, result, apps>>

\* cEvent::Wait(m_Error): an error wins over an answer; the answer may be FALSE.
MainReturn(cmd) ==
  /\ main = Waiting(cmd)
  /\ \/ m_Error /\ main' = "delete" /\ UNCHANGED result
     \/ /\ ~m_Error /\ result[cmd] # << >>
        /\ result' = [result EXCEPT ![cmd] = << >>]
        /\ main' \in {"delete", IF cmd = "select" THEN "create" ELSE "ready"}
  /\ UNCHANGED <<entry, sender, receiver, m_lEndCount, m_Error, m_StartTrigger, m_fifoSend,
                 m_fifoRecv, out, network, apps>>

\* The application releases the driver when none of its threads is in a call.
Release ==
  /\ main = "ready" /\ \A t \in Threads : app[t] = "idle"
  /\ main' = "delete"
  /\ UNCHANGED <<entry, sender, receiver, m_lEndCount, m_Error, m_StartTrigger, m_fifoSend,
                 m_fifoRecv, out, network, result, apps>>

\* eRelease and m_Error.Set(); whether the Sender still sends the packet is
\* open, so it is left out.
DestructorError ==
  /\ main = "delete"
  /\ m_Error' = TRUE /\ main' = "endCount"
  /\ UNCHANGED <<entry, sender, receiver, m_lEndCount, m_StartTrigger, m_fifoSend, m_fifoRecv,
                 out, network, result, apps>>

\* -1 stands for threads that never started; otherwise SleepLock(3).
DestructorWait ==
  /\ main = "endCount"
  /\ main' = IF m_lEndCount = -1 THEN "free" ELSE "sleepLock"
  /\ UNCHANGED <<entry, sender, receiver, m_lEndCount, m_Error, m_StartTrigger, m_fifoSend,
                 m_fifoRecv, out, network, result, apps>>

\* Mutant: the thread in ProcessEntry is not waited for.
DestructorFreeEarly ==
  /\ \/ main = "free"
     \/ main = "sleepLock" /\ m_lEndCount = 2
  /\ main' = "deleted" /\ connected' = FALSE
  /\ UNCHANGED <<entry, sender, receiver, m_lEndCount, m_Error, m_StartTrigger, m_fifoSend,
                 m_fifoRecv, out, atServer, fromServer, result, apps>>


DestructorFree ==
  /\ \/ main = "free"
     \/ main = "sleepLock" /\ m_lEndCount = 3
  /\ main' = "deleted" /\ connected' = FALSE
  /\ UNCHANGED <<entry, sender, receiver, m_lEndCount, m_Error, m_StartTrigger, m_fifoSend,
                 m_fifoRecv, out, atServer, fromServer, result, apps>>

-----------------------------------------------------------------------------
(* ProcessEntry and Process *)

EntrySpawnSender ==
  /\ entry = "spawnSender"
  /\ \/ sender' = "trigger" /\ entry' = "spawnReceiver" /\ UNCHANGED m_Error
     \/ SpawnMayFail /\ m_Error' = TRUE /\ entry' = "failed" /\ UNCHANGED sender
  /\ UNCHANGED <<main, receiver, m_lEndCount, m_StartTrigger, m_fifoSend, m_fifoRecv, out,
                 network, result, apps>>

EntrySpawnReceiver ==
  /\ entry = "spawnReceiver"
  /\ \/ receiver' = "trigger" /\ entry' = "count" /\ UNCHANGED m_Error
     \/ SpawnMayFail /\ m_Error' = TRUE /\ entry' = "joinSender" /\ UNCHANGED receiver
  /\ UNCHANGED <<main, sender, m_lEndCount, m_StartTrigger, m_fifoSend, m_fifoRecv, out,
                 network, result, apps>>

\* m_lEndCount = 0 comes before the trigger the other threads wait for.
EntryCount ==
  /\ entry = "count"
  /\ m_lEndCount' = 0 /\ entry' = "setTrigger"
  /\ UNCHANGED <<main, sender, receiver, m_Error, m_StartTrigger, m_fifoSend, m_fifoRecv, out,
                 network, result, apps>>

EntryTrigger ==
  /\ entry = "setTrigger"
  /\ m_StartTrigger' = TRUE /\ entry' = "loop"
  /\ UNCHANGED <<main, sender, receiver, m_lEndCount, m_Error, m_fifoSend, m_fifoRecv, out,
                 network, result, apps>>

EntryError ==
  /\ entry = "loop" /\ m_Error
  /\ entry' = "sleepLock"
  /\ UNCHANGED <<main, sender, receiver, m_lEndCount, m_Error, m_StartTrigger, m_fifoSend,
                 m_fifoRecv, out, network, result, apps>>

\* Mutant: all commands of the application share one slot.
EntryAnswerOneSlot ==
  /\ entry = "loop" /\ ~m_Error /\ m_fifoRecv # << >>
  /\ LET cmd == Head(m_fifoRecv).cmd
         idx == IF cmd \in Commands THEN CHOOSE s \in Commands : TRUE ELSE cmd
     IN  result' = [result EXCEPT ![idx] = <<Head(m_fifoRecv)>>]
  /\ m_fifoRecv' = Tail(m_fifoRecv)
  /\ UNCHANGED <<main, entry, sender, receiver, m_lEndCount, m_Error, m_StartTrigger, m_fifoSend,
                 out, network, apps>>

\* An answer goes to the slot of its command and sets that slot's event.
EntryAnswer ==
  /\ entry = "loop" /\ ~m_Error /\ m_fifoRecv # << >>
  /\ result' = [result EXCEPT ![Head(m_fifoRecv).cmd] = <<Head(m_fifoRecv)>>]
  /\ m_fifoRecv' = Tail(m_fifoRecv)
  /\ UNCHANGED <<main, entry, sender, receiver, m_lEndCount, m_Error, m_StartTrigger, m_fifoSend,
                 out, network, apps>>

\* SleepLock(2), then the count of ProcessEntry, its last access to the object.
EntryEnd ==
  /\ entry = "sleepLock" /\ m_lEndCount = 2
  /\ m_lEndCount' = m_lEndCount + 1 /\ entry' = "done"
  /\ UNCHANGED <<main, sender, receiver, m_Error, m_StartTrigger, m_fifoSend, m_fifoRecv, out,
                 network, result, apps>>

EntryFailed ==
  /\ \/ entry = "failed"
     \/ entry = "joinSender" /\ sender = "done"
  /\ m_lEndCount' = -1 /\ entry' = "done"
  /\ UNCHANGED <<main, sender, receiver, m_Error, m_StartTrigger, m_fifoSend, m_fifoRecv, out,
                 network, result, apps>>

-----------------------------------------------------------------------------
(* Sender and Receiver: both wait for the trigger, whatever comes of it. *)

SenderStart ==
  /\ sender = "trigger" /\ (m_Error \/ m_StartTrigger)
  /\ sender' = "wait"
  /\ UNCHANGED <<main, entry, receiver, m_lEndCount, m_Error, m_StartTrigger, m_fifoSend,
                 m_fifoRecv, out, network, result, apps>>

SenderTake ==
  /\ sender = "wait" /\ ~m_Error /\ m_fifoSend # << >>
  /\ out' = <<Head(m_fifoSend)>> /\ m_fifoSend' = Tail(m_fifoSend)
  /\ sender' = "send"
  /\ UNCHANGED <<main, entry, receiver, m_lEndCount, m_Error, m_StartTrigger, m_fifoRecv,
                 network, result, apps>>

SenderSend ==
  /\ sender = "send"
  /\ IF connected THEN atServer' = atServer \o out /\ UNCHANGED m_Error
     ELSE m_Error' = TRUE /\ UNCHANGED atServer
  /\ out' = << >> /\ sender' = "wait"
  /\ UNCHANGED <<main, entry, receiver, m_lEndCount, m_StartTrigger, m_fifoSend, m_fifoRecv,
                 fromServer, connected, result, apps>>

\* Mutant: the Sender counts itself twice.
SenderEndTwice ==
  /\ sender = "wait" /\ m_Error
  /\ m_lEndCount' = m_lEndCount + 2 /\ sender' = "done"
  /\ UNCHANGED <<main, entry, receiver, m_Error, m_StartTrigger, m_fifoSend, m_fifoRecv, out,
                 network, result, apps>>


SenderEnd ==
  /\ sender = "wait" /\ m_Error
  /\ m_lEndCount' = m_lEndCount + 1 /\ sender' = "done"
  /\ UNCHANGED <<main, entry, receiver, m_Error, m_StartTrigger, m_fifoSend, m_fifoRecv, out,
                 network, result, apps>>

ReceiverStart ==
  /\ receiver = "trigger" /\ (m_Error \/ m_StartTrigger)
  /\ receiver' = "check"
  /\ UNCHANGED <<main, entry, sender, m_lEndCount, m_Error, m_StartTrigger, m_fifoSend,
                 m_fifoRecv, out, network, result, apps>>

\* ReceiverHelper looks at m_Error before each select() of at most a second.
ReceiverCheck ==
  /\ receiver = "check"
  /\ receiver' = IF m_Error THEN "end" ELSE "select"
  /\ UNCHANGED <<main, entry, sender, m_lEndCount, m_Error, m_StartTrigger, m_fifoSend,
                 m_fifoRecv, out, network, result, apps>>

ReceiverRecv ==
  /\ receiver = "select"
  /\ \/ /\ fromServer # << >>
        /\ m_fifoRecv' = Append(m_fifoRecv, Head(fromServer))
        /\ fromServer' = Tail(fromServer)
        /\ receiver' = "check" /\ UNCHANGED m_Error
     \/ /\ fromServer = << >> /\ ~connected
        /\ m_Error' = TRUE /\ receiver' = "end" /\ UNCHANGED <<m_fifoRecv, fromServer>>
     \/ /\ fromServer = << >> /\ connected
        /\ receiver' = "check" /\ UNCHANGED <<m_Error, m_fifoRecv, fromServer>>
  /\ UNCHANGED <<main, entry, sender, m_lEndCount, m_StartTrigger, m_fifoSend, out, atServer,
                 connected, result, apps>>

\* Mutant: the Receiver ends without counting itself.
ReceiverEndUncounted ==
  /\ receiver = "end"
  /\ receiver' = "done"
  /\ UNCHANGED <<main, entry, sender, m_lEndCount, m_Error, m_StartTrigger, m_fifoSend,
                 m_fifoRecv, out, network, result, apps>>


ReceiverEnd ==
  /\ receiver = "end"
  /\ m_lEndCount' = m_lEndCount + 1 /\ receiver' = "done"
  /\ UNCHANGED <<main, entry, sender, m_Error, m_StartTrigger, m_fifoSend, m_fifoRecv, out,
                 network, result, apps>>

-----------------------------------------------------------------------------
(* The application's calls, and the server (Connection) *)

Call(t) ==
  /\ main = "ready" /\ app[t] = "idle" /\ calls[t] < MaxCalls
  /\ app' = [app EXCEPT ![t] = "wait"]
  /\ calls' = [calls EXCEPT ![t] = @ + 1]
  /\ m_fifoSend' = Append(m_fifoSend, [cmd |-> CommandOf[t], by |-> t, id |-> calls[t] + 1])
  /\ UNCHANGED <<main, entry, sender, receiver, m_lEndCount, m_Error, m_StartTrigger, m_fifoRecv,
                 out, network, result>>

Return(t) ==
  /\ app[t] = "wait"
  /\ \/ m_Error /\ UNCHANGED result
     \/ /\ ~m_Error /\ result[CommandOf[t]] # << >>
        /\ result' = [result EXCEPT ![CommandOf[t]] = << >>]
  /\ app' = [app EXCEPT ![t] = "idle"]
  /\ UNCHANGED <<main, entry, sender, receiver, m_lEndCount, m_Error, m_StartTrigger, m_fifoSend,
                 m_fifoRecv, out, network, calls>>

\* Each command is answered, in their order.
ServerAnswer ==
  /\ connected /\ atServer # << >>
  /\ fromServer' = Append(fromServer, Head(atServer)) /\ atServer' = Tail(atServer)
  /\ UNCHANGED <<main, entry, sender, receiver, m_lEndCount, m_Error, m_StartTrigger, m_fifoSend,
                 m_fifoRecv, out, connected, result, apps>>

Disconnect ==
  /\ connected
  /\ connected' = FALSE
  /\ UNCHANGED <<main, entry, sender, receiver, m_lEndCount, m_Error, m_StartTrigger, m_fifoSend,
                 m_fifoRecv, out, atServer, fromServer, result, apps>>

Finished == main = "deleted" /\ UNCHANGED vars

MainStep ==
  \/ Spawn \/ WaitStart \/ \E cmd \in {"select", "create"} : MainCall(cmd) \/ MainReturn(cmd)
  \/ DestructorError \/ DestructorWait \/ DestructorFree
EntryStep == EntrySpawnSender \/ EntrySpawnReceiver \/ EntryCount \/ EntryTrigger
             \/ EntryError \/ EntryAnswer \/ EntryEnd \/ EntryFailed
SenderStep == SenderStart \/ SenderTake \/ SenderSend \/ SenderEnd
ReceiverStep == ReceiverStart \/ ReceiverCheck \/ ReceiverRecv \/ ReceiverEnd

Next ==
  \/ MainStep \/ Release \/ EntryStep \/ SenderStep \/ ReceiverStep
  \/ \E t \in Threads : Call(t) \/ Return(t)
  \/ ServerAnswer \/ Disconnect
  \/ Finished

\* Every thread goes on when it can, and a connected server answers; calls,
\* Release() and the disconnection are free.
Fairness ==
  /\ WF_vars(MainStep) /\ WF_vars(EntryStep) /\ WF_vars(SenderStep) /\ WF_vars(ReceiverStep)
  /\ WF_vars(ServerAnswer) /\ \A t \in Threads : WF_vars(Return(t))

Spec == Init /\ [][Next]_vars /\ Fairness

-----------------------------------------------------------------------------
(* Properties *)

\* Every variable has its type.
TypeOK ==
  /\ main \in {"spawn", "waitStart", "select", "selectWait", "create", "createWait", "ready",
               "delete", "endCount", "sleepLock", "free", "deleted"}
  /\ entry \in {"none", "spawnSender", "spawnReceiver", "count", "setTrigger", "loop",
                "sleepLock", "failed", "joinSender", "done"}
  /\ sender \in {"none", "trigger", "wait", "send", "done"}
  /\ receiver \in {"none", "trigger", "check", "select", "end", "done"}
  /\ m_lEndCount \in (-1)..3
  /\ m_Error \in BOOLEAN /\ m_StartTrigger \in BOOLEAN /\ connected \in BOOLEAN
  /\ m_fifoSend \in Seq(Requests) /\ m_fifoRecv \in Seq(Requests) /\ out \in Seq(Requests)
  /\ atServer \in Seq(Requests) /\ fromServer \in Seq(Requests)
  /\ result \in [Slots -> {<< >>} \cup {<<r>> : r \in Requests}]
  /\ app \in [Threads -> {"idle", "wait"}] /\ calls \in [Threads -> 0..MaxCalls]

\* All three threads exist.  When CreateThread fails for one, m_lEndCount goes
\* back to -1 (line 113) and counts no thread; the two properties of the
\* destructor are about clients that did start.
Started == receiver # "none"

\* The object is deleted only after its three threads have made their last
\* access to it: m_lEndCount counts each of them once (lines 266-270).
NoThreadOutlivesObject ==
  main = "deleted" /\ Started => {entry, sender, receiver} = {"done"}

\* "The answer to one command could be taken for that of another" (ReadMe
\* 1.1.3.1, fixed): the answer a call finds is that of this very call, neither
\* another thread's nor that of an earlier call.
OwnAnswer ==
  \A t \in Threads :
    app[t] = "wait" /\ ~m_Error /\ result[CommandOf[t]] # << >> =>
      result[CommandOf[t]] = <<[cmd |-> CommandOf[t], by |-> t, id |-> calls[t]]>>

\* A call returns, whenever the connection is lost (ReadMe 1.1.4.3), and so does
\* the destructor: no thread misses the count it waits for.
CallsReturn ==
  /\ \A t \in Threads : app[t] = "wait" ~> app[t] = "idle"
  /\ main = "delete" /\ Started ~> main = "deleted"
=============================================================================
