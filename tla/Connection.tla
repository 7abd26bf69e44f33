----------------------------- MODULE Connection -----------------------------
(***************************************************************************)
(* One connection of the server (cProxyServer): the thread that runs       *)
(* Process, the Receiver and Sender threads it starts and joins, their two *)
(* packet queues, m_Error, and the client at the other end of the socket.  *)
(* What a command does to the drivers is in DriverSharing; here a command  *)
(* is answered, ignored, or ends the connection.                           *)
(***************************************************************************)
EXTENDS Naturals, Sequences, PacketFifo

CONSTANTS
  FifoSize,      \* PACKET_FIFO_SIZE
  MaxCommands,   \* bound: commands the client sends
  MaxTs,         \* bound: TS packets the reader thread produces
  WireSize,      \* bound: packets the socket holds before send() blocks
  SpawnMayFail   \* may CreateThread fail?

ASSUME SizeAssumption == FifoSize \in Nat \ {0} /\ WireSize \in Nat \ {0}
ASSUME BoundAssumption == MaxCommands \in Nat /\ MaxTs \in Nat
ASSUME SpawnAssumption == SpawnMayFail \in BOOLEAN

(* Commands: answered; not answered (eCloseTuner); answered with m_Error    *)
(* (eCreateBonDriver that fails); eRelease; a malformed packet.             *)
Kinds == {"ask", "tell", "fail", "release", "malformed"}
Commands == [kind : Kinds, id : 1..MaxCommands]
TS == 0            \* a TS packet; an answer is the id of its command

VARIABLES
  process,       \* the thread in Reception
  receiver, sender,
  m_Error, g_ShutdownEvent,
  m_fifoRecv, m_fifoSend,
  hand,          \* the command Process works on
  out,           \* the packet Sender is in send() with
  peerOpen,      \* has the client its end of the socket open?
  inWire,        \* from the client, not yet received
  outWire,       \* sent, not yet read by the client
  delivered,     \* what the client has read, TS left out
  answered,      \* ghost: ids in the order Process answered them
  sent,          \* commands the client has sent
  tsMade

vars == <<process, receiver, sender, m_Error, g_ShutdownEvent, m_fifoRecv, m_fifoSend,
          hand, out, peerOpen, inWire, outWire, delivered, answered, sent, tsMade>>
client == <<peerOpen, inWire, outWire, delivered, sent>>
queues == <<m_fifoRecv, m_fifoSend>>

Init ==
  /\ process = "start" /\ receiver = "none" /\ sender = "none"
  /\ m_Error = FALSE /\ g_ShutdownEvent = FALSE
  /\ m_fifoRecv = EmptyFifo /\ m_fifoSend = EmptyFifo
  /\ hand = << >> /\ out = << >>
  /\ peerOpen = TRUE /\ inWire = << >> /\ outWire = << >> /\ delivered = << >>
  /\ answered = << >> /\ sent = 0 /\ tsMade = 0

-----------------------------------------------------------------------------
(* Process *)

SpawnSender ==
  /\ process = "start"
  /\ \/ sender' = "wait" /\ process' = "half"
     \/ SpawnMayFail /\ process' = "delete" /\ UNCHANGED sender
  /\ UNCHANGED <<receiver, m_Error, g_ShutdownEvent, queues, hand, out, client, answered, tsMade>>

SpawnReceiver ==
  /\ process = "half"
  /\ \/ receiver' = "check" /\ process' = "loop" /\ UNCHANGED m_Error
     \/ SpawnMayFail /\ process' = "join" /\ m_Error' = TRUE /\ UNCHANGED receiver
  /\ UNCHANGED <<sender, g_ShutdownEvent, queues, hand, out, client, answered, tsMade>>

\* WaitForMultipleObjects reports the lowest signalled index:
\* m_Error, then a command, then g_ShutdownEvent.
LoopError ==
  /\ process = "loop" /\ m_Error
  /\ process' = "join"
  /\ UNCHANGED <<receiver, sender, m_Error, g_ShutdownEvent, queues, hand, out, client,
                 answered, tsMade>>

LoopCommand ==
  /\ process = "loop" /\ ~m_Error /\ m_fifoRecv.event
  /\ hand' = <<Head(m_fifoRecv.packets)>>
  /\ m_fifoRecv' = Pop(m_fifoRecv)
  /\ process' = "handle"
  /\ UNCHANGED <<receiver, sender, m_Error, g_ShutdownEvent, m_fifoSend, out, client,
                 answered, tsMade>>

\* Mutant: m_Error is not set for the other threads.
LoopShutdownSilent ==
  /\ process = "loop" /\ ~m_Error /\ ~m_fifoRecv.event /\ g_ShutdownEvent
  /\ process' = "join"
  /\ UNCHANGED <<receiver, sender, m_Error, g_ShutdownEvent, queues, hand, out, client,
                 answered, tsMade>>

LoopShutdown ==
  /\ process = "loop" /\ ~m_Error /\ ~m_fifoRecv.event /\ g_ShutdownEvent
  /\ m_Error' = TRUE
  /\ process' = "join"
  /\ UNCHANGED <<receiver, sender, g_ShutdownEvent, queues, hand, out, client, answered, tsMade>>

\* The switch of Process, ended by the delete of the packet.
Handle ==
  /\ process = "handle"
  /\ IF hand[1].kind \in {"ask", "fail"}
     THEN /\ m_fifoSend' = Push(m_fifoSend, hand[1].id, FALSE, FifoSize)
          /\ answered' = Append(answered, hand[1].id)
     ELSE UNCHANGED <<m_fifoSend, answered>>
  /\ m_Error' = (m_Error \/ hand[1].kind \in {"fail", "release"})
  /\ hand' = << >>
  /\ process' = "loop"
  /\ UNCHANGED <<receiver, sender, g_ShutdownEvent, m_fifoRecv, out, client, tsMade>>

\* Mutant: only the Receiver is waited for.
JoinReceiver ==
  /\ process = "join"
  /\ receiver \in {"none", "done"}
  /\ process' = "delete"
  /\ UNCHANGED <<receiver, sender, m_Error, g_ShutdownEvent, queues, hand, out, client,
                 answered, tsMade>>

\* Both threads are joined, then the object is deleted and the socket closed.
Join ==
  /\ process = "join"
  /\ receiver \in {"none", "done"} /\ sender \in {"none", "done"}
  /\ process' = "delete"
  /\ UNCHANGED <<receiver, sender, m_Error, g_ShutdownEvent, queues, hand, out, client,
                 answered, tsMade>>

Delete ==
  /\ process = "delete"
  /\ process' = "gone"
  /\ m_fifoRecv' = EmptyFifo /\ m_fifoSend' = EmptyFifo
  /\ UNCHANGED <<receiver, sender, m_Error, g_ShutdownEvent, hand, out, client, answered, tsMade>>

-----------------------------------------------------------------------------
(* Receiver: m_Error is looked at before every select(). *)

ReceiverCheck ==
  /\ receiver = "check"
  /\ receiver' = IF m_Error THEN "done" ELSE "select"
  /\ UNCHANGED <<process, sender, m_Error, g_ShutdownEvent, queues, hand, out, client,
                 answered, tsMade>>

ReceiverTimeout ==
  /\ receiver = "select" /\ inWire = << >> /\ peerOpen
  /\ receiver' = "check"
  /\ UNCHANGED <<process, sender, m_Error, g_ShutdownEvent, queues, hand, out, client,
                 answered, tsMade>>

\* A packet whose sync byte or length is wrong, and the end of the stream, set
\* m_Error and end the thread.
ReceiverRecv ==
  /\ receiver = "select"
  /\ \/ /\ inWire # << >> /\ Head(inWire).kind # "malformed"
        /\ m_fifoRecv' = Push(m_fifoRecv, Head(inWire), FALSE, FifoSize)
        /\ inWire' = Tail(inWire)
        /\ receiver' = "check" /\ UNCHANGED m_Error
     \/ /\ IF inWire = << >> THEN ~peerOpen ELSE Head(inWire).kind = "malformed"
        /\ m_Error' = TRUE /\ receiver' = "done"
        /\ UNCHANGED <<m_fifoRecv, inWire>>
  /\ UNCHANGED <<process, sender, g_ShutdownEvent, m_fifoSend, hand, out, peerOpen, outWire,
                 delivered, sent, answered, tsMade>>

(* Sender *)

SenderError ==
  /\ sender = "wait" /\ m_Error
  /\ sender' = "done"
  /\ UNCHANGED <<process, receiver, m_Error, g_ShutdownEvent, queues, hand, out, client,
                 answered, tsMade>>

SenderTake ==
  /\ sender = "wait" /\ ~m_Error /\ m_fifoSend.event
  /\ out' = <<Head(m_fifoSend.packets)>>
  /\ m_fifoSend' = Pop(m_fifoSend)
  /\ sender' = "send"
  /\ UNCHANGED <<process, receiver, m_Error, g_ShutdownEvent, m_fifoRecv, hand, client,
                 answered, tsMade>>

\* send() blocks while the socket is full and fails once the client has closed.
SenderSend ==
  /\ sender = "send"
  /\ \/ peerOpen /\ Len(outWire) < WireSize /\ outWire' = outWire \o out /\ UNCHANGED m_Error
     \/ ~peerOpen /\ m_Error' = TRUE /\ UNCHANGED outWire
  /\ out' = << >>
  /\ sender' = "wait"
  /\ UNCHANGED <<process, receiver, g_ShutdownEvent, queues, hand, peerOpen, inWire, delivered,
                 sent, answered, tsMade>>

(* The reader thread of the driver, while the instance is one of its        *)
(* receivers: at most until the destructor.                                 *)
TsReaderPush ==
  /\ process \in {"loop", "handle", "join"} /\ tsMade < MaxTs
  /\ m_fifoSend' = Push(m_fifoSend, TS, TRUE, FifoSize)
  /\ tsMade' = tsMade + 1
  /\ UNCHANGED <<process, receiver, sender, m_Error, g_ShutdownEvent, m_fifoRecv, hand, out,
                 client, answered>>

(* The client and the rest of the server *)

ClientSend(k) ==
  /\ peerOpen /\ sent < MaxCommands /\ process # "gone"
  /\ inWire' = Append(inWire, [kind |-> k, id |-> sent + 1])
  /\ sent' = sent + 1
  /\ UNCHANGED <<process, receiver, sender, m_Error, g_ShutdownEvent, queues, hand, out,
                 peerOpen, outWire, delivered, answered, tsMade>>

ClientRead ==
  /\ peerOpen /\ outWire # << >>
  /\ outWire' = Tail(outWire)
  /\ delivered' = IF Head(outWire) = TS THEN delivered ELSE Append(delivered, Head(outWire))
  /\ UNCHANGED <<process, receiver, sender, m_Error, g_ShutdownEvent, queues, hand, out,
                 peerOpen, inWire, sent, answered, tsMade>>

ClientClose ==
  /\ peerOpen
  /\ peerOpen' = FALSE /\ outWire' = << >>
  /\ UNCHANGED <<process, receiver, sender, m_Error, g_ShutdownEvent, queues, hand, out,
                 inWire, delivered, sent, answered, tsMade>>

Shutdown ==
  /\ ~g_ShutdownEvent
  /\ g_ShutdownEvent' = TRUE
  /\ UNCHANGED <<process, receiver, sender, m_Error, queues, hand, out, client, answered, tsMade>>

Finished == process = "gone" /\ UNCHANGED vars

ProcessStep == SpawnSender \/ SpawnReceiver \/ LoopError \/ LoopCommand \/ LoopShutdown
               \/ Handle \/ Join \/ Delete
ReceiverStep == ReceiverCheck \/ ReceiverTimeout \/ ReceiverRecv
SenderStep == SenderError \/ SenderTake \/ SenderSend

Next ==
  \/ ProcessStep \/ ReceiverStep \/ SenderStep
  \/ TsReaderPush
  \/ \E k \in Kinds : ClientSend(k)
  \/ ClientRead \/ ClientClose \/ Shutdown
  \/ Finished

\* Each thread goes on when it can, and the client's Receiver thread reads; the
\* client's calls, its end and the shutdown are nobody's duty.
Fairness == WF_vars(ProcessStep) /\ WF_vars(ReceiverStep) /\ WF_vars(SenderStep)
            /\ WF_vars(ClientRead)

Spec == Init /\ [][Next]_vars /\ Fairness

-----------------------------------------------------------------------------
\* Every variable has its type; a packet in hand is deleted before the loop goes
\* on or is left; a queue's event is set exactly while it holds packets, so that
\* no thread pops an empty queue (it would use an uninitialised pointer) or
\* sleeps on a full one.
TypeOK ==
  /\ process \in {"start", "half", "loop", "handle", "join", "delete", "gone"}
  /\ receiver \in {"none", "check", "select", "done"}
  /\ sender \in {"none", "wait", "send", "done"}
  /\ m_Error \in BOOLEAN /\ g_ShutdownEvent \in BOOLEAN /\ peerOpen \in BOOLEAN
  /\ m_fifoRecv \in [packets : Seq(Commands), event : BOOLEAN]
  /\ m_fifoSend \in [packets : Seq(0..MaxCommands), event : BOOLEAN]
  /\ hand \in {<< >>} \cup {<<c>> : c \in Commands} /\ (hand # << >> <=> process = "handle")
  /\ out \in {<< >>} \cup {<<p>> : p \in 0..MaxCommands}
  /\ inWire \in Seq(Commands) /\ outWire \in Seq(0..MaxCommands)
  /\ delivered \in Seq(1..MaxCommands) /\ answered \in Seq(1..MaxCommands)
  /\ sent \in 0..MaxCommands /\ tsMade \in 0..MaxTs
  /\ m_fifoRecv.event <=> m_fifoRecv.packets # << >>
  /\ m_fifoSend.event <=> m_fifoSend.packets # << >>

\* The object is deleted only when neither of its threads can touch it again.
NoThreadOutlivesObject ==
  process \in {"delete", "gone"} =>
    receiver \in {"none", "done"} /\ sender \in {"none", "done"}

\* The packets of s that are no TS.
Answers(s) ==
  LET a[n \in 0..Len(s)] ==
        IF n = 0 THEN << >> ELSE IF s[n] = TS THEN a[n - 1] ELSE Append(a[n - 1], s[n])
  IN  a[Len(s)]

\* However full the queue is of TS, each answer is sent, once, in the order of
\* the commands: what was answered is what the client read, plus what is on its
\* way, unless the client has closed; and a slow client costs bounded memory: no
\* TS packet is queued beyond the queue size (PACKET_FIFO_SIZE).
AnswersInOrder ==
  /\ peerOpen /\ process # "gone" =>
       answered = delivered \o Answers(outWire) \o Answers(out) \o Answers(m_fifoSend.packets)
  /\ \A k \in 1..Len(m_fifoSend.packets) : m_fifoSend.packets[k] = TS => k <= FifoSize

\* Whatever sets m_Error, a client that is gone and a shutdown end the
\* connection: both threads notice, Process joins them, the object is deleted.
ConnectionEnds == m_Error \/ ~peerOpen \/ g_ShutdownEvent ~> process = "gone"

\* A command that arrived is answered unless the connection ends.
CommandsServed ==
  \A n \in 1..MaxCommands :
    (\E k \in 1..Len(m_fifoRecv.packets) :
        m_fifoRecv.packets[k] = [kind |-> "ask", id |-> n])
      ~> (process = "gone" \/ \E k \in 1..Len(answered) : answered[k] = n)
=============================================================================
