----------------------------- MODULE PacketFifo -----------------------------
(***************************************************************************)
(* cPacketFifo (src/inc/BdpPacket.h): the command queue between two        *)
(* threads, a std::queue with a manual-reset event for                     *)
(* WaitForMultipleObjects.  Push and Pop run under the queue's own lock,   *)
(* so each is one step.  A queue is the record of its packets and event.   *)
(***************************************************************************)
EXTENDS Naturals, Sequences

EmptyFifo == [packets |-> << >>, event |-> FALSE]

\* Mutant: a full queue refuses everything.
PushRefusesAll(f, p, isTS, fifoSize) ==
  IF Len(f.packets) >= fifoSize THEN f
  ELSE [packets |-> Append(f.packets, p), event |-> TRUE]

\* A full queue refuses TS only: answers and commands are always queued.
Push(f, p, isTS, fifoSize) ==
  IF Len(f.packets) >= fifoSize /\ isTS
  THEN f
  ELSE [packets |-> Append(f.packets, p), event |-> TRUE]

\* Mutants: the event stays set; the event is always reset.
PopKeepsEvent(f) ==
  [packets |-> IF f.packets = << >> THEN << >> ELSE Tail(f.packets), event |-> f.event]

PopResetsEvent(f) ==
  [packets |-> IF f.packets = << >> THEN << >> ELSE Tail(f.packets), event |-> FALSE]

\* What Pop leaves behind; the event is reset when nothing is left.
Pop(f) ==
  [packets |-> IF f.packets = << >> THEN << >> ELSE Tail(f.packets),
   event   |-> IF Len(f.packets) > 1 THEN f.event ELSE FALSE]
=============================================================================
