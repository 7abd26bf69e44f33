---------------------------- MODULE ExclusivePriv ----------------------------
(***************************************************************************)
(* What the exclusive channel lock of each tuner promises its clients      *)
(* (ReadMe: CHANNEL_LOCK 255, and the history of 1.1.6.0 and 1.1.6.1):     *)
(* first come first served, the others queue in the order of their         *)
(* requests, and a holder that is being served keeps the lock until it     *)
(* leaves.  DriverPriority shows that DriverSharing implements it.         *)
(***************************************************************************)
EXTENDS Sequences, Naturals

CONSTANTS Tuners, Clients, Nobody

VARIABLES holder,   \* the client that may tune, or Nobody, for each tuner
          served,   \* is the holder's stream running?
          queue     \* clients that wait for their turn

vars == <<holder, served, queue>>

Init ==
  /\ holder = [t \in Tuners |-> Nobody]
  /\ served = [t \in Tuners |-> FALSE]
  /\ queue = [t \in Tuners |-> << >>]

\* A free lock goes to whoever asks.
Take(t, c) ==
  /\ holder[t] = Nobody
  /\ holder' = [holder EXCEPT ![t] = c]
  /\ \E b \in BOOLEAN : served' = [served EXCEPT ![t] = b]
  /\ UNCHANGED queue

\* The holder's stream starts.
Serve(t) ==
  /\ holder[t] # Nobody /\ ~served[t]
  /\ served' = [served EXCEPT ![t] = TRUE] /\ UNCHANGED <<holder, queue>>

\* A held lock is waited for, each client once.
Wait(t, c) ==
  /\ holder[t] \notin {Nobody, c} /\ served[t]
  /\ \A k \in 1..Len(queue[t]) : queue[t][k] # c
  /\ queue' = [queue EXCEPT ![t] = Append(@, c)] /\ UNCHANGED <<holder, served>>

\* A holder that is not served is no reason to wait.
Replace(t, c) ==
  /\ holder[t] \notin {Nobody, c} /\ ~served[t]
  /\ holder' = [holder EXCEPT ![t] = c] /\ UNCHANGED <<served, queue>>

\* The holder leaves: the first in the queue is the next holder.
Leave(t) ==
  /\ holder[t] # Nobody
  /\ IF queue[t] = << >>
     THEN /\ holder' = [holder EXCEPT ![t] = Nobody]
          /\ served' = [served EXCEPT ![t] = FALSE]
          /\ UNCHANGED queue
     ELSE /\ holder' = [holder EXCEPT ![t] = Head(queue[t])]
          /\ queue' = [queue EXCEPT ![t] = Tail(@)]
          /\ UNCHANGED served

\* A waiting client leaves; the others keep their order.
GiveUp(t, k) ==
  /\ k \in 1..Len(queue[t])
  /\ queue' = [queue EXCEPT ![t] = SubSeq(@, 1, k - 1) \o SubSeq(@, k + 1, Len(@))]
  /\ UNCHANGED <<holder, served>>

Next ==
  \E t \in Tuners :
    \/ \E c \in Clients : Take(t, c) \/ Wait(t, c) \/ Replace(t, c)
    \/ Serve(t) \/ Leave(t)
    \/ \E k \in 1..Len(queue[t]) : GiveUp(t, k)

Spec == Init /\ [][Next]_vars
=============================================================================
