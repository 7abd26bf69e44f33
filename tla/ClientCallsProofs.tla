-------------------------- MODULE ClientCallsProofs --------------------------
(* Theorems about ClientCalls, for every value of its constants.            *)
EXTENDS ClientCalls, SequenceTheorems, TLAPS

-----------------------------------------------------------------------------
(* The threads and the count they end by.                                   *)

ThreadTypes ==
  /\ main \in {"spawn", "waitStart", "select", "selectWait", "create", "createWait", "ready",
               "delete", "endCount", "sleepLock", "free", "deleted"}
  /\ entry \in {"none", "spawnSender", "spawnReceiver", "count", "setTrigger", "loop",
                "sleepLock", "failed", "joinSender", "done"}
  /\ sender \in {"none", "trigger", "wait", "send", "done"}
  /\ receiver \in {"none", "trigger", "check", "select", "end", "done"}
  /\ m_lEndCount \in (-1)..3

\* Before ProcessEntry runs there is nothing to count.
BeforeEntry ==
  /\ main = "spawn" => entry = "none" /\ ~m_Error
  /\ entry = "none" =>
       sender = "none" /\ receiver = "none" /\ m_lEndCount = -1 /\ ~m_StartTrigger

\* Until the trigger is set nobody but ProcessEntry goes on, and nothing fails.
BeforeTrigger ==
  entry \in {"spawnSender", "spawnReceiver", "count", "setTrigger"} =>
    /\ main = "waitStart" /\ ~m_Error /\ ~m_StartTrigger
    /\ sender = (IF entry = "spawnSender" THEN "none" ELSE "trigger")
    /\ receiver = (IF entry \in {"count", "setTrigger"} THEN "trigger" ELSE "none")
    /\ m_lEndCount = (IF entry = "setTrigger" THEN 0 ELSE -1)

\* When a thread could not be created the count never tells of three threads.
Failed ==
  /\ entry = "failed" => sender = "none" /\ receiver = "none" /\ m_lEndCount = -1
  /\ entry = "joinSender" => /\ receiver = "none" /\ sender # "none"
                             /\ m_lEndCount = (IF sender = "done" THEN 0 ELSE -1)
  /\ entry = "done" /\ receiver = "none" => m_lEndCount = -1 /\ sender \in {"none", "done"}

One(thread) == IF thread = "done" THEN 1 ELSE 0

\* Afterwards the count is that of the threads that have ended.
Running ==
  /\ entry \in {"loop", "sleepLock"} => receiver # "none"
  /\ receiver # "none" /\ entry \in {"loop", "sleepLock", "done"} =>
       /\ sender # "none"
       /\ m_lEndCount = One(sender) + One(receiver) + One(entry)
       /\ entry = "done" => sender = "done" /\ receiver = "done"

\* The destructor goes past its wait for the one reason or the other.
Destroying ==
  /\ main = "free" => receiver = "none"
  /\ main = "deleted" => receiver = "none" \/ {entry, sender, receiver} = {"done"}

Counting == ThreadTypes /\ BeforeEntry /\ BeforeTrigger /\ Failed /\ Running /\ Destroying

LEMMA CountingInit == Init => Counting
<1> SUFFICES ASSUME Init PROVE Counting
  OBVIOUS
<1>1. /\ main = "spawn" /\ entry = "none" /\ sender = "none" /\ receiver = "none"
      /\ m_lEndCount = -1 /\ m_Error = FALSE /\ m_StartTrigger = FALSE
  BY DEF Init
<1> QED
  BY <1>1 DEF Counting, ThreadTypes, BeforeEntry, BeforeTrigger, Failed, Running,
                    Destroying

LEMMA CountingMain ==
  ASSUME Counting, MainStep \/ Release PROVE Counting'
<1> USE DEF Counting, ThreadTypes, BeforeEntry, BeforeTrigger, Failed, Running, Destroying, One,
      network, apps
<1>1. CASE Spawn
  <2>1. /\ main = "spawn"
        /\ \/ entry' = "spawnSender" /\ main' = "waitStart"
           \/ main' = "delete" /\ UNCHANGED entry
        /\ UNCHANGED <<sender, receiver, m_lEndCount, m_Error, m_StartTrigger>>
    BY <1>1 DEF Spawn
  <2> QED
    BY <2>1
<1>2. CASE WaitStart
  BY <1>2 DEF WaitStart
<1>3. CASE \E cmd \in {"select", "create"} : MainCall(cmd)
  BY <1>3 DEF MainCall, Waiting
<1>4. CASE \E cmd \in {"select", "create"} : MainReturn(cmd)
  BY <1>4 DEF MainReturn, Waiting
<1>5. CASE DestructorError
  BY <1>5 DEF DestructorError
<1>6. CASE DestructorWait
  BY <1>6 DEF DestructorWait
<1>7. CASE DestructorFree
  <2>1. /\ main = "free" \/ (main = "sleepLock" /\ m_lEndCount = 3)
        /\ main' = "deleted"
        /\ UNCHANGED <<entry, sender, receiver, m_lEndCount, m_Error, m_StartTrigger>>
    BY <1>7 DEF DestructorFree
  <2>2. CASE receiver = "none"
    BY <2>1, <2>2
  <2>3. CASE receiver # "none"
    <3>1. entry \in {"loop", "sleepLock", "done"} /\ m_lEndCount = 3
      BY <2>1, <2>3
    <3>2. entry = "done" /\ sender = "done" /\ receiver = "done"
      BY <2>3, <3>1
    <3> QED
      BY <2>1, <3>2
  <2> QED
    BY <2>2, <2>3
<1>8. CASE Release
  BY <1>8 DEF Release
<1> QED
  BY <1>1, <1>2, <1>3, <1>4, <1>5, <1>6, <1>7, <1>8 DEF MainStep

LEMMA CountingEntry ==
  ASSUME Counting, EntryStep PROVE Counting'
<1> USE DEF Counting, ThreadTypes, BeforeEntry, BeforeTrigger, Failed, Running, Destroying, One,
      network, apps
<1>1. CASE EntrySpawnSender
  <2>1. /\ entry = "spawnSender"
        /\ \/ sender' = "trigger" /\ entry' = "spawnReceiver" /\ UNCHANGED m_Error
           \/ m_Error' = TRUE /\ entry' = "failed" /\ UNCHANGED sender
        /\ UNCHANGED <<main, receiver, m_lEndCount, m_StartTrigger>>
    BY <1>1 DEF EntrySpawnSender
  <2> QED
    BY <2>1
<1>2. CASE EntrySpawnReceiver
  <2>1. /\ entry = "spawnReceiver"
        /\ \/ receiver' = "trigger" /\ entry' = "count" /\ UNCHANGED m_Error
           \/ m_Error' = TRUE /\ entry' = "joinSender" /\ UNCHANGED receiver
        /\ UNCHANGED <<main, sender, m_lEndCount, m_StartTrigger>>
    BY <1>2 DEF EntrySpawnReceiver
  <2> QED
    BY <2>1
<1>3. CASE EntryCount
  BY <1>3 DEF EntryCount
<1>4. CASE EntryTrigger
  BY <1>4 DEF EntryTrigger
<1>5. CASE EntryError
  BY <1>5 DEF EntryError
<1>6. CASE EntryAnswer
  <2>1. UNCHANGED <<main, entry, sender, receiver, m_lEndCount, m_Error, m_StartTrigger>>
    BY <1>6 DEF EntryAnswer
  <2> QED
    BY <2>1
<1>7. CASE EntryEnd
  BY <1>7 DEF EntryEnd
<1>8. CASE EntryFailed
  BY <1>8 DEF EntryFailed
<1> QED
  BY <1>1, <1>2, <1>3, <1>4, <1>5, <1>6, <1>7, <1>8 DEF EntryStep

LEMMA CountingOthers ==
  ASSUME Counting, SenderStep \/ ReceiverStep PROVE Counting'
<1> USE DEF Counting, ThreadTypes, BeforeEntry, BeforeTrigger, Failed, Running, Destroying, One,
      network, apps
<1>1. CASE SenderStart
  BY <1>1 DEF SenderStart
<1>2. CASE SenderTake
  BY <1>2 DEF SenderTake
<1>3. CASE SenderSend
  BY <1>3 DEF SenderSend
<1>4. CASE SenderEnd
  BY <1>4 DEF SenderEnd
<1>5. CASE ReceiverStart
  BY <1>5 DEF ReceiverStart
<1>6. CASE ReceiverCheck
  BY <1>6 DEF ReceiverCheck
<1>7. CASE ReceiverRecv
  <2>1. /\ receiver = "select" /\ receiver' \in {"check", "end"}
        /\ m_Error' \in {m_Error, TRUE}
        /\ UNCHANGED <<main, entry, sender, m_lEndCount, m_StartTrigger>>
    BY <1>7 DEF ReceiverRecv
  <2> QED
    BY <2>1
<1>8. CASE ReceiverEnd
  BY <1>8 DEF ReceiverEnd
<1> QED
  BY <1>1, <1>2, <1>3, <1>4, <1>5, <1>6, <1>7, <1>8 DEF SenderStep, ReceiverStep

LEMMA CountingStep == Counting /\ [Next]_vars => Counting'
<1> SUFFICES ASSUME Counting, [Next]_vars PROVE Counting'
  OBVIOUS
<1>1. CASE UNCHANGED <<main, entry, sender, receiver, m_lEndCount, m_Error, m_StartTrigger>>
  BY <1>1 DEF Counting, ThreadTypes, BeforeEntry, BeforeTrigger, Failed, Running, Destroying
<1>2. CASE \E t \in Threads : Call(t) \/ Return(t)
  BY <1>1, <1>2 DEF Call, Return, network, Counting, ThreadTypes
<1>3. CASE ServerAnswer \/ Disconnect \/ Finished \/ UNCHANGED vars
  BY <1>1, <1>3 DEF ServerAnswer, Disconnect, Finished, vars, network, Counting, ThreadTypes
<1> QED
  BY <1>2, <1>3, CountingMain, CountingEntry, CountingOthers DEF Next

\* The object is deleted only after its three threads have counted themselves
\* out of it, whenever the connection or a thread fails.
THEOREM DeletedAfterThreads == Spec => []NoThreadOutlivesObject
<1>1. Counting => NoThreadOutlivesObject
  BY DEF Counting, Destroying, NoThreadOutlivesObject, Started
<1> QED
  BY <1>1, CountingInit, CountingStep, PTL DEF Spec

-----------------------------------------------------------------------------
(* Every request on its way to the server and back.                         *)

Rest == fromServer \o (atServer \o (out \o m_fifoSend))
Line == m_fifoRecv \o Rest

DataTypes ==
  /\ m_Error \in BOOLEAN /\ m_StartTrigger \in BOOLEAN /\ connected \in BOOLEAN
  /\ m_fifoSend \in Seq(Requests) /\ m_fifoRecv \in Seq(Requests) /\ out \in Seq(Requests)
  /\ atServer \in Seq(Requests) /\ fromServer \in Seq(Requests)
  /\ result \in [Slots -> {<< >>} \cup {<<r>> : r \in Requests}]
  /\ app \in [Threads -> {"idle", "wait"}] /\ calls \in [Threads -> 0..MaxCalls]
  /\ sender # "send" => out = << >>

\* A packet that goes from the head of one queue to the end of the one before it
\* does not change the line.
LEMMA MoveOn ==
  ASSUME NEW S, NEW q \in Seq(S), NEW r \in Seq(S), r # << >>
  PROVE  Append(q, Head(r)) \o Tail(r) = q \o r
<1> DEFINE a == Append(q, Head(r))
<1>1. /\ Head(r) \in S /\ Head(r) = r[1] /\ Tail(r) \in Seq(S)
      /\ Len(r) \in Nat /\ Len(Tail(r)) = Len(r) - 1 /\ Len(r) > 0
      /\ \A k \in 1..Len(Tail(r)) : Tail(r)[k] = r[k + 1]
  BY HeadTailProperties, EmptySeq, LenProperties
<1>2. /\ a \in Seq(S) /\ Len(q) \in Nat /\ Len(a) = Len(q) + 1
      /\ \A k \in 1..Len(q) : a[k] = q[k]
      /\ a[Len(q) + 1] = r[1]
  BY <1>1, AppendProperties, LenProperties
<1>3. /\ a \o Tail(r) \in Seq(S) /\ Len(a \o Tail(r)) = Len(a) + Len(Tail(r))
      /\ \A k \in 1..Len(a) + Len(Tail(r)) :
           (a \o Tail(r))[k] = IF k <= Len(a) THEN a[k] ELSE Tail(r)[k - Len(a)]
  BY <1>1, <1>2, ConcatProperties
<1>4. /\ q \o r \in Seq(S) /\ Len(q \o r) = Len(q) + Len(r)
      /\ \A k \in 1..Len(q) + Len(r) : (q \o r)[k] = IF k <= Len(q) THEN q[k] ELSE r[k - Len(q)]
  BY ConcatProperties
<1> HIDE DEF a
<1>5. Len(a \o Tail(r)) = Len(q \o r)
  BY <1>1, <1>2, <1>3, <1>4
<1>6. ASSUME NEW k \in 1..Len(a \o Tail(r)) PROVE (a \o Tail(r))[k] = (q \o r)[k]
  <2>1. k \in 1..Len(a) + Len(Tail(r)) /\ k \in 1..Len(q) + Len(r)
    BY <1>3, <1>4, <1>5
  <2>2. CASE k <= Len(q)
    BY <1>1, <1>2, <1>3, <1>4, <2>1, <2>2
  <2>3. CASE k = Len(q) + 1
    BY <1>1, <1>2, <1>3, <1>4, <2>1, <2>3
  <2>4. CASE k > Len(q) + 1
    <3>1. k - Len(a) \in 1..Len(Tail(r)) /\ k - Len(a) + 1 = k - Len(q) /\ ~(k <= Len(a))
          /\ ~(k <= Len(q))
      BY <1>1, <1>2, <2>1, <2>4
    <3>2. Tail(r)[k - Len(a)] = r[k - Len(q)]
      BY <1>1, <3>1
    <3> QED
      BY <1>3, <1>4, <2>1, <3>1, <3>2
  <2> QED
    BY <1>2, <2>1, <2>2, <2>3, <2>4
<1> QED
  BY <1>3, <1>4, <1>5, <1>6, SeqEqual DEF a

\* What two queues make up together is what counts for the queues behind.
LEMMA BeforeOthers ==
  ASSUME NEW S, NEW a \in Seq(S), NEW b \in Seq(S), NEW q \in Seq(S), NEW r \in Seq(S),
         NEW v \in Seq(S)
  PROVE  a \o b = q \o r => a \o (b \o v) = q \o (r \o v)
<1>1. (a \o b) \o v = a \o (b \o v)
  BY ConcatAssociative, Z3
<1>2. (q \o r) \o v = q \o (r \o v)
  BY ConcatAssociative, Z3
<1> QED
  BY <1>1, <1>2, Zenon

\* Nor does it when more queues follow.
LEMMA MoveOnBefore ==
  \A S : \A q, r, v \in Seq(S) :
    r # << >> => Append(q, Head(r)) \o (Tail(r) \o v) = q \o (r \o v)
<1> SUFFICES ASSUME NEW S, NEW q \in Seq(S), NEW r \in Seq(S), NEW v \in Seq(S), r # << >>
             PROVE  Append(q, Head(r)) \o (Tail(r) \o v) = q \o (r \o v)
  BY Zenon
<1>1. Head(r) \in S /\ Tail(r) \in Seq(S)
  BY HeadTailProperties
<1>2. Append(q, Head(r)) \in Seq(S)
  BY <1>1, AppendProperties
<1>3. Append(q, Head(r)) \o Tail(r) = q \o r
  BY MoveOn, Zenon
<1> QED
  BY <1>1, <1>2, <1>3, BeforeOthers, Z3

\* A packet appended to the last queue is appended to the line.
LEMMA AppendLast ==
  ASSUME NEW S, NEW q \in Seq(S), NEW r \in Seq(S), NEW e \in S
  PROVE  q \o Append(r, e) = Append(q \o r, e)
<1>1. Append(r, e) = r \o <<e>> /\ Append(q \o r, e) = (q \o r) \o <<e>> /\ <<e>> \in Seq(S)
  BY AppendProperties, AppendIsConcat, ConcatProperties
<1> QED
  BY <1>1, ConcatAssociative

\* The head of a line is the head of its first queue.
LEMMA TakeFirst ==
  ASSUME NEW S, NEW q \in Seq(S), NEW r \in Seq(S), q # << >>
  PROVE  /\ Head(q) = (q \o r)[1]
         /\ Len(q \o r) > 0
         /\ Tail(q) \o r \in Seq(S) /\ Len(Tail(q) \o r) = Len(q \o r) - 1
         /\ \A k \in 1..Len(Tail(q) \o r) : (Tail(q) \o r)[k] = (q \o r)[k + 1]
<1>1. /\ Tail(q) \in Seq(S) /\ Len(q) \in Nat \ {0} /\ Len(Tail(q)) = Len(q) - 1
      /\ Len(r) \in Nat /\ Head(q) = q[1]
      /\ \A k \in 1..Len(Tail(q)) : Tail(q)[k] = q[k + 1]
  BY HeadTailProperties, EmptySeq, LenProperties
<1>2. /\ q \o r \in Seq(S) /\ Len(q \o r) = Len(q) + Len(r)
      /\ \A k \in 1..Len(q) + Len(r) : (q \o r)[k] = IF k <= Len(q) THEN q[k] ELSE r[k - Len(q)]
  BY ConcatProperties
<1> DEFINE t == Tail(q)
<1>3. /\ t \o r \in Seq(S) /\ Len(t \o r) = Len(t) + Len(r)
      /\ \A k \in 1..Len(t) + Len(r) : (t \o r)[k] = IF k <= Len(t) THEN t[k] ELSE r[k - Len(t)]
  BY <1>1, ConcatProperties
<1>4. ASSUME NEW k \in 1..Len(t \o r) PROVE (t \o r)[k] = (q \o r)[k + 1]
  <2> HIDE DEF t
  <2>1. k \in 1..Len(t) + Len(r) /\ k + 1 \in 1..Len(q) + Len(r)
        /\ (k <= Len(t) <=> k + 1 <= Len(q)) /\ k - Len(t) = k + 1 - Len(q)
    BY <1>1, <1>3 DEF t
  <2>2. k <= Len(t) => t[k] = q[k + 1]
    BY <1>1, <2>1 DEF t
  <2> QED
    BY <1>2, <1>3, <2>1, <2>2
<1> QED
  BY <1>1, <1>2, <1>3, <1>4

-----------------------------------------------------------------------------
\* Types of the data.
LEMMA DataInit == Init => DataTypes
<1> SUFFICES ASSUME Init PROVE DataTypes
  OBVIOUS
<1>1. /\ m_fifoSend \in Seq(Requests) /\ m_fifoRecv \in Seq(Requests) /\ out \in Seq(Requests)
      /\ atServer \in Seq(Requests) /\ fromServer \in Seq(Requests) /\ out = << >>
  BY EmptySeq DEF Init
<1>2. /\ result \in [Slots -> {<< >>} \cup {<<r>> : r \in Requests}]
      /\ app \in [Threads -> {"idle", "wait"}] /\ calls \in [Threads -> 0..MaxCalls]
  BY BoundAssumption DEF Init
<1>3. m_Error \in BOOLEAN /\ m_StartTrigger \in BOOLEAN /\ connected \in BOOLEAN
  BY DEF Init
<1> QED
  BY <1>1, <1>2, <1>3 DEF DataTypes

RequestOfMain(cmd) == [cmd |-> cmd, by |-> Main, id |-> 0]
RequestOf(t) == [cmd |-> CommandOf[t], by |-> t, id |-> calls[t] + 1]

LEMMA RequestTypes ==
  /\ \A cmd \in {"select", "create"} : RequestOfMain(cmd) \in Requests
  /\ DataTypes => \A t \in Threads : calls[t] < MaxCalls => RequestOf(t) \in Requests
<1>1. \A cmd \in {"select", "create"} : RequestOfMain(cmd) \in Requests
  BY BoundAssumption DEF RequestOfMain, Requests, Slots
<1>2. ASSUME DataTypes, NEW t \in Threads, calls[t] < MaxCalls
      PROVE  RequestOf(t) \in Requests
  <2>1. CommandOf[t] \in Slots /\ calls[t] + 1 \in 0..MaxCalls
    BY <1>2, ThreadAssumption, BoundAssumption DEF DataTypes, Slots
  <2> QED
    BY <2>1 DEF RequestOf, Requests
<1> QED
  BY <1>1, <1>2

-----------------------------------------------------------------------------
(* What a step does to the line, the slots and the callers, while there is  *)
(* no error.                                                                *)

LineKept == Line' = Line

Quiet == LineKept /\ UNCHANGED <<result, apps>>

Asked ==
  /\ UNCHANGED result
  /\ \/ \E cmd \in {"select", "create"} : Line' = Append(Line, RequestOfMain(cmd)) /\ UNCHANGED apps
     \/ \E t \in Threads :
          /\ app[t] = "idle" /\ calls[t] < MaxCalls
          /\ Line' = Append(Line, RequestOf(t))
          /\ app' = [app EXCEPT ![t] = "wait"] /\ calls' = [calls EXCEPT ![t] = @ + 1]

Taken ==
  /\ Len(Line) > 0 /\ Len(Line') = Len(Line) - 1
  /\ \A k \in 1..Len(Line') : Line'[k] = Line[k + 1]
  /\ result' = [result EXCEPT ![Line[1].cmd] = <<Line[1]>>]
  /\ UNCHANGED apps

Returned ==
  /\ LineKept
  /\ \/ \E cmd \in {"select", "create"} : result' = [result EXCEPT ![cmd] = << >>] /\ UNCHANGED apps
     \/ \E t \in Threads :
          /\ result[CommandOf[t]] # << >> /\ result' = [result EXCEPT ![CommandOf[t]] = << >>]
          /\ app' = [app EXCEPT ![t] = "idle"] /\ UNCHANGED calls

Effect ==
  /\ m_Error => m_Error'
  /\ ~m_Error' => Quiet \/ Asked \/ Taken \/ Returned

\* The line is a sequence of requests, and so are its parts.
LEMMA LineType ==
  ASSUME DataTypes
  PROVE  /\ out \o m_fifoSend \in Seq(Requests)
         /\ atServer \o (out \o m_fifoSend) \in Seq(Requests)
         /\ Rest \in Seq(Requests) /\ Line \in Seq(Requests)
<1>1. out \o m_fifoSend \in Seq(Requests)
  BY ConcatProperties DEF DataTypes
<1>2. atServer \o (out \o m_fifoSend) \in Seq(Requests)
  BY <1>1, ConcatProperties DEF DataTypes
<1>3. Rest \in Seq(Requests)
  BY <1>2, ConcatProperties DEF DataTypes, Rest
<1> QED
  BY <1>1, <1>2, <1>3, ConcatProperties DEF DataTypes, Line

\* Asking: CreateBonDriver(), Release() and an application's call.
LEMMA AskedEffect ==
  ASSUME DataTypes, NEW r \in Requests, m_fifoSend' = Append(m_fifoSend, r),
         UNCHANGED <<out, atServer, fromServer, m_fifoRecv>>
  PROVE  Line' = Append(Line, r) /\ m_fifoSend' \in Seq(Requests)
<1> DEFINE u == out \o m_fifoSend
           v == atServer \o u
<1>1. /\ m_fifoSend \in Seq(Requests) /\ m_fifoRecv \in Seq(Requests) /\ out \in Seq(Requests)
      /\ atServer \in Seq(Requests) /\ fromServer \in Seq(Requests)
  BY DEF DataTypes
<1>2. u \in Seq(Requests) /\ v \in Seq(Requests) /\ Rest \in Seq(Requests)
  BY LineType
<1>3. u' = Append(u, r)
  BY <1>1, AppendLast
<1>4. v' = Append(v, r)
  <2> HIDE DEF u
  <2>1. atServer \o Append(u, r) = Append(atServer \o u, r)
    BY <1>1, <1>2, AppendLast
  <2> QED
    BY <1>3, <2>1
<1>5. Rest' = Append(Rest, r)
  <2>1. Rest = fromServer \o v /\ Rest' = fromServer \o v'
    BY DEF Rest
  <2> HIDE DEF v
  <2>2. fromServer \o Append(v, r) = Append(fromServer \o v, r)
    BY <1>1, <1>2, AppendLast
  <2> QED
    BY <1>4, <2>1, <2>2
<1>6. Line' = Append(Line, r)
  <2>1. m_fifoRecv \o Append(Rest, r) = Append(m_fifoRecv \o Rest, r)
    BY <1>1, <1>2, AppendLast
  <2> QED
    BY <1>5, <2>1 DEF Line
<1> QED
  BY <1>1, <1>6, AppendProperties

LEMMA MainEffect ==
  ASSUME DataTypes, MainStep \/ Release PROVE DataTypes' /\ Effect
<1> USE DEF network, apps
<1>1. ASSUME UNCHANGED <<sender, m_fifoSend, m_fifoRecv, out, atServer, fromServer, result, app, calls>>,
             m_Error => m_Error', m_Error' \in BOOLEAN, m_StartTrigger' \in BOOLEAN,
             connected' \in BOOLEAN
      PROVE  DataTypes' /\ Effect
  BY <1>1 DEF DataTypes, Effect, Quiet, LineKept, Line, Rest
<1>2. CASE Spawn \/ WaitStart \/ Release \/ DestructorWait
  BY <1>1, <1>2 DEF Spawn, WaitStart, Release, DestructorWait, DataTypes
<1>3. CASE DestructorError
  <2>1. UNCHANGED <<sender, m_fifoSend, m_fifoRecv, out, atServer, fromServer, result, app, calls,
                    m_StartTrigger, connected>>
    BY <1>3 DEF DestructorError
  <2>2. m_Error' \in BOOLEAN /\ (m_Error => m_Error')
    BY <1>3, Zenon DEF DestructorError
  <2>3. m_StartTrigger' \in BOOLEAN /\ connected' \in BOOLEAN
    BY <2>1 DEF DataTypes
  <2> QED
    BY <1>1, <2>1, <2>2, <2>3
<1>4. CASE DestructorFree
  <2>1. UNCHANGED <<sender, m_fifoSend, m_fifoRecv, out, atServer, fromServer, result, app, calls,
                    m_StartTrigger, m_Error>>
    BY <1>4 DEF DestructorFree
  <2>2. connected' \in BOOLEAN
    BY <1>4, Zenon DEF DestructorFree
  <2>3. m_StartTrigger' \in BOOLEAN /\ m_Error' \in BOOLEAN /\ (m_Error => m_Error')
    BY <2>1 DEF DataTypes
  <2> QED
    BY <1>1, <2>1, <2>2, <2>3
<1>5. ASSUME NEW cmd \in {"select", "create"}, MainCall(cmd) PROVE DataTypes' /\ Effect
  <2>1. RequestOfMain(cmd) \in Requests
    BY RequestTypes
  <2>2. Line' = Append(Line, RequestOfMain(cmd)) /\ m_fifoSend' \in Seq(Requests)
    BY <1>5, <2>1, AskedEffect DEF MainCall, RequestOfMain
  <2>3. UNCHANGED <<m_Error, m_StartTrigger, connected, m_fifoRecv, out, atServer, fromServer, result,
                    app, calls, sender>>
    BY <1>5 DEF MainCall
  <2>4. DataTypes'
    BY <2>2, <2>3 DEF DataTypes
  <2> QED
    BY <2>2, <2>3, <2>4 DEF Effect, Asked
<1>6. ASSUME NEW cmd \in {"select", "create"}, MainReturn(cmd) PROVE DataTypes' /\ Effect
  <2>1. UNCHANGED <<m_Error, m_StartTrigger, connected, m_fifoSend, m_fifoRecv, out, atServer,
                    fromServer, app, calls, sender>>
    BY <1>6 DEF MainReturn
  <2>2. result' = result \/ result' = [result EXCEPT ![cmd] = << >>]
    BY <1>6 DEF MainReturn
  <2>3. result' \in [Slots -> {<< >>} \cup {<<r>> : r \in Requests}]
    BY <2>2 DEF DataTypes
  <2>4. DataTypes' /\ LineKept
    BY <2>1, <2>3 DEF DataTypes, LineKept, Line, Rest
  <2> QED
    BY <2>1, <2>2, <2>4 DEF Effect, Quiet, Returned
<1> QED
  BY <1>2, <1>3, <1>4, <1>5, <1>6 DEF MainStep

LEMMA EntryEffect ==
  ASSUME DataTypes, BeforeTrigger, EntryStep PROVE DataTypes' /\ Effect
<1> USE DEF network, apps
<1>1. ASSUME UNCHANGED <<m_fifoSend, m_fifoRecv, out, atServer, fromServer, result, app, calls>>,
             m_Error => m_Error', m_Error' \in BOOLEAN, m_StartTrigger' \in BOOLEAN,
             connected' \in BOOLEAN, sender' # "send" => out = << >>
      PROVE  DataTypes' /\ Effect
  BY <1>1 DEF DataTypes, Effect, Quiet, LineKept, Line, Rest
<1>2. CASE EntryCount \/ EntryError \/ EntryEnd \/ EntryFailed
  BY <1>1, <1>2 DEF EntryCount, EntryError, EntryEnd, EntryFailed, DataTypes
<1>3. CASE EntryTrigger
  <2>1. UNCHANGED <<sender, m_fifoSend, m_fifoRecv, out, atServer, fromServer, result, app, calls,
                    m_Error, connected>>
    BY <1>3 DEF EntryTrigger
  <2>2. m_StartTrigger' \in BOOLEAN
    BY <1>3, Zenon DEF EntryTrigger
  <2>3. /\ m_Error' \in BOOLEAN /\ (m_Error => m_Error') /\ connected' \in BOOLEAN
        /\ sender' # "send" => out = << >>
    BY <2>1 DEF DataTypes
  <2> QED
    BY <1>1, <2>1, <2>2, <2>3
<1>4. CASE EntrySpawnSender \/ EntrySpawnReceiver
  <2>1. /\ UNCHANGED <<m_fifoSend, m_fifoRecv, out, atServer, fromServer, result, app, calls,
                       m_StartTrigger, connected>>
        /\ sender' \in {sender, "trigger"}
    BY <1>4 DEF EntrySpawnSender, EntrySpawnReceiver
  <2>2. m_Error' = m_Error \/ m_Error' = TRUE
    BY <1>4, Zenon DEF EntrySpawnSender, EntrySpawnReceiver
  <2>3. CASE m_Error' = TRUE
    <3>1. m_Error' \in BOOLEAN /\ (m_Error => m_Error')
      BY <2>3, Zenon
    <3>2. m_StartTrigger' \in BOOLEAN /\ connected' \in BOOLEAN
      BY <2>1 DEF DataTypes
    <3>3. sender' # "send" => out = << >>
      BY <1>4, <2>1 DEF EntrySpawnSender, EntrySpawnReceiver, DataTypes, BeforeTrigger
    <3> QED
      BY <1>1, <2>1, <3>1, <3>2, <3>3
  <2>4. CASE m_Error' = m_Error
    <3>1. m_Error' \in BOOLEAN /\ (m_Error => m_Error')
      BY <2>4 DEF DataTypes
    <3>2. m_StartTrigger' \in BOOLEAN /\ connected' \in BOOLEAN
      BY <2>1 DEF DataTypes
    <3>3. sender' # "send" => out = << >>
      BY <1>4, <2>1 DEF EntrySpawnSender, EntrySpawnReceiver, DataTypes, BeforeTrigger
    <3> QED
      BY <1>1, <2>1, <3>1, <3>2, <3>3
  <2> QED
    BY <2>2, <2>3, <2>4
<1>5. CASE EntryAnswer
  <2>1. /\ m_fifoRecv # << >> /\ m_fifoRecv' = Tail(m_fifoRecv)
        /\ result' = [result EXCEPT ![Head(m_fifoRecv).cmd] = <<Head(m_fifoRecv)>>]
        /\ UNCHANGED <<m_Error, m_StartTrigger, connected, sender, m_fifoSend, out, atServer, fromServer,
                       app, calls>>
    BY <1>5 DEF EntryAnswer
  <2>2. Head(m_fifoRecv) \in Requests /\ Tail(m_fifoRecv) \in Seq(Requests)
    BY <2>1, HeadTailProperties DEF DataTypes
  <2>3. result' \in [Slots -> {<< >>} \cup {<<r>> : r \in Requests}]
    BY <2>1, <2>2 DEF DataTypes
  <2>4. DataTypes'
    BY <2>1, <2>2, <2>3 DEF DataTypes
  <2>5. /\ m_fifoRecv \in Seq(Requests) /\ Rest \in Seq(Requests)
        /\ Line = m_fifoRecv \o Rest /\ Line' = Tail(m_fifoRecv) \o Rest
    BY <2>1, LineType DEF DataTypes, Line, Rest
  <2>6. /\ Head(m_fifoRecv) = Line[1] /\ Len(Line) > 0 /\ Len(Line') = Len(Line) - 1
        /\ \A k \in 1..Len(Line') : Line'[k] = Line[k + 1]
    BY <2>1, <2>5, TakeFirst
  <2> QED
    BY <2>1, <2>4, <2>6 DEF Effect, Taken
<1> QED
  BY <1>2, <1>3, <1>4, <1>5 DEF EntryStep

LEMMA SenderEffect ==
  ASSUME DataTypes, SenderStep PROVE DataTypes' /\ Effect
<1> USE DEF network, apps
<1>1. CASE SenderStart \/ SenderEnd
  BY <1>1 DEF SenderStart, SenderEnd, DataTypes, Effect, Quiet, LineKept, Line, Rest
<1>2. CASE SenderTake
  <2>1. /\ m_fifoSend # << >> /\ out = << >> /\ m_fifoSend \in Seq(Requests)
        /\ out' = <<Head(m_fifoSend)>> /\ m_fifoSend' = Tail(m_fifoSend) /\ sender' = "send"
        /\ UNCHANGED <<m_Error, m_StartTrigger, connected, m_fifoRecv, atServer, fromServer, result,
                       app, calls>>
    BY <1>2 DEF SenderTake, DataTypes
  <2>2. Head(m_fifoSend) \in Requests /\ Tail(m_fifoSend) \in Seq(Requests)
    BY <2>1, HeadTailProperties
  <2>3. out' \in Seq(Requests) /\ out' = Append(<< >>, Head(m_fifoSend))
    BY <2>1, <2>2
  <2>4. << >> \in Seq(Requests)
    BY EmptySeq
  <2>5. out' \o m_fifoSend' = out \o m_fifoSend
    BY <2>1, <2>3, <2>4, MoveOn
  <2>6. DataTypes'
    BY <2>1, <2>2, <2>3 DEF DataTypes
  <2>7. LineKept
    BY <2>1, <2>5 DEF LineKept, Line, Rest
  <2> QED
    BY <2>1, <2>6, <2>7 DEF Effect, Quiet
<1>3. CASE SenderSend
  <2>1. /\ out' = << >> /\ sender' = "wait" /\ << >> \in Seq(Requests)
        /\ UNCHANGED <<m_StartTrigger, connected, m_fifoSend, m_fifoRecv, fromServer, result, app, calls>>
    BY <1>3, EmptySeq DEF SenderSend
  <2>2. CASE connected
    <3>1. atServer' = atServer \o out /\ UNCHANGED m_Error
      BY <1>3, <2>2 DEF SenderSend
    <3>2. /\ atServer \in Seq(Requests) /\ out \in Seq(Requests) /\ m_fifoSend \in Seq(Requests)
          /\ atServer' \in Seq(Requests)
      BY <3>1, ConcatProperties DEF DataTypes
    <3>3. out' \o m_fifoSend' = m_fifoSend
      BY <2>1, <3>2, ConcatEmptySeq
    <3>4. atServer' \o m_fifoSend = atServer \o (out \o m_fifoSend)
      BY <3>1, <3>2, ConcatAssociative
    <3>5. DataTypes'
      BY <2>1, <3>1, <3>2 DEF DataTypes
    <3>6. LineKept
      BY <2>1, <3>3, <3>4 DEF LineKept, Line, Rest
    <3> QED
      BY <2>1, <3>1, <3>5, <3>6 DEF Effect, Quiet
  <2>3. CASE ~connected
    <3>1. m_Error' = TRUE /\ UNCHANGED atServer
      BY <1>3, <2>3 DEF SenderSend
    <3>2. m_Error' /\ m_Error' \in BOOLEAN
      BY <3>1, Zenon
    <3>3. DataTypes'
      BY <2>1, <3>1, <3>2 DEF DataTypes
    <3> QED
      BY <3>2, <3>3 DEF Effect
  <2> QED
    BY <2>2, <2>3
<1> QED
  BY <1>1, <1>2, <1>3 DEF SenderStep

LEMMA ReceiverEffect ==
  ASSUME DataTypes, ReceiverStep PROVE DataTypes' /\ Effect
<1> USE DEF network, apps
<1>1. CASE ReceiverStart \/ ReceiverCheck \/ ReceiverEnd
  BY <1>1 DEF ReceiverStart, ReceiverCheck, ReceiverEnd, DataTypes, Effect, Quiet, LineKept, Line, Rest
<1>2. CASE ReceiverRecv
  <2>1. UNCHANGED <<m_StartTrigger, connected, sender, m_fifoSend, out, atServer, result, app, calls>>
    BY <1>2 DEF ReceiverRecv
  <2>2. CASE fromServer # << >>
    <3>1. /\ m_fifoRecv' = Append(m_fifoRecv, Head(fromServer)) /\ fromServer' = Tail(fromServer)
          /\ UNCHANGED m_Error
      BY <1>2, <2>2 DEF ReceiverRecv
    <3>2. fromServer \in Seq(Requests) /\ m_fifoRecv \in Seq(Requests)
      BY DEF DataTypes
    <3>3. Head(fromServer) \in Requests /\ Tail(fromServer) \in Seq(Requests)
      BY <2>2, <3>2, HeadTailProperties
    <3>4. m_fifoRecv' \in Seq(Requests)
      BY <3>1, <3>2, <3>3, AppendProperties
    <3> DEFINE v == atServer \o (out \o m_fifoSend)
    <3>5. v \in Seq(Requests)
      BY LineType
    <3>6. Line = m_fifoRecv \o (fromServer \o v)
          /\ Line' = Append(m_fifoRecv, Head(fromServer)) \o (Tail(fromServer) \o v)
      BY <2>1, <3>1 DEF Line, Rest
    <3> HIDE DEF v
    <3>7. Append(m_fifoRecv, Head(fromServer)) \o (Tail(fromServer) \o v)
          = m_fifoRecv \o (fromServer \o v)
      BY <2>2, <3>2, <3>5, MoveOnBefore, Z3
    <3>8. LineKept
      BY <3>6, <3>7, Zenon DEF LineKept
    <3>9. DataTypes'
      BY <2>1, <3>1, <3>3, <3>4 DEF DataTypes
    <3> QED
      BY <2>1, <3>1, <3>8, <3>9 DEF Effect, Quiet
  <2>3. CASE fromServer = << >> /\ connected
    <3>1. UNCHANGED <<m_Error, m_fifoRecv, fromServer>>
      BY <1>2, <2>3 DEF ReceiverRecv
    <3> QED
      BY <2>1, <3>1 DEF DataTypes, Effect, Quiet, LineKept, Line, Rest
  <2>4. CASE fromServer = << >> /\ ~connected
    <3>1. m_Error' = TRUE /\ UNCHANGED <<m_fifoRecv, fromServer>>
      BY <1>2, <2>4 DEF ReceiverRecv
    <3>2. m_Error' /\ m_Error' \in BOOLEAN
      BY <3>1, Zenon
    <3>3. DataTypes'
      BY <2>1, <3>1, <3>2 DEF DataTypes
    <3> QED
      BY <3>2, <3>3 DEF Effect
  <2> QED
    BY <2>2, <2>3, <2>4
<1> QED
  BY <1>1, <1>2 DEF ReceiverStep

LEMMA OthersEffect ==
  ASSUME DataTypes,
         (\E t \in Threads : Call(t) \/ Return(t)) \/ ServerAnswer \/ Disconnect \/ UNCHANGED vars
  PROVE  DataTypes' /\ Effect
<1> USE DEF network, apps
<1>1. ASSUME NEW t \in Threads, Call(t) PROVE DataTypes' /\ Effect
  <2>1. /\ app[t] = "idle" /\ calls[t] < MaxCalls
        /\ app' = [app EXCEPT ![t] = "wait"] /\ calls' = [calls EXCEPT ![t] = @ + 1]
        /\ UNCHANGED <<m_Error, m_StartTrigger, connected, m_fifoRecv, out, atServer, fromServer, result,
                       sender>>
        /\ m_fifoSend' = Append(m_fifoSend, RequestOf(t))
    BY <1>1 DEF Call, RequestOf
  <2>2. RequestOf(t) \in Requests
    BY <2>1, RequestTypes
  <2>3. Line' = Append(Line, RequestOf(t)) /\ m_fifoSend' \in Seq(Requests)
    BY <2>1, <2>2, AskedEffect
  <2>4. app' \in [Threads -> {"idle", "wait"}] /\ calls' \in [Threads -> 0..MaxCalls]
    BY <2>1, BoundAssumption DEF DataTypes
  <2>5. DataTypes'
    BY <2>1, <2>3, <2>4 DEF DataTypes
  <2> QED
    BY <2>1, <2>3, <2>5 DEF Effect, Asked
<1>2. ASSUME NEW t \in Threads, Return(t) PROVE DataTypes' /\ Effect
  <2>1. /\ UNCHANGED <<m_Error, m_StartTrigger, connected, m_fifoSend, m_fifoRecv, out, atServer,
                       fromServer, calls, sender>>
        /\ app' = [app EXCEPT ![t] = "idle"]
    BY <1>2 DEF Return
  <2>2. \/ m_Error /\ result' = result
        \/ result[CommandOf[t]] # << >> /\ result' = [result EXCEPT ![CommandOf[t]] = << >>]
    BY <1>2 DEF Return
  <2>3. result' \in [Slots -> {<< >>} \cup {<<r>> : r \in Requests}]
    BY <2>2 DEF DataTypes
  <2>4. app' \in [Threads -> {"idle", "wait"}]
    BY <2>1 DEF DataTypes
  <2>5. DataTypes' /\ LineKept
    BY <2>1, <2>3, <2>4 DEF DataTypes, LineKept, Line, Rest
  <2> QED
    BY <2>1, <2>2, <2>5 DEF Effect, Returned
<1>3. CASE ServerAnswer
  <2>1. /\ atServer # << >>
        /\ fromServer' = Append(fromServer, Head(atServer)) /\ atServer' = Tail(atServer)
        /\ UNCHANGED <<m_Error, m_StartTrigger, connected, m_fifoSend, m_fifoRecv, out, result, app, calls,
                       sender>>
    BY <1>3 DEF ServerAnswer
  <2>2. atServer # << >> /\ fromServer \in Seq(Requests) /\ atServer \in Seq(Requests)
    BY <2>1 DEF DataTypes
  <2>3. Head(atServer) \in Requests /\ Tail(atServer) \in Seq(Requests)
    BY <2>1, <2>2, HeadTailProperties
  <2>4. fromServer' \in Seq(Requests)
    BY <2>1, <2>2, <2>3, AppendProperties
  <2> DEFINE u == out \o m_fifoSend
  <2>5. u \in Seq(Requests)
    BY LineType
  <2>6. Rest = fromServer \o (atServer \o u)
        /\ Rest' = Append(fromServer, Head(atServer)) \o (Tail(atServer) \o u)
    BY <2>1 DEF Rest
  <2> HIDE DEF u
  <2>7. Append(fromServer, Head(atServer)) \o (Tail(atServer) \o u) = fromServer \o (atServer \o u)
    BY <2>2, <2>5, MoveOnBefore, Z3
  <2>8. Rest' = Rest
    BY <2>6, <2>7, Zenon
  <2>9. DataTypes'
    BY <2>1, <2>3, <2>4 DEF DataTypes
  <2> QED
    BY <2>1, <2>8, <2>9 DEF Effect, Quiet, LineKept, Line
<1>4. CASE Disconnect
  <2>1. UNCHANGED <<m_Error, m_StartTrigger, m_fifoSend, m_fifoRecv, out, atServer, fromServer, result, app,
                    calls, sender>>
    BY <1>4 DEF Disconnect
  <2>2. connected' \in BOOLEAN
    BY <1>4, Zenon DEF Disconnect
  <2>3. DataTypes'
    BY <2>1, <2>2 DEF DataTypes
  <2> QED
    BY <2>1, <2>3 DEF Effect, Quiet, LineKept, Line, Rest
<1>5. CASE UNCHANGED vars
  BY <1>5 DEF vars, DataTypes, Effect, Quiet, LineKept, Line, Rest
<1> QED
  BY <1>1, <1>2, <1>3, <1>4, <1>5

LEMMA StepEffect ==
  ASSUME Counting, DataTypes, [Next]_vars PROVE DataTypes' /\ Effect
<1>1. BeforeTrigger
  BY DEF Counting
<1>2. \/ MainStep \/ Release \/ EntryStep \/ SenderStep \/ ReceiverStep
      \/ (\E t \in Threads : Call(t) \/ Return(t)) \/ ServerAnswer \/ Disconnect \/ UNCHANGED vars
  BY DEF Next, Finished
<1> QED
  BY <1>1, <1>2, MainEffect, EntryEffect, SenderEffect, ReceiverEffect, OthersEffect

-----------------------------------------------------------------------------
(* The types, and whose answer is in a slot.                                *)

LEMMA DataInvariant == Spec => [](Counting /\ DataTypes)
<1>1. Init => Counting /\ DataTypes
  BY CountingInit, DataInit
<1>2. Counting /\ DataTypes /\ [Next]_vars => (Counting /\ DataTypes)'
  BY CountingStep, StepEffect
<1> QED
  BY <1>1, <1>2, PTL DEF Spec

\* Every variable of the client has its type: in particular m_lEndCount never
\* counts a fourth thread.
THEOREM TypeCorrect == Spec => []TypeOK
<1>1. Counting /\ DataTypes => TypeOK
  BY DEF Counting, ThreadTypes, DataTypes, TypeOK
<1> QED
  BY <1>1, DataInvariant, PTL

\* A request for one of the application's commands is of the thread that calls
\* that command, still waits for it, and has not called again.
Mine(r) ==
  r.cmd \in Commands =>
    r.by \in Threads /\ r.cmd = CommandOf[r.by] /\ app[r.by] = "wait" /\ r.id = calls[r.by]

\* There is one request for a command at most, on its way or in its slot.
Owned ==
  /\ \A k \in 1..Len(Line) : Mine(Line[k])
  /\ \A k, l \in 1..Len(Line) : k # l /\ Line[k].cmd = Line[l].cmd => Line[k].cmd \notin Commands
  /\ \A c \in Commands : result[c] # << >> =>
       /\ Mine(result[c][1]) /\ result[c][1].cmd = c
       /\ \A k \in 1..Len(Line) : Line[k].cmd # c

\* No two threads call the same command.
Distinct == \A t, u \in Threads : CommandOf[t] = CommandOf[u] => t = u

LEMMA OwnedInit == Init => Owned
<1> SUFFICES ASSUME Init PROVE Owned
  OBVIOUS
<1>1. /\ m_fifoSend = << >> /\ m_fifoRecv = << >> /\ out = << >> /\ atServer = << >>
      /\ fromServer = << >> /\ result = [s \in Slots |-> << >>]
  BY DEF Init
<1>2. Line = << >>
  BY <1>1 DEF Line, Rest
<1>3. \A c \in Commands : result[c] = << >>
  BY <1>1 DEF Slots
<1> QED
  BY <1>2, <1>3 DEF Owned

LEMMA OwnedAsked ==
  ASSUME Distinct, DataTypes, Owned, Asked PROVE Owned'
<1>1. Line \in Seq(Requests) /\ Len(Line) \in Nat /\ \A k \in 1..Len(Line) : Line[k] \in Requests
  BY LineType, LenProperties, ElementOfSeq
<1>2. ASSUME NEW cmd \in {"select", "create"}, Line' = Append(Line, RequestOfMain(cmd)),
             UNCHANGED <<result, apps>>
      PROVE  Owned'
  <2>1. RequestOfMain(cmd).cmd \notin Commands /\ RequestOfMain(cmd) \in Requests
    BY CommandAssumption, RequestTypes DEF RequestOfMain
  <2>2. /\ Len(Line') = Len(Line) + 1 /\ Line'[Len(Line) + 1] = RequestOfMain(cmd)
        /\ \A k \in 1..Len(Line) : Line'[k] = Line[k]
    BY <1>1, <1>2, <2>1, AppendProperties
  <2>3. \A r : Mine(r)' = Mine(r)
    BY <1>2 DEF Mine, apps
  <2> QED
    BY <1>1, <1>2, <2>1, <2>2, <2>3 DEF Owned, Mine, apps
<1>3. ASSUME NEW t \in Threads, app[t] = "idle", calls[t] < MaxCalls,
             Line' = Append(Line, RequestOf(t)), UNCHANGED result,
             app' = [app EXCEPT ![t] = "wait"], calls' = [calls EXCEPT ![t] = @ + 1]
      PROVE  Owned'
  <2> DEFINE c == CommandOf[t]
  <2>1. /\ RequestOf(t) \in Requests /\ RequestOf(t).cmd = c /\ RequestOf(t).by = t
        /\ RequestOf(t).id = calls[t] + 1 /\ c \in Commands
    BY <1>3, RequestTypes, ThreadAssumption DEF RequestOf
  <2>2. /\ Len(Line') = Len(Line) + 1 /\ Line'[Len(Line) + 1] = RequestOf(t)
        /\ \A k \in 1..Len(Line) : Line'[k] = Line[k]
    BY <1>1, <1>3, <2>1, AppendProperties
  <2>3. \A r : Mine(r) => r.cmd # c
    BY <1>3, <2>1 DEF Mine, Distinct
  <2>4. \A r : Mine(r) => Mine(r)'
    BY <1>3, <2>1 DEF Mine, DataTypes
  <2>5. \A r : r = RequestOf(t) => Mine(r)'
    BY <1>3, <2>1 DEF Mine, DataTypes
  <2>6. result[c] = << >>
    BY <2>1, <2>3 DEF Owned
  <2>7. \A k \in 1..Len(Line) : Line[k].cmd # c
    BY <2>3 DEF Owned
  <2> HIDE DEF c
  <2>8. \A k \in 1..Len(Line') : Mine(Line[k])'
    BY <1>1, <2>2, <2>4, <2>5 DEF Owned, Mine
  <2>9. \A k, l \in 1..Len(Line') : k # l /\ Line'[k].cmd = Line'[l].cmd => Line'[k].cmd \notin Commands
    BY <1>1, <2>1, <2>2, <2>7 DEF Owned
  <2>10. ASSUME NEW d \in Commands, result'[d] # << >>
         PROVE  /\ Mine(result[d][1])' /\ result'[d][1].cmd = d
                /\ \A k \in 1..Len(Line') : Line'[k].cmd # d
    BY <1>1, <1>3, <2>1, <2>2, <2>4, <2>6, <2>10 DEF Owned, Mine
  <2> QED
    BY <2>8, <2>9, <2>10 DEF Owned, Mine
<1> QED
  BY <1>2, <1>3 DEF Asked, apps

LEMMA OwnedTaken ==
  ASSUME DataTypes, Owned, Taken PROVE Owned'
<1>1. Line \in Seq(Requests) /\ Len(Line) \in Nat /\ \A k \in 1..Len(Line) : Line[k] \in Requests
  BY LineType, LenProperties, ElementOfSeq
<1>2. /\ Len(Line) > 0 /\ Len(Line') = Len(Line) - 1
      /\ \A k \in 1..Len(Line') : Line'[k] = Line[k + 1]
      /\ result' = [result EXCEPT ![Line[1].cmd] = <<Line[1]>>]
  BY DEF Taken
<1>3. \A r : Mine(r)' = Mine(r)
  BY DEF Taken, Mine, apps
<1>4. \A k \in 1..Len(Line') : k + 1 \in 1..Len(Line) /\ k + 1 # 1
  BY <1>1, <1>2
<1>5. ASSUME NEW k \in 1..Len(Line') PROVE Mine(Line[k])'
  <2>1. Mine(Line[k + 1]) /\ Line'[k] = Line[k + 1]
    BY <1>2, <1>4 DEF Owned
  <2>2. UNCHANGED <<app, calls>>
    BY DEF Taken, apps
  <2> QED
    BY <2>1, <2>2 DEF Mine
<1>6. ASSUME NEW k \in 1..Len(Line'), NEW l \in 1..Len(Line'), k # l, Line'[k].cmd = Line'[l].cmd
      PROVE  Line'[k].cmd \notin Commands
  <2>1. k + 1 # l + 1 /\ Line[k + 1].cmd = Line[l + 1].cmd
    BY <1>1, <1>2, <1>6
  <2> QED
    BY <1>2, <1>4, <2>1 DEF Owned
<1>7. ASSUME NEW d \in Commands, result'[d] # << >>
      PROVE  /\ Mine(result[d][1])' /\ result'[d][1].cmd = d
             /\ \A k \in 1..Len(Line') : Line'[k].cmd # d
  <2>1. 1 \in 1..Len(Line) /\ Line[1] \in Requests /\ Line[1].cmd \in Slots /\ d \in Slots
    BY <1>1, <1>2 DEF Requests, Slots
  <2>2. CASE Line[1].cmd = d
    <3>1. result'[d] = <<Line[1]>>
      BY <1>2, <2>1, <2>2 DEF DataTypes
    <3>2. \A k \in 1..Len(Line') : Line'[k].cmd # d
      BY <1>2, <1>4, <2>1, <2>2 DEF Owned
    <3> QED
      BY <1>3, <2>1, <2>2, <3>1, <3>2 DEF Owned, Mine
  <2>3. CASE Line[1].cmd # d
    <3>1. result'[d] = result[d]
      BY <1>2, <2>1, <2>3 DEF DataTypes
    <3>2. Mine(result[d][1]) /\ result[d][1].cmd = d /\ \A k \in 1..Len(Line) : Line[k].cmd # d
      BY <1>7, <3>1 DEF Owned
    <3>3. \A k \in 1..Len(Line') : Line'[k].cmd # d
      BY <1>2, <1>4, <3>2
    <3> QED
      BY <1>3, <3>1, <3>2, <3>3 DEF Mine
  <2> QED
    BY <2>2, <2>3
<1> QED
  BY <1>5, <1>6, <1>7 DEF Owned, Mine

LEMMA OwnedReturned ==
  ASSUME Distinct, DataTypes, Owned, Returned PROVE Owned'
<1>1. Line' = Line /\ \A k \in 1..Len(Line) : Line[k] \in Requests
  BY LineType, ElementOfSeq DEF Returned, LineKept
<1>2. ASSUME NEW cmd \in {"select", "create"}, result' = [result EXCEPT ![cmd] = << >>], UNCHANGED apps
      PROVE  Owned'
  <2>1. \A c \in Commands : result'[c] = result[c]
    BY <1>2, CommandAssumption DEF DataTypes, Slots
  <2>2. \A r : Mine(r)' = Mine(r)
    BY <1>2 DEF Mine, apps
  <2> QED
    BY <1>1, <2>1, <2>2 DEF Owned
<1>3. ASSUME NEW t \in Threads, result[CommandOf[t]] # << >>,
             result' = [result EXCEPT ![CommandOf[t]] = << >>],
             app' = [app EXCEPT ![t] = "idle"], UNCHANGED calls
      PROVE  Owned'
  <2> DEFINE c == CommandOf[t]
  <2>1. c \in Commands /\ c \in Slots
    BY ThreadAssumption DEF Slots
  <2>2. result'[c] = << >> /\ \A d \in Commands : d # c => result'[d] = result[d]
    BY <1>3, <2>1 DEF DataTypes, Slots
  <2>3. \A r : Mine(r) /\ r.cmd # c => Mine(r)'
    BY <1>3 DEF Mine, DataTypes
  <2>4. \A k \in 1..Len(Line) : Line[k].cmd # c
    BY <1>3, <2>1 DEF Owned
  <2> HIDE DEF c
  <2>5. \A k \in 1..Len(Line') : Mine(Line[k])'
    BY <1>1, <2>3, <2>4 DEF Owned, Mine
  <2>6. ASSUME NEW d \in Commands, result'[d] # << >>
        PROVE  /\ Mine(result[d][1])' /\ result'[d][1].cmd = d
               /\ \A k \in 1..Len(Line') : Line'[k].cmd # d
    BY <1>1, <2>2, <2>3, <2>6 DEF Owned, Mine
  <2> QED
    BY <1>1, <2>5, <2>6 DEF Owned, Mine
<1> QED
  BY <1>2, <1>3 DEF Returned

\* The answer a waiting call finds in the slot of its command is that of this
\* very call, whatever the threads, the commands and the number of calls, as
\* long as no two threads call the same command.
THEOREM AnswersAreOwn == ASSUME Distinct PROVE Spec => []OwnAnswer
<1> DEFINE OwnedInv == ~m_Error => Owned
<1>1. Init => OwnedInv
  BY OwnedInit
<1>2. Counting /\ DataTypes /\ OwnedInv /\ [Next]_vars => OwnedInv'
  <2> SUFFICES ASSUME Counting, DataTypes, OwnedInv, [Next]_vars, ~m_Error' PROVE Owned'
    OBVIOUS
  <2>1. Effect
    BY StepEffect
  <2>2. Owned
    BY <2>1 DEF Effect
  <2>3. CASE Quiet
    <3>1. \A r : Mine(r)' = Mine(r)
      BY <2>3 DEF Quiet, Mine, apps
    <3> QED
      BY <2>2, <2>3, <3>1 DEF Quiet, LineKept, Owned
  <2> QED
    BY <2>1, <2>2, <2>3, OwnedAsked, OwnedTaken, OwnedReturned DEF Effect
<1>3. DataTypes /\ OwnedInv => OwnAnswer
  <2> SUFFICES ASSUME DataTypes, OwnedInv, NEW t \in Threads,
                      app[t] = "wait", ~m_Error, result[CommandOf[t]] # << >>
               PROVE  result[CommandOf[t]] = <<[cmd |-> CommandOf[t], by |-> t, id |-> calls[t]]>>
    BY DEF OwnAnswer
  <2>1. CommandOf[t] \in Commands /\ CommandOf[t] \in Slots
    BY ThreadAssumption DEF Slots
  <2>2. PICK r \in Requests : result[CommandOf[t]] = <<r>>
    BY <2>1 DEF DataTypes
  <2>3. Mine(r) /\ r.cmd = CommandOf[t]
    BY <2>1, <2>2 DEF Owned
  <2>4. r.by = t /\ r.id = calls[t]
    BY <2>1, <2>3 DEF Mine, Distinct
  <2>5. r = [cmd |-> r.cmd, by |-> r.by, id |-> r.id]
    BY DEF Requests
  <2> QED
    BY <2>2, <2>3, <2>4, <2>5
<1>4. QED
  BY <1>1, <1>2, <1>3, DataInvariant, PTL DEF Spec
=============================================================================
