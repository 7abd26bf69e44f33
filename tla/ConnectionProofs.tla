--------------------------- MODULE ConnectionProofs ---------------------------
(* Theorems about Connection, for every value of its constants.             *)
EXTENDS Connection, SequenceTheorems, WellFoundedInduction, TLAPS

\* While the thread of Reception is starting the others, those it has not
\* started do not exist.
Starting ==
  /\ process = "start" => receiver = "none" /\ sender = "none"
  /\ process = "half" => receiver = "none"

IInv == TypeOK /\ Starting /\ NoThreadOutlivesObject

FifoType(f, S) == f \in [packets : Seq(S), event : BOOLEAN] /\ (f.event <=> f.packets # << >>)

\* A queue's event tells whether it holds packets, after a push,
LEMMA PushFifo ==
  ASSUME NEW S, NEW f, FifoType(f, S), NEW p \in S, NEW isTS \in BOOLEAN, NEW size \in Nat
  PROVE  FifoType(Push(f, p, isTS, size), S)
<1>1. Append(f.packets, p) \in Seq(S) /\ Append(f.packets, p) # << >>
  BY AppendProperties, LenProperties DEF FifoType
<1> QED
  BY <1>1 DEF FifoType, Push

\* and after a pop.
LEMMA PopFifo ==
  ASSUME NEW S, NEW f, FifoType(f, S)
  PROVE  FifoType(Pop(f), S)
<1>1. CASE f.packets = << >>
  <2>1. Len(f.packets) = 0 /\ << >> \in Seq(S)
    BY <1>1, EmptySeq
  <2> QED
    BY <1>1, <2>1 DEF FifoType, Pop
<1>2. CASE f.packets # << >>
  <2>1. /\ Tail(f.packets) \in Seq(S)
        /\ Len(f.packets) \in Nat /\ Len(Tail(f.packets)) = Len(f.packets) - 1
    BY <1>2, HeadTailProperties, LenProperties DEF FifoType
  <2>2. Tail(f.packets) = << >> <=> Len(Tail(f.packets)) = 0
    BY <2>1, EmptySeq
  <2>3. Len(f.packets) # 0
    BY <1>2, EmptySeq DEF FifoType
  <2>4. Tail(f.packets) # << >> <=> Len(f.packets) > 1
    <3> DEFINE n == Len(f.packets)
               t == Tail(f.packets)
    <3>1. n \in Nat /\ n # 0 /\ Len(t) = n - 1 /\ (t = << >> <=> Len(t) = 0)
      BY <2>1, <2>2, <2>3
    <3> HIDE DEF n, t
    <3>2. t # << >> <=> n > 1
      BY <3>1
    <3> QED
      BY <3>2 DEF n, t
  <2> QED
    BY <1>2, <2>1, <2>4 DEF FifoType, Pop
<1> QED
  BY <1>1, <1>2

-----------------------------------------------------------------------------
LEMMA IInvInit == Init => IInv
<1> SUFFICES ASSUME Init PROVE IInv
  OBVIOUS
<1>1. \A S : << >> \in Seq(S)
  BY EmptySeq
<1>2. /\ inWire \in Seq(Commands) /\ outWire \in Seq(0..MaxCommands)
      /\ delivered \in Seq(1..MaxCommands) /\ answered \in Seq(1..MaxCommands)
  BY <1>1 DEF Init
<1>3. /\ m_fifoRecv \in [packets : Seq(Commands), event : BOOLEAN]
      /\ m_fifoSend \in [packets : Seq(0..MaxCommands), event : BOOLEAN]
      /\ m_fifoRecv.event <=> m_fifoRecv.packets # << >>
      /\ m_fifoSend.event <=> m_fifoSend.packets # << >>
  BY <1>1 DEF Init, EmptyFifo
<1>4. /\ hand \in {<< >>} \cup {<<c>> : c \in Commands} /\ (hand # << >> <=> process = "handle")
      /\ out \in {<< >>} \cup {<<p>> : p \in 0..MaxCommands}
  BY DEF Init
<1>5. sent \in 0..MaxCommands /\ tsMade \in 0..MaxTs
  BY BoundAssumption DEF Init
<1>6. TypeOK
  BY <1>2, <1>3, <1>4, <1>5 DEF Init, TypeOK
<1> QED
  BY <1>6 DEF Init, IInv, Starting, NoThreadOutlivesObject

LEMMA ProcessKeeps ==
  ASSUME IInv, ProcessStep PROVE IInv'
<1> USE DEF IInv, TypeOK, Starting, NoThreadOutlivesObject, client, queues
<1>1. ASSUME SpawnSender PROVE IInv'
  BY <1>1 DEF SpawnSender
<1>2. ASSUME SpawnReceiver PROVE IInv'
  BY <1>2 DEF SpawnReceiver
<1>3. ASSUME LoopError PROVE IInv'
  BY <1>3 DEF LoopError
<1>4. ASSUME LoopCommand PROVE IInv'
  <2>1. FifoType(m_fifoRecv, Commands)
    BY DEF FifoType
  <2>2. Head(m_fifoRecv.packets) \in Commands
    BY <1>4, HeadTailProperties DEF LoopCommand
  <2>3. FifoType(m_fifoRecv', Commands)
    BY <1>4, <2>1, PopFifo DEF LoopCommand
  <2>4. /\ m_fifoRecv' \in [packets : Seq(Commands), event : BOOLEAN]
        /\ m_fifoRecv'.event <=> m_fifoRecv'.packets # << >>
    BY <2>3 DEF FifoType
  <2>5. /\ hand' \in {<< >>} \cup {<<c>> : c \in Commands} /\ hand' # << >>
        /\ process' = "handle"
    BY <1>4, <2>2 DEF LoopCommand
  <2> QED
    BY <1>4, <2>4, <2>5 DEF LoopCommand
<1>5. ASSUME LoopShutdown PROVE IInv'
  BY <1>5 DEF LoopShutdown
<1>6. ASSUME Handle PROVE IInv'
  <2>1. hand[1] \in Commands /\ hand[1].id \in 1..MaxCommands /\ hand[1].id \in 0..MaxCommands
    BY <1>6, BoundAssumption DEF Handle, Commands
  <2>2. FifoType(m_fifoSend, 0..MaxCommands) /\ FifoSize \in Nat
    BY SizeAssumption DEF FifoType
  <2>3. FifoType(Push(m_fifoSend, hand[1].id, FALSE, FifoSize), 0..MaxCommands)
    BY <2>1, <2>2, PushFifo
  <2>4. FifoType(m_fifoSend', 0..MaxCommands)
    BY <1>6, <2>2, <2>3 DEF Handle
  <2>5. /\ m_fifoSend' \in [packets : Seq(0..MaxCommands), event : BOOLEAN]
        /\ m_fifoSend'.event <=> m_fifoSend'.packets # << >>
    BY <2>4 DEF FifoType
  <2>6. Append(answered, hand[1].id) \in Seq(1..MaxCommands)
    BY <2>1, AppendProperties
  <2>7. answered' \in Seq(1..MaxCommands)
    BY <1>6, <2>6 DEF Handle
  <2> QED
    BY <1>6, <2>5, <2>7 DEF Handle
<1>7. ASSUME Join PROVE IInv'
  BY <1>7 DEF Join
<1>8. ASSUME Delete PROVE IInv'
  <2>1. << >> \in Seq(Commands) /\ << >> \in Seq(0..MaxCommands)
    BY EmptySeq
  <2> QED
    BY <1>8, <2>1 DEF Delete, EmptyFifo
<1> QED
  BY <1>1, <1>2, <1>3, <1>4, <1>5, <1>6, <1>7, <1>8 DEF ProcessStep

LEMMA ReceiverKeeps ==
  ASSUME IInv, ReceiverStep PROVE IInv'
<1> USE DEF IInv, TypeOK, Starting, NoThreadOutlivesObject, client, queues
<1>1. ASSUME ReceiverCheck PROVE IInv'
  BY <1>1 DEF ReceiverCheck
<1>2. ASSUME ReceiverTimeout PROVE IInv'
  BY <1>2 DEF ReceiverTimeout
<1>3. ASSUME ReceiverRecv PROVE IInv'
  <2>1. inWire # << >> => Head(inWire) \in Commands /\ Tail(inWire) \in Seq(Commands)
    BY HeadTailProperties
  <2>2. FifoType(m_fifoRecv, Commands) /\ FifoSize \in Nat
    BY SizeAssumption DEF FifoType
  <2>3. inWire # << >> => FifoType(Push(m_fifoRecv, Head(inWire), FALSE, FifoSize), Commands)
    BY <2>1, <2>2, PushFifo
  <2>4. FifoType(m_fifoRecv', Commands) /\ inWire' \in Seq(Commands)
    BY <1>3, <2>1, <2>2, <2>3 DEF ReceiverRecv
  <2>5. /\ m_fifoRecv' \in [packets : Seq(Commands), event : BOOLEAN]
        /\ m_fifoRecv'.event <=> m_fifoRecv'.packets # << >>
    BY <2>4 DEF FifoType
  <2> QED
    BY <1>3, <2>4, <2>5 DEF ReceiverRecv
<1> QED
  BY <1>1, <1>2, <1>3 DEF ReceiverStep

LEMMA SenderKeeps ==
  ASSUME IInv, SenderStep PROVE IInv'
<1> USE DEF IInv, TypeOK, Starting, NoThreadOutlivesObject, client, queues
<1>1. ASSUME SenderError PROVE IInv'
  BY <1>1 DEF SenderError
<1>2. ASSUME SenderTake PROVE IInv'
  <2>1. FifoType(m_fifoSend, 0..MaxCommands)
    BY DEF FifoType
  <2>2. Head(m_fifoSend.packets) \in 0..MaxCommands
    BY <1>2, HeadTailProperties DEF SenderTake
  <2>3. FifoType(m_fifoSend', 0..MaxCommands)
    BY <1>2, <2>1, PopFifo DEF SenderTake
  <2>4. /\ m_fifoSend' \in [packets : Seq(0..MaxCommands), event : BOOLEAN]
        /\ m_fifoSend'.event <=> m_fifoSend'.packets # << >>
    BY <2>3 DEF FifoType
  <2> QED
    BY <1>2, <2>2, <2>4 DEF SenderTake
<1>3. ASSUME SenderSend PROVE IInv'
  <2>1. out \in Seq(0..MaxCommands)
    <3>1. << >> \in Seq(0..MaxCommands)
      BY EmptySeq
    <3>2. \A p \in 0..MaxCommands : <<p>> \in Seq(0..MaxCommands)
      OBVIOUS
    <3> QED
      BY <3>1, <3>2
  <2>2. outWire \o out \in Seq(0..MaxCommands)
    BY <2>1, ConcatProperties
  <2> QED
    BY <1>3, <2>2 DEF SenderSend
<1> QED
  BY <1>1, <1>2, <1>3 DEF SenderStep

LEMMA OthersKeep ==
  ASSUME IInv, TsReaderPush \/ (\E k \in Kinds : ClientSend(k)) \/ ClientRead \/ ClientClose \/ Shutdown
  PROVE  IInv'
<1> USE DEF IInv, TypeOK, Starting, NoThreadOutlivesObject, client, queues
<1>1. ASSUME TsReaderPush PROVE IInv'
  <2>1. FifoType(m_fifoSend, 0..MaxCommands) /\ FifoSize \in Nat /\ TS \in 0..MaxCommands
    BY SizeAssumption, BoundAssumption DEF FifoType, TS
  <2>2. FifoType(m_fifoSend', 0..MaxCommands)
    BY <1>1, <2>1, PushFifo DEF TsReaderPush
  <2>3. /\ m_fifoSend' \in [packets : Seq(0..MaxCommands), event : BOOLEAN]
        /\ m_fifoSend'.event <=> m_fifoSend'.packets # << >>
    BY <2>2 DEF FifoType
  <2>4. tsMade' \in 0..MaxTs
    BY <1>1, BoundAssumption DEF TsReaderPush
  <2>5. UNCHANGED <<process, receiver, sender, m_Error, g_ShutdownEvent, m_fifoRecv, hand, out,
                    peerOpen, inWire, outWire, delivered, sent, answered>>
    BY <1>1 DEF TsReaderPush
  <2> QED
    BY <2>3, <2>4, <2>5
<1>2. ASSUME NEW k \in Kinds, ClientSend(k) PROVE IInv'
  <2>1. sent + 1 \in 1..MaxCommands /\ sent' \in 0..MaxCommands
    BY <1>2, BoundAssumption DEF ClientSend
  <2>2. [kind |-> k, id |-> sent + 1] \in Commands
    BY <2>1 DEF Commands
  <2>3. inWire' \in Seq(Commands)
    BY <1>2, <2>2, AppendProperties DEF ClientSend
  <2> QED
    BY <1>2, <2>1, <2>3 DEF ClientSend
<1>3. ASSUME ClientRead PROVE IInv'
  <2>1. Head(outWire) \in 0..MaxCommands /\ Tail(outWire) \in Seq(0..MaxCommands)
    BY <1>3, HeadTailProperties DEF ClientRead
  <2>2. Head(outWire) # TS => Append(delivered, Head(outWire)) \in Seq(1..MaxCommands)
    BY <2>1, BoundAssumption, AppendProperties DEF TS
  <2>3. delivered' \in Seq(1..MaxCommands)
    BY <1>3, <2>2 DEF ClientRead
  <2> QED
    BY <1>3, <2>1, <2>3 DEF ClientRead
<1>4. ASSUME ClientClose PROVE IInv'
  <2>1. outWire' \in Seq(0..MaxCommands)
    BY <1>4, EmptySeq DEF ClientClose
  <2>2. UNCHANGED <<process, receiver, sender, m_Error, g_ShutdownEvent, m_fifoRecv, m_fifoSend,
                    hand, out, inWire, delivered, sent, answered, tsMade>>
        /\ peerOpen' \in BOOLEAN
    BY <1>4 DEF ClientClose
  <2> QED
    BY <2>1, <2>2
<1>5. ASSUME Shutdown PROVE IInv'
  BY <1>5 DEF Shutdown
<1> QED
  BY <1>1, <1>2, <1>3, <1>4, <1>5

LEMMA IInvStep == IInv /\ [Next]_vars => IInv'
<1> SUFFICES ASSUME IInv, [Next]_vars PROVE IInv'
  OBVIOUS
<1>1. CASE UNCHANGED vars
  BY <1>1 DEF vars, IInv, TypeOK, Starting, NoThreadOutlivesObject
<1>2. CASE Next
  BY <1>1, <1>2, ProcessKeeps, ReceiverKeeps, SenderKeeps, OthersKeep DEF Next, Finished
<1> QED
  BY <1>1, <1>2

-----------------------------------------------------------------------------
\* Every variable has its type, and the event of each queue agrees with what is
\* in it: Process() and Sender() never pop an empty queue and never wait at one
\* that holds packets, however long the queues and whichever thread fails.
THEOREM EventTellsQueue == Spec => []TypeOK
<1>1. IInv => TypeOK
  BY DEF IInv
<1> QED
  BY <1>1, IInvInit, IInvStep, PTL DEF Spec

\* The object of a connection is deleted after both of its threads have ended
\* or were never started.
THEOREM DeletedAfterThreads == Spec => []NoThreadOutlivesObject
<1>1. IInv => NoThreadOutlivesObject
  BY DEF IInv
<1> QED
  BY <1>1, IInvInit, IInvStep, PTL DEF Spec

-----------------------------------------------------------------------------
(* AnswersInOrder: the lemmas about Answers rest on induction over the      *)
(* natural numbers, which are well-founded.                                 *)

\* A set of natural numbers that is not empty has a least element.
LEMMA Least ==
  ASSUME NEW T, T \subseteq Nat, T # {}
  PROVE  \E n \in T : \A m \in T : n <= m
<1>1. PICK n \in T : \A m \in T : <<m, n>> \notin OpToRel(<, Nat)
  BY NatLessThanWellFounded, WFMin
<1>2. \A m \in T : ~(m < n)
  BY <1>1, Zenon DEF OpToRel
<1> QED
  BY <1>2

\* Induction over the natural numbers, for sets.
LEMMA Induction ==
  ASSUME NEW S, 0 \in S, \A n \in Nat : n \in S => n + 1 \in S
  PROVE  Nat \subseteq S
<1> SUFFICES ASSUME ~(Nat \subseteq S) PROVE FALSE
  OBVIOUS
<1>1. PICK n \in Nat \ S : \A m \in Nat \ S : n <= m
  BY Least
<1>2. n - 1 \in Nat
  BY <1>1
<1> QED
  BY <1>1, <1>2

\* The function Answers is computed with, for the first m packets of s,
Computes(f, s, m) ==
  f = [n \in 0..m |->
        IF n = 0 THEN << >> ELSE IF s[n] = TS THEN f[n - 1] ELSE Append(f[n - 1], s[n])]

\* exists for every m,
LEMMA Exists ==
  ASSUME NEW s
  PROVE  \A m \in Nat : \E f : Computes(f, s, m)
<1> DEFINE S == {m \in Nat : \E f : Computes(f, s, m)}
<1>1. 0 \in S
  <2>1. Computes([n \in 0..0 |-> << >>], s, 0)
    BY DEF Computes
  <2> QED
    BY <2>1
<1>2. ASSUME NEW m \in Nat, m \in S PROVE m + 1 \in S
  <2>1. PICK f : Computes(f, s, m)
    BY <1>2
  <2> DEFINE g == [n \in 0..(m + 1) |->
                    IF n = m + 1
                    THEN IF s[n] = TS THEN f[m] ELSE Append(f[m], s[n])
                    ELSE f[n]]
             h == [n \in 0..(m + 1) |->
                    IF n = 0 THEN << >> ELSE IF s[n] = TS THEN g[n - 1] ELSE Append(g[n - 1], s[n])]
  <2>2. ASSUME NEW n \in 0..(m + 1) PROVE g[n] = h[n]
    <3>1. CASE n = 0
      BY <2>1, <3>1 DEF Computes
    <3>2. CASE n = m + 1
      <4>1. n - 1 = m /\ n # 0 /\ m \in 0..(m + 1) /\ m # m + 1
        BY <3>2
      <4>2. g[n - 1] = f[m]
        BY <4>1
      <4> QED
        BY <3>2, <4>1, <4>2
    <3>3. CASE n # 0 /\ n # m + 1
      <4>1. n \in 0..m /\ n - 1 \in 0..(m + 1) /\ n - 1 # m + 1
        BY <3>3
      <4>2. g[n] = f[n] /\ g[n - 1] = f[n - 1]
        BY <3>3, <4>1
      <4>3. f[n] = IF s[n] = TS THEN f[n - 1] ELSE Append(f[n - 1], s[n])
        BY <2>1, <3>3, <4>1 DEF Computes
      <4> QED
        BY <3>3, <4>2, <4>3
    <3> QED
      BY <3>1, <3>2, <3>3
  <2>3. g = h
    <3> HIDE DEF g
    <3>1. g = [n \in 0..(m + 1) |-> g[n]]
      BY DEF g
    <3> QED
      BY <2>2, <3>1
  <2>4. Computes(g, s, m + 1)
    <3> HIDE DEF g
    <3> QED
      BY <2>3 DEF Computes
  <2> QED
    BY <2>4
<1> HIDE DEF S
<1>3. Nat \subseteq S
  BY <1>1, <1>2, Induction
<1> QED
  BY <1>3 DEF S

\* depends on those packets only,
LEMMA Agree ==
  ASSUME NEW s, NEW t, NEW m \in Nat, NEW k \in Nat, k <= m, \A n \in 1..k : s[n] = t[n],
         NEW f, Computes(f, s, k), NEW g, Computes(g, t, m)
  PROVE  f[k] = g[k]
<1> DEFINE S == {n \in Nat : n <= k => f[n] = g[n]}
<1>1. 0 \in S
  BY DEF Computes
<1>2. ASSUME NEW n \in Nat, n \in S PROVE n + 1 \in S
  <2> SUFFICES ASSUME n + 1 <= k PROVE f[n + 1] = g[n + 1]
    OBVIOUS
  <2>1. n + 1 \in 0..k /\ n + 1 \in 0..m /\ n + 1 \in 1..k /\ n + 1 # 0 /\ (n + 1) - 1 = n
    OBVIOUS
  <2>2. f[n + 1] = IF s[n + 1] = TS THEN f[n] ELSE Append(f[n], s[n + 1])
    BY <2>1 DEF Computes
  <2>3. g[n + 1] = IF t[n + 1] = TS THEN g[n] ELSE Append(g[n], t[n + 1])
    BY <2>1 DEF Computes
  <2> QED
    BY <1>2, <2>1, <2>2, <2>3
<1> HIDE DEF S
<1>3. k \in S
  BY <1>1, <1>2, Induction
<1> QED
  BY <1>3 DEF S

\* and gives Answers.
LEMMA AnswersIs ==
  ASSUME NEW s, Len(s) \in Nat
  PROVE  \E f : Computes(f, s, Len(s)) /\ Answers(s) = f[Len(s)]
<1> DEFINE f == CHOOSE f : Computes(f, s, Len(s))
<1>1. Computes(f, s, Len(s))
  BY Exists
<1>2. Answers(s) = f[Len(s)]
  BY DEF Answers, Computes
<1> QED
  BY <1>1, <1>2

LEMMA AnswersEmpty == Answers(<< >>) = << >>
<1>1. Len(<< >>) = 0
  OBVIOUS
<1>2. PICK f : Computes(f, << >>, 0) /\ Answers(<< >>) = f[0]
  BY <1>1, AnswersIs
<1> QED
  BY <1>2 DEF Computes

LEMMA AnswersAppend ==
  ASSUME NEW S, NEW s \in Seq(S), NEW p \in S
  PROVE  Answers(Append(s, p)) = IF p = TS THEN Answers(s) ELSE Append(Answers(s), p)
<1> DEFINE t == Append(s, p)
           k == Len(s)
<1>1. k \in Nat /\ Len(t) = k + 1 /\ t[k + 1] = p /\ \A n \in 1..k : s[n] = t[n]
  BY AppendProperties, LenProperties
<1>2. PICK f : Computes(f, s, k) /\ Answers(s) = f[k]
  BY <1>1, AnswersIs
<1>3. PICK g : Computes(g, t, k + 1) /\ Answers(t) = g[k + 1]
  <2>1. Len(t) \in Nat
    BY <1>1
  <2> QED
    BY <1>1, <2>1, AnswersIs
<1> HIDE DEF t, k
<1>4. f[k] = g[k]
  BY <1>1, <1>2, <1>3, Agree
<1>5. g[k + 1] = IF t[k + 1] = TS THEN g[k] ELSE Append(g[k], t[k + 1])
  <2>1. k + 1 \in 0..(k + 1) /\ k + 1 # 0 /\ (k + 1) - 1 = k
    BY <1>1
  <2> QED
    BY <1>3, <2>1 DEF Computes
<1> QED
  BY <1>1, <1>2, <1>3, <1>4, <1>5 DEF t

\* A property of all sequences that holds of the empty one and is kept by Append
\* holds of every sequence.
LEMMA ByAppending ==
  ASSUME NEW S, NEW T, << >> \in T,
         \A s \in Seq(S), p \in S : s \in T => Append(s, p) \in T
  PROVE  Seq(S) \subseteq T
<1> DEFINE N == {n \in Nat : \A s \in Seq(S) : Len(s) = n => s \in T}
<1>1. 0 \in N
  BY EmptySeq
<1>2. ASSUME NEW n \in Nat, n \in N PROVE n + 1 \in N
  <2> SUFFICES ASSUME NEW s \in Seq(S), Len(s) = n + 1 PROVE s \in T
    OBVIOUS
  <2>1. s # << >>
    BY EmptySeq
  <2>2. PICK t \in Seq(S), p \in S : s = Append(t, p)
    BY <2>1, SequenceEmptyOrAppend
  <2>3. Len(t) \in Nat /\ Len(s) = Len(t) + 1
    BY <2>2, AppendProperties, LenProperties
  <2>4. Len(t) = n
    BY <2>3
  <2> QED
    BY <1>2, <2>2, <2>4
<1> HIDE DEF N
<1>3. Nat \subseteq N
  BY <1>1, <1>2, Induction
<1>4. \A s \in Seq(S) : Len(s) \in N
  BY <1>3, LenProperties
<1> QED
  BY <1>4 DEF N

LEMMA AnswersType ==
  ASSUME NEW S, NEW s \in Seq(S)
  PROVE  Answers(s) \in Seq(S \ {TS})
<1> DEFINE T == {t \in Seq(S) : Answers(t) \in Seq(S \ {TS})}
<1>1. << >> \in T
  BY AnswersEmpty, EmptySeq
<1>2. ASSUME NEW t \in Seq(S), NEW p \in S, t \in T PROVE Append(t, p) \in T
  <2>1. Append(t, p) \in Seq(S) /\ Answers(t) \in Seq(S \ {TS})
    BY <1>2, AppendProperties
  <2>2. Answers(Append(t, p)) = IF p = TS THEN Answers(t) ELSE Append(Answers(t), p)
    BY AnswersAppend
  <2>3. p # TS => Append(Answers(t), p) \in Seq(S \ {TS})
    BY <2>1, AppendProperties
  <2> QED
    BY <2>1, <2>2, <2>3
<1> HIDE DEF T
<1>3. s \in T
  BY <1>1, <1>2, ByAppending
<1> QED
  BY <1>3 DEF T

\* The answers of two sequences, one behind the other.
LEMMA AnswersStay ==
  ASSUME NEW S, NEW s \in Seq(S)
  PROVE  Answers(s) \in Seq(S)
<1>1. Seq(S \ {TS}) \subseteq Seq(S)
  BY SeqMonotonic
<1> QED
  BY <1>1, AnswersType

LEMMA AppendToConcat ==
  ASSUME NEW S, NEW s \in Seq(S), NEW t \in Seq(S), NEW p \in S
  PROVE  s \o Append(t, p) = Append(s \o t, p)
<1>1. <<p>> \in Seq(S) /\ s \o t \in Seq(S)
  BY ConcatProperties
<1>2. Append(s \o t, p) = (s \o t) \o <<p>>
  BY <1>1, AppendIsConcat
<1>3. Append(t, p) = t \o <<p>>
  BY AppendIsConcat
<1> QED
  BY <1>1, <1>2, <1>3, ConcatAssociative

LEMMA AnswersConcat ==
  ASSUME NEW S, NEW s \in Seq(S), NEW t \in Seq(S)
  PROVE  Answers(s \o t) = Answers(s) \o Answers(t)
<1> DEFINE T == {u \in Seq(S) : Answers(s \o u) = Answers(s) \o Answers(u)}
<1>1. << >> \in T
  <2>1. << >> \in Seq(S) /\ s \o << >> = s
    BY EmptySeq, ConcatEmptySeq
  <2>2. Answers(s) \o << >> = Answers(s)
    BY AnswersType, ConcatEmptySeq
  <2> QED
    BY <2>1, <2>2, AnswersEmpty
<1>2. ASSUME NEW u \in Seq(S), NEW p \in S, u \in T PROVE Append(u, p) \in T
  <2>1. s \o u \in Seq(S) /\ Append(u, p) \in Seq(S)
    BY ConcatProperties, AppendProperties
  <2>2. s \o Append(u, p) = Append(s \o u, p)
    BY AppendToConcat
  <2>3. Answers(s \o u) = Answers(s) \o Answers(u)
    BY <1>2
  <2>4. Answers(Append(s \o u, p)) = IF p = TS THEN Answers(s \o u) ELSE Append(Answers(s \o u), p)
    BY <2>1, AnswersAppend
  <2>5. Answers(Append(u, p)) = IF p = TS THEN Answers(u) ELSE Append(Answers(u), p)
    BY AnswersAppend
  <2>6. Append(Answers(s) \o Answers(u), p) = Answers(s) \o Append(Answers(u), p)
    <3>1. Answers(s) \in Seq(S) /\ Answers(u) \in Seq(S)
      BY AnswersStay
    <3> DEFINE a == Answers(s)
               b == Answers(u)
    <3>2. a \in Seq(S) /\ b \in Seq(S)
      BY <3>1
    <3> HIDE DEF a, b
    <3>3. a \o Append(b, p) = Append(a \o b, p)
      BY <3>2, AppendToConcat
    <3> QED
      BY <3>3 DEF a, b
  <2> QED
    BY <2>1, <2>2, <2>3, <2>4, <2>5, <2>6
<1> HIDE DEF T
<1>3. t \in T
  BY <1>1, <1>2, ByAppending
<1> QED
  BY <1>3 DEF T

LEMMA AnswersOne ==
  ASSUME NEW S, NEW p \in S
  PROVE  Answers(<<p>>) = IF p = TS THEN << >> ELSE <<p>>
<1>1. <<p>> = Append(<< >>, p) /\ << >> \in Seq(S)
  BY EmptySeq
<1> QED
  BY <1>1, AnswersAppend, AnswersEmpty

-----------------------------------------------------------------------------
\* Sender holds a packet exactly while it is in send().
Sending == out # << >> <=> sender = "send"

\* No TS packet of queue f stands beyond its size.
Bounded(f) == \A k \in 1..Len(f.packets) : f.packets[k] = TS => k <= FifoSize

OInv == IInv /\ Sending /\ AnswersInOrder

LEMMA PushBounded ==
  ASSUME NEW f, FifoType(f, 0..MaxCommands), Bounded(f), NEW p \in 0..MaxCommands,
         NEW isTS \in BOOLEAN, p = TS => isTS
  PROVE  Bounded(Push(f, p, isTS, FifoSize))
<1> DEFINE q == f.packets
           t == Append(q, p)
           n == Len(q)
<1>1. q \in Seq(0..MaxCommands) /\ n \in Nat
  BY LenProperties DEF FifoType
<1>2. Len(t) = n + 1 /\ t[n + 1] = p /\ \A k \in 1..n : t[k] = q[k]
  BY <1>1, AppendProperties
<1>3. CASE n >= FifoSize /\ isTS
  BY <1>3 DEF Push
<1>4. CASE ~(n >= FifoSize /\ isTS)
  <2>1. Push(f, p, isTS, FifoSize).packets = t
    BY <1>4 DEF Push
  <2>2. \A k \in 1..n : q[k] = TS => k <= FifoSize
    BY DEF Bounded
  <2>3. p = TS => n + 1 <= FifoSize
    BY <1>1, <1>4, SizeAssumption
  <2> HIDE DEF q, t, n
  <2>4. \A k \in 1..(n + 1) : t[k] = TS => k <= FifoSize
    BY <1>1, <1>2, <2>2, <2>3
  <2> QED
    BY <1>2, <2>1, <2>4 DEF Bounded
<1> QED
  BY <1>3, <1>4

LEMMA PopBounded ==
  ASSUME NEW f, FifoType(f, 0..MaxCommands), Bounded(f), f.packets # << >>
  PROVE  Bounded(Pop(f))
<1> DEFINE q == f.packets
           t == Tail(q)
           n == Len(q)
<1>1. q \in Seq(0..MaxCommands) /\ q # << >> /\ n \in Nat
  BY LenProperties DEF FifoType
<1>2. Len(t) = n - 1 /\ \A k \in 1..Len(t) : t[k] = q[k + 1]
  BY <1>1, HeadTailProperties
<1>3. Pop(f).packets = t
  BY DEF Pop
<1>4. \A k \in 1..n : q[k] = TS => k <= FifoSize
  BY DEF Bounded
<1> HIDE DEF q, t, n
<1>5. ASSUME NEW k \in 1..Len(t), t[k] = TS PROVE k <= FifoSize
  <2>1. k + 1 \in 1..n /\ q[k + 1] = TS
    BY <1>1, <1>2, <1>5
  <2>2. k + 1 <= FifoSize
    BY <1>4, <2>1
  <2> QED
    BY <2>2, SizeAssumption
<1> QED
  BY <1>3, <1>5 DEF Bounded

LEMMA FirstAndRest ==
  ASSUME NEW S, NEW s \in Seq(S), s # << >>
  PROVE  /\ Head(s) \in S /\ Tail(s) \in Seq(S) /\ <<Head(s)>> \in Seq(S)
         /\ s = <<Head(s)>> \o Tail(s)
<1>1. Head(s) \in S /\ Tail(s) \in Seq(S)
  BY HeadTailProperties
<1>2. <<Head(s)>> \in Seq(S)
  BY <1>1
<1>3. /\ Len(s) \in Nat /\ Len(Tail(s)) = Len(s) - 1 /\ s[1] = Head(s)
      /\ \A i \in 1..Len(Tail(s)) : Tail(s)[i] = s[i + 1]
  BY HeadTailProperties, LenProperties
<1>4. Len(s) # 0
  BY EmptySeq
<1> DEFINE h == Head(s)
           t == Tail(s)
           u == <<h>> \o t
<1>5. /\ u \in Seq(S) /\ Len(<<h>>) = 1 /\ <<h>>[1] = h
      /\ Len(u) = 1 + Len(t) /\ \A i \in 1..(1 + Len(t)) : u[i] = IF i <= 1 THEN <<h>>[i] ELSE t[i - 1]
  BY <1>1, <1>2, ConcatProperties
<1> HIDE DEF h, t, u
<1>6. Len(u) = Len(s)
  BY <1>3, <1>4, <1>5 DEF h, t
<1>7. ASSUME NEW i \in 1..Len(s) PROVE u[i] = s[i]
  <2>1. i = 1 \/ (i - 1 \in 1..Len(t) /\ (i - 1) + 1 = i /\ ~(i <= 1))
    BY <1>3, <1>4 DEF t
  <2> QED
    BY <1>3, <1>4, <1>5, <1>6, <2>1 DEF h, t
<1>8. u = s
  BY <1>5, <1>6, <1>7, SeqEqual
<1> QED
  BY <1>1, <1>2, <1>8 DEF h, t, u

LEMMA Regroup ==
  ASSUME NEW S, NEW s \in Seq(S), NEW t \in Seq(S), NEW u \in Seq(S), NEW v, v = t \o u
  PROVE  s \o v = s \o t \o u
BY ConcatAssociative

\* The four parts of the line of answers are sequences.
LEMMA LineTypes ==
  ASSUME TypeOK
  PROVE  /\ answered \in Seq(0..MaxCommands) /\ delivered \in Seq(0..MaxCommands)
         /\ outWire \in Seq(0..MaxCommands) /\ out \in Seq(0..MaxCommands)
         /\ m_fifoSend.packets \in Seq(0..MaxCommands)
         /\ Answers(outWire) \in Seq(0..MaxCommands) /\ Answers(out) \in Seq(0..MaxCommands)
         /\ Answers(m_fifoSend.packets) \in Seq(0..MaxCommands)
<1>1. Seq(1..MaxCommands) \subseteq Seq(0..MaxCommands)
  <2>1. 1..MaxCommands \subseteq 0..MaxCommands
    BY BoundAssumption
  <2> QED
    BY <2>1, SeqMonotonic
<1>2. out \in Seq(0..MaxCommands)
  <2>1. << >> \in Seq(0..MaxCommands)
    BY EmptySeq
  <2>2. \A p \in 0..MaxCommands : <<p>> \in Seq(0..MaxCommands)
    OBVIOUS
  <2> QED
    BY <2>1, <2>2 DEF TypeOK
<1>3. \A s \in Seq(0..MaxCommands) : Answers(s) \in Seq(0..MaxCommands)
  BY AnswersStay
<1>4. /\ delivered \in Seq(1..MaxCommands) /\ answered \in Seq(1..MaxCommands)
      /\ outWire \in Seq(0..MaxCommands) /\ m_fifoSend.packets \in Seq(0..MaxCommands)
  BY DEF TypeOK
<1>5. answered \in Seq(0..MaxCommands) /\ delivered \in Seq(0..MaxCommands)
  BY <1>1, <1>4
<1> QED
  BY <1>2, <1>3, <1>4, <1>5

LEMMA OInvInit == Init => OInv
<1> SUFFICES ASSUME Init PROVE OInv
  OBVIOUS
<1>1. IInv
  BY IInvInit
<1>2. Sending
  BY DEF Init, Sending
<1>3. << >> \o << >> \o << >> \o << >> = << >> /\ Len(<< >>) = 0
  BY EmptySeq, ConcatEmptySeq
<1>4. AnswersInOrder
  BY <1>3, AnswersEmpty DEF Init, AnswersInOrder, EmptyFifo
<1> QED
  BY <1>1, <1>2, <1>4 DEF OInv

\* Steps that leave the line alone.
LEMMA LineKept ==
  ASSUME OInv, UNCHANGED <<m_fifoSend, out, outWire, delivered, answered>>,
         peerOpen' => peerOpen, process' # "gone" => process # "gone"
  PROVE  AnswersInOrder'
BY DEF OInv, AnswersInOrder

LEMMA HandleOrders ==
  ASSUME OInv, Handle PROVE AnswersInOrder'
<1> DEFINE id == hand[1].id
           q == m_fifoSend.packets
           before == delivered \o Answers(outWire) \o Answers(out)
<1>1. CASE ~(hand[1].kind \in {"ask", "fail"})
  BY <1>1, LineKept DEF Handle, client
<1>2. CASE hand[1].kind \in {"ask", "fail"}
  <2>1. /\ m_fifoSend' = Push(m_fifoSend, id, FALSE, FifoSize)
        /\ answered' = Append(answered, id)
        /\ UNCHANGED <<out, peerOpen, outWire, delivered>> /\ process # "gone"
    BY <1>2 DEF Handle, client
  <2>2. id \in 0..MaxCommands /\ id # TS
    BY BoundAssumption DEF Handle, OInv, IInv, TypeOK, Commands, TS
  <2>3. FifoType(m_fifoSend, 0..MaxCommands) /\ Bounded(m_fifoSend)
    BY DEF OInv, IInv, TypeOK, FifoType, AnswersInOrder, Bounded
  <2>4. Bounded(m_fifoSend')
    BY <2>1, <2>2, <2>3, PushBounded
  <2>5. m_fifoSend'.packets = Append(q, id)
    BY <2>1 DEF Push
  <2>6. Answers(Append(q, id)) = Append(Answers(q), id)
    BY <2>2, AnswersAppend, LineTypes DEF OInv, IInv
  <2>7. before \in Seq(0..MaxCommands) /\ Answers(q) \in Seq(0..MaxCommands)
    BY LineTypes, ConcatProperties DEF OInv, IInv
  <2>8. peerOpen => answered = before \o Answers(q)
    BY <2>1 DEF OInv, AnswersInOrder
  <2> HIDE DEF before, q, id
  <2>9. before \o Append(Answers(q), id) = Append(before \o Answers(q), id)
    <3> DEFINE a == Answers(q)
    <3>1. a \in Seq(0..MaxCommands)
      BY <2>7
    <3> HIDE DEF a
    <3>2. before \o Append(a, id) = Append(before \o a, id)
      BY <2>2, <2>7, <3>1, AppendToConcat
    <3> QED
      BY <3>2 DEF a
  <2>10. peerOpen' => answered' = before \o Answers(m_fifoSend'.packets)
    BY <2>1, <2>5, <2>6, <2>8, <2>9
  <2>11. before = delivered' \o Answers(outWire') \o Answers(out')
    BY <2>1 DEF before
  <2> QED
    BY <2>4, <2>10, <2>11 DEF AnswersInOrder, Bounded
<1> QED
  BY <1>1, <1>2

LEMMA TsOrders ==
  ASSUME OInv, TsReaderPush PROVE AnswersInOrder'
<1> DEFINE q == m_fifoSend.packets
<1>1. /\ m_fifoSend' = Push(m_fifoSend, TS, TRUE, FifoSize)
      /\ UNCHANGED <<process, out, peerOpen, outWire, delivered, answered>>
  BY DEF TsReaderPush, client
<1>2. TS \in 0..MaxCommands
  BY BoundAssumption DEF TS
<1>3. FifoType(m_fifoSend, 0..MaxCommands) /\ Bounded(m_fifoSend)
  BY DEF OInv, IInv, TypeOK, FifoType, AnswersInOrder, Bounded
<1>4. Bounded(m_fifoSend')
  BY <1>1, <1>2, <1>3, PushBounded
<1>5. Answers(Append(q, TS)) = Answers(q)
  BY <1>2, AnswersAppend, LineTypes DEF OInv, IInv
<1>6. Answers(m_fifoSend'.packets) = Answers(q)
  BY <1>1, <1>5 DEF Push
<1> QED
  BY <1>1, <1>4, <1>6 DEF OInv, AnswersInOrder, Bounded

LEMMA TakeOrders ==
  ASSUME OInv, SenderTake PROVE AnswersInOrder'
<1> DEFINE q == m_fifoSend.packets
           before == delivered \o Answers(outWire)
<1>1. q # << >> /\ out = << >> /\ FifoType(m_fifoSend, 0..MaxCommands) /\ Bounded(m_fifoSend)
  BY DEF OInv, IInv, TypeOK, SenderTake, Sending, FifoType, AnswersInOrder, Bounded
<1>2. /\ out' = <<Head(q)>> /\ m_fifoSend' = Pop(m_fifoSend)
      /\ UNCHANGED <<process, peerOpen, outWire, delivered, answered>>
  BY DEF SenderTake, client
<1>3. Bounded(m_fifoSend')
  BY <1>1, <1>2, PopBounded
<1>4. m_fifoSend'.packets = Tail(q)
  BY <1>1, <1>2 DEF Pop
<1>5. /\ q \in Seq(0..MaxCommands) /\ before \in Seq(0..MaxCommands)
      /\ Answers(q) \in Seq(0..MaxCommands)
  BY LineTypes, ConcatProperties DEF OInv, IInv
<1>6. peerOpen /\ process # "gone" => answered = before \o Answers(out) \o Answers(q)
  BY DEF OInv, AnswersInOrder
<1>7. before = delivered' \o Answers(outWire')
  BY <1>2
<1> HIDE DEF q, before
<1>8. Head(q) \in 0..MaxCommands /\ Tail(q) \in Seq(0..MaxCommands) /\ q = <<Head(q)>> \o Tail(q)
  BY <1>1, <1>5, FirstAndRest DEF q
<1>9. out' \in Seq(0..MaxCommands)
  BY <1>2, <1>8
<1>10. Answers(q) = Answers(out') \o Answers(Tail(q))
  BY <1>2, <1>8, <1>9, AnswersConcat
<1>11. Answers(out') \in Seq(0..MaxCommands) /\ Answers(Tail(q)) \in Seq(0..MaxCommands)
  BY <1>8, <1>9, AnswersStay
<1>12. before \o << >> = before
  BY <1>5, ConcatEmptySeq
<1>13. before \o (Answers(out') \o Answers(Tail(q))) = before \o Answers(out') \o Answers(Tail(q))
  BY <1>5, <1>11, Regroup
<1>14. peerOpen' /\ process' # "gone" =>
         answered' = before \o Answers(out') \o Answers(m_fifoSend'.packets)
  BY <1>1, <1>2, <1>4, <1>6, <1>10, <1>12, <1>13, AnswersEmpty
<1> QED
  BY <1>3, <1>7, <1>14 DEF AnswersInOrder, Bounded

LEMMA SendOrders ==
  ASSUME OInv, SenderSend PROVE AnswersInOrder'
<1>1. UNCHANGED <<process, peerOpen, m_fifoSend, delivered, answered>> /\ out' = << >>
  BY DEF SenderSend, queues
<1>2. CASE ~peerOpen
  BY <1>1, <1>2 DEF OInv, AnswersInOrder
<1>3. CASE peerOpen
  <2>1. outWire' = outWire \o out
    BY <1>3 DEF SenderSend
  <2>2. /\ outWire \in Seq(0..MaxCommands) /\ out \in Seq(0..MaxCommands)
        /\ delivered \in Seq(0..MaxCommands)
        /\ Answers(outWire) \in Seq(0..MaxCommands) /\ Answers(out) \in Seq(0..MaxCommands)
    BY LineTypes DEF OInv, IInv
  <2>3. Answers(outWire') = Answers(outWire) \o Answers(out)
    BY <2>1, <2>2, AnswersConcat
  <2>4. delivered \o Answers(outWire') = delivered \o Answers(outWire) \o Answers(out)
    <3>1. delivered \o (Answers(outWire) \o Answers(out))
            = delivered \o Answers(outWire) \o Answers(out)
      BY <2>2, Regroup
    <3> QED
      BY <2>3, <3>1
  <2>5. delivered \o Answers(outWire') \in Seq(0..MaxCommands)
    BY <2>2, <2>4, ConcatProperties
  <2>6. delivered \o Answers(outWire') \o << >> = delivered \o Answers(outWire')
    BY <2>5, ConcatEmptySeq
  <2> QED
    BY <1>1, <2>4, <2>6, AnswersEmpty DEF OInv, AnswersInOrder
<1> QED
  BY <1>2, <1>3

LEMMA ReadOrders ==
  ASSUME OInv, ClientRead PROVE AnswersInOrder'
<1> DEFINE h == Head(outWire)
           t == Tail(outWire)
<1>1. /\ UNCHANGED <<process, peerOpen, m_fifoSend, out, answered>> /\ outWire' = t
      /\ delivered' = IF h = TS THEN delivered ELSE Append(delivered, h)
  BY DEF ClientRead, queues
<1>2. outWire \in Seq(0..MaxCommands) /\ delivered \in Seq(0..MaxCommands) /\ outWire # << >>
  BY LineTypes DEF OInv, IInv, ClientRead
<1>3. h \in 0..MaxCommands /\ t \in Seq(0..MaxCommands) /\ outWire = <<h>> \o t
  BY <1>2, FirstAndRest
<1> HIDE DEF h, t
<1>4. <<h>> \in Seq(0..MaxCommands)
  BY <1>3
<1>5. Answers(outWire) = Answers(<<h>>) \o Answers(t)
  BY <1>3, <1>4, AnswersConcat
<1>6. Answers(<<h>>) \in Seq(0..MaxCommands) /\ Answers(t) \in Seq(0..MaxCommands)
  BY <1>3, <1>4, AnswersStay
<1>7. delivered \o Answers(outWire) = delivered \o Answers(<<h>>) \o Answers(t)
  BY <1>2, <1>5, <1>6, Regroup
<1>8. delivered \o Answers(<<h>>) = delivered'
  <2>1. Answers(<<h>>) = IF h = TS THEN << >> ELSE <<h>>
    BY <1>3, AnswersOne
  <2>2. delivered \o << >> = delivered /\ Append(delivered, h) = delivered \o <<h>>
    BY <1>2, <1>3, ConcatEmptySeq, AppendIsConcat
  <2> QED
    BY <1>1, <2>1, <2>2
<1>9. delivered \o Answers(outWire) = delivered' \o Answers(outWire')
  BY <1>1, <1>7, <1>8
<1> QED
  BY <1>1, <1>9 DEF OInv, AnswersInOrder

\* Every step keeps the line of answers and the order in it.
LEMMA OInvStep == OInv /\ [Next]_vars => OInv'
<1> SUFFICES ASSUME OInv, [Next]_vars PROVE OInv'
  OBVIOUS
<1>1. IInv'
  BY IInvStep DEF OInv
<1> USE DEF client, queues
<1>2. CASE UNCHANGED vars
  BY <1>1, <1>2 DEF vars, OInv, Sending, AnswersInOrder
<1>3. CASE ProcessStep
  <2>1. Sending'
    BY <1>3 DEF ProcessStep, SpawnSender, SpawnReceiver, LoopError, LoopCommand, LoopShutdown, Handle,
                Join, Delete, OInv, Sending, IInv, Starting
  <2>2. ASSUME SpawnSender \/ SpawnReceiver \/ LoopError \/ LoopCommand \/ LoopShutdown \/ Join
        PROVE  AnswersInOrder'
    <3>1. /\ UNCHANGED <<m_fifoSend, out, outWire, delivered, answered, peerOpen>>
          /\ process # "gone"
      BY <2>2 DEF SpawnSender, SpawnReceiver, LoopError, LoopCommand, LoopShutdown, Join
    <3> QED
      BY <3>1, LineKept
  <2>3. ASSUME Delete PROVE AnswersInOrder'
    <3>1. process' = "gone" /\ m_fifoSend'.packets = << >> /\ Len(<< >>) = 0
      BY <2>3 DEF Delete, EmptyFifo
    <3> QED
      BY <3>1 DEF AnswersInOrder
  <2> QED
    BY <1>1, <1>3, <2>1, <2>2, <2>3, HandleOrders DEF ProcessStep, OInv
<1>4. CASE ReceiverStep
  <2>1. UNCHANGED <<process, sender, m_fifoSend, out, outWire, delivered, answered, peerOpen>>
    BY <1>4 DEF ReceiverStep, ReceiverCheck, ReceiverTimeout, ReceiverRecv
  <2> QED
    BY <1>1, <2>1, LineKept DEF OInv, Sending
<1>5. CASE SenderStep
  <2>1. Sending'
    <3>1. \A p : <<p>> # << >>
      OBVIOUS
    <3>2. ASSUME SenderError PROVE Sending'
      BY <3>2 DEF SenderError, OInv, Sending
    <3>3. ASSUME SenderTake PROVE Sending'
      BY <3>1, <3>3 DEF SenderTake, Sending
    <3>4. ASSUME SenderSend PROVE Sending'
      BY <3>4 DEF SenderSend, Sending
    <3> QED
      BY <1>5, <3>2, <3>3, <3>4 DEF SenderStep
  <2>2. ASSUME SenderError PROVE AnswersInOrder'
    BY <2>2, LineKept DEF SenderError
  <2> QED
    BY <1>1, <1>5, <2>1, <2>2, TakeOrders, SendOrders DEF SenderStep, OInv
<1>6. CASE TsReaderPush
  BY <1>1, <1>6, TsOrders DEF OInv, Sending, TsReaderPush
<1>7. ASSUME NEW k \in Kinds, ClientSend(k) PROVE OInv'
  <2>1. UNCHANGED <<process, sender, m_fifoSend, out, outWire, delivered, answered, peerOpen>>
    BY <1>7 DEF ClientSend
  <2> QED
    BY <1>1, <2>1, LineKept DEF OInv, Sending
<1>8. CASE ClientRead
  BY <1>1, <1>8, ReadOrders DEF OInv, Sending, ClientRead
<1>9. CASE ClientClose
  <2>1. ~peerOpen' /\ UNCHANGED <<sender, out, m_fifoSend>>
    BY <1>9 DEF ClientClose
  <2> QED
    BY <1>1, <2>1 DEF OInv, Sending, AnswersInOrder
<1>10. CASE Shutdown
  BY <1>1, <1>10, LineKept DEF OInv, Sending, Shutdown
<1> QED
  BY <1>2, <1>3, <1>4, <1>5, <1>6, <1>7, <1>8, <1>9, <1>10 DEF Next, Finished

\* However full the queue is of TS and whichever thread fails, each answer is
\* sent once, in the order of the commands, and no TS packet stands beyond the
\* size of the queue.
THEOREM EachAnswerOnce == Spec => []AnswersInOrder
<1>1. OInv => AnswersInOrder
  BY DEF OInv
<1> QED
  BY <1>1, OInvInit, OInvStep, PTL DEF Spec
=============================================================================
