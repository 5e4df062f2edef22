------------------------- MODULE FunctorTaskProofs -------------------------
(***************************************************************************)
(* Proofs about CProFunctorCommandTask, for any set of clients and of      *)
(* commands and any number of Start/Stop cycles.                           *)
(***************************************************************************)
EXTENDS FunctorTask, SequenceTheorems, TLAPS

\* One worker exists from Spawn until SvcEnd; the phases of Start and Stop
\* determine what it may be doing.
Lifecycle ==
  /\ m_threadCount = IF wpc = "off" THEN 0 ELSE 1
  /\ wpc = "svc" <=> cpc \in {"startCheck", "startWait"} /\ ~m_threadId
  /\ wpc \notin {"off", "svc"} => m_threadId
  /\ m_wantExit <=> cpc \in {"stopCheck", "stopWait", "stopReset"}
  /\ m_wantExit => m_threadId
  /\ m_threadId /\ wpc = "off" => m_wantExit
  /\ cpc = "stopReset" => wpc = "off"

\* What the worker holds at each point of Svc, and that a draining worker has
\* taken everything there will ever be.
Holds ==
  /\ wpc \in {"exec", "signal"} <=> batch # <<>>
  /\ draining => m_wantExit /\ wpc \in {"exec", "signal", "exit"}
  /\ wpc = "exit" => draining
  /\ draining \/ wpc \in {"off", "svc"} => m_commands = <<>>

\* A latch is set only by the worker that has just executed its command.
LatchMeansExecuted ==
  /\ \A c \in Commands : cond[c] => \E i \in 1..Len(executed) : executed[i] = c
  /\ wpc = "signal" => /\ executed # <<>>
                       /\ executed[Len(executed)] = Head(batch)

IInv == TypeOK /\ Lifecycle /\ Holds /\ NoLostWakeup /\ ExactlyOnceInOrder
        /\ LatchMeansExecuted
-----------------------------------------------------------------------------
(***************************************************************************)
(* Sequences.                                                              *)
(***************************************************************************)

\* A sequence is its head followed by its tail.
LEMMA HeadThenTail ==
  ASSUME NEW S, NEW s \in Seq(S), s # <<>>
  PROVE  <<Head(s)>> \o Tail(s) = s
<1>1. Head(s) \in S /\ Tail(s) \in Seq(S) /\ Len(Tail(s)) = Len(s) - 1
    BY HeadTailProperties
<1>2. \A i \in 1..Len(Tail(s)) : Tail(s)[i] = s[i + 1]
    BY HeadTailProperties
<1> DEFINE r == <<Head(s)>> \o Tail(s)
<1>3. r \in Seq(S) /\ Len(r) = Len(s)
    BY <1>1, <<Head(s)>> \in Seq(S), ConcatProperties
<1>4. ASSUME NEW i \in 1..Len(s) PROVE r[i] = s[i]
    BY <1>1, <1>2
<1> QED
    BY <1>3, <1>4, SeqEqual

\* Head and tail of a concatenation come from its first part.
LEMMA HeadTailOfConcat ==
  ASSUME NEW S, NEW s \in Seq(S), NEW u \in Seq(S), s # <<>>
  PROVE  /\ s \o u # <<>>
         /\ Head(s \o u) = Head(s)
         /\ Tail(s \o u) = Tail(s) \o u
<1>1. /\ s \o u \in Seq(S) /\ Len(s \o u) = Len(s) + Len(u)
      /\ \A i \in 1..(Len(s) + Len(u)) :
           (s \o u)[i] = IF i <= Len(s) THEN s[i] ELSE u[i - Len(s)]
    BY ConcatProperties
<1>2. Len(s) \in Nat /\ Len(u) \in Nat /\ Len(s) > 0
    BY EmptySeq, LenProperties
<1>3. s \o u # <<>> /\ Head(s \o u) = Head(s)
    BY <1>1, <1>2
<1>4. /\ Tail(s) \in Seq(S) /\ Len(Tail(s)) = Len(s) - 1
      /\ \A i \in 1..Len(Tail(s)) : Tail(s)[i] = s[i + 1]
    BY HeadTailProperties
<1>5. /\ Tail(s \o u) \in Seq(S) /\ Len(Tail(s \o u)) = Len(s) + Len(u) - 1
      /\ \A i \in 1..Len(Tail(s \o u)) : Tail(s \o u)[i] = (s \o u)[i + 1]
    BY <1>1, <1>3, HeadTailProperties
<1>6. /\ Tail(s) \o u \in Seq(S) /\ Len(Tail(s) \o u) = Len(s) - 1 + Len(u)
      /\ \A i \in 1..(Len(s) - 1 + Len(u)) :
           (Tail(s) \o u)[i]
             = IF i <= Len(s) - 1 THEN Tail(s)[i] ELSE u[i - (Len(s) - 1)]
    BY <1>4, ConcatProperties
<1>7. ASSUME NEW i \in 1..(Len(s) - 1 + Len(u))
      PROVE  Tail(s \o u)[i] = (Tail(s) \o u)[i]
    BY <1>1, <1>2, <1>4, <1>5, <1>6
<1>8. Tail(s \o u) = Tail(s) \o u
    BY <1>2, <1>5, <1>6, <1>7, SeqEqual
<1> QED
    BY <1>3, <1>8

\* Moving the head of the middle part to the end of the first part.
LEMMA MoveHead ==
  ASSUME NEW S, NEW s \in Seq(S), NEW t \in Seq(S), NEW u \in Seq(S),
         t # <<>>
  PROVE  Append(s, Head(t)) \o (Tail(t) \o u) = s \o (t \o u)
<1>1. Head(t) \in S /\ Tail(t) \in Seq(S) /\ <<Head(t)>> \in Seq(S)
    BY HeadTailProperties
<1>2. Append(s, Head(t)) = s \o <<Head(t)>>
    BY <1>1, AppendIsConcat
<1>3. Tail(t) \o u \in Seq(S)
    BY <1>1, ConcatProperties
<1>4. (s \o <<Head(t)>>) \o (Tail(t) \o u) = s \o (<<Head(t)>> \o (Tail(t) \o u))
    BY <1>1, <1>3, ConcatAssociative, SMTT(30)
<1>5. <<Head(t)>> \o (Tail(t) \o u) = (<<Head(t)>> \o Tail(t)) \o u
    BY <1>1, ConcatAssociative
<1>6. <<Head(t)>> \o Tail(t) = t
    BY HeadThenTail
<1> QED
    BY <1>2, <1>4, <1>5, <1>6
-----------------------------------------------------------------------------
(***************************************************************************)
(* One lemma per conjunct of the invariant, one step per action.           *)
(***************************************************************************)

\* The types, whatever the step.
LEMMA TypeStep == IInv /\ [Next]_vars => TypeOK'
<1> SUFFICES ASSUME IInv, [Next]_vars PROVE TypeOK'
    OBVIOUS
<1> USE DEF IInv, TypeOK, Lifecycle, Holds, WorkerPcs, CtlPcs, queue, life,
            thread, puts, worker, ctl, hist
<1>1. CASE Start
  <2>1. starts' \in 0..MaxStarts
    BY <1>1, MaxStartsAssumption DEF Start
  <2> QED
    BY <1>1, <2>1 DEF Start
<1>2. CASE StartFails
  <2>1. starts' \in 0..MaxStarts
    BY <1>2, MaxStartsAssumption DEF StartFails
  <2> QED
    BY <1>2, <2>1 DEF StartFails
<1>3. CASE StartCheck
    BY <1>3 DEF StartCheck
<1>4. CASE StartWake
    BY <1>4 DEF StartWake
<1>5. CASE Stop
    BY <1>5 DEF Stop
<1>6. CASE StopCheck
    BY <1>6 DEF StopCheck
<1>7. CASE StopWake
    BY <1>7 DEF StopWake
<1>8. CASE StopReset
    BY <1>8 DEF StopReset
<1>9. CASE SvcBegin
    BY <1>9 DEF SvcBegin
<1>10. CASE SvcTakeAll
    BY <1>10 DEF SvcTakeAll
<1>11. CASE SvcTakeOne
    BY <1>11 DEF SvcTakeOne
<1>12. CASE SvcSleep
    BY <1>12 DEF SvcSleep
<1>13. CASE SvcWake
    BY <1>13 DEF SvcWake
<1>14. CASE SvcExecute
    BY <1>14 DEF SvcExecute
<1>15. CASE SvcSignal
    BY <1>15 DEF SvcSignal
<1>16. CASE SvcEnd
  <2>1. m_threadCount = 1
    BY <1>16 DEF SvcEnd
  <2>2. m_threadCount' \in 0..1
    BY <1>16, <2>1 DEF SvcEnd
  <2> QED
    BY <1>16, <2>2 DEF SvcEnd
<1>17. ASSUME NEW t \in Clients, PutReturns(t) PROVE TypeOK'
    BY <1>17 DEF PutReturns
<1>18. ASSUME NEW t \in Clients, NEW c \in Commands, PutBlocking(t, c)
       PROVE  TypeOK'
    BY <1>18 DEF PutBlocking, Enqueue
<1>19. ASSUME NEW c \in Commands, Put(c) PROVE TypeOK'
    BY <1>19 DEF Put, Enqueue
<1>20. CASE UNCHANGED vars
    BY <1>20 DEF vars
<1> QED
    BY <1>1, <1>2, <1>3, <1>4, <1>5, <1>6, <1>7, <1>8, <1>9, <1>10,
       <1>11, <1>12, <1>13, <1>14, <1>15, <1>16, <1>17, <1>18, <1>19, <1>20
    DEF Next, Controller, Svc, Client

\* The phases of Start, Stop and Svc stay in step.
LEMMA LifecycleStep == IInv /\ [Next]_vars => Lifecycle'
<1> SUFFICES ASSUME IInv, [Next]_vars PROVE Lifecycle'
    OBVIOUS
<1> USE DEF IInv, TypeOK, Lifecycle, Holds, WorkerPcs, CtlPcs, queue, life,
            thread, puts, worker, ctl, hist
<1>1. CASE Start
    BY <1>1 DEF Start
<1>2. CASE StartFails
    BY <1>2 DEF StartFails
<1>3. CASE StartCheck
    BY <1>3 DEF StartCheck
<1>4. CASE StartWake
    BY <1>4 DEF StartWake
<1>5. CASE Stop
    BY <1>5 DEF Stop
<1>6. CASE StopCheck
    BY <1>6 DEF StopCheck
<1>7. CASE StopWake
    BY <1>7 DEF StopWake
<1>8. CASE StopReset
    BY <1>8 DEF StopReset
<1>9. CASE SvcBegin
    BY <1>9 DEF SvcBegin
<1>10. CASE SvcTakeAll
    BY <1>10 DEF SvcTakeAll
<1>11. CASE SvcTakeOne
    BY <1>11 DEF SvcTakeOne
<1>12. CASE SvcSleep
    BY <1>12 DEF SvcSleep
<1>13. CASE SvcWake
    BY <1>13 DEF SvcWake
<1>14. CASE SvcExecute
    BY <1>14 DEF SvcExecute
<1>15. CASE SvcSignal
    BY <1>15 DEF SvcSignal
<1>16. CASE SvcEnd
    BY <1>16 DEF SvcEnd
<1>17. ASSUME NEW t \in Clients, PutReturns(t) PROVE Lifecycle'
    BY <1>17 DEF PutReturns
<1>18. ASSUME NEW t \in Clients, NEW c \in Commands, PutBlocking(t, c)
       PROVE  Lifecycle'
    BY <1>18 DEF PutBlocking, Enqueue
<1>19. ASSUME NEW c \in Commands, Put(c) PROVE Lifecycle'
    BY <1>19 DEF Put, Enqueue
<1>20. CASE UNCHANGED vars
    BY <1>20 DEF vars
<1> QED
    BY <1>1, <1>2, <1>3, <1>4, <1>5, <1>6, <1>7, <1>8, <1>9, <1>10,
       <1>11, <1>12, <1>13, <1>14, <1>15, <1>16, <1>17, <1>18, <1>19, <1>20
    DEF Next, Controller, Svc, Client

\* What the worker holds at each point.
LEMMA HoldsStep == IInv /\ [Next]_vars => Holds'
<1> SUFFICES ASSUME IInv, [Next]_vars PROVE Holds'
    OBVIOUS
<1> USE DEF IInv, TypeOK, Lifecycle, Holds, WorkerPcs, CtlPcs, LockFree,
            queue, life, thread, puts, worker, ctl, hist
<1>1. CASE Start
    BY <1>1 DEF Start
<1>2. CASE StartFails
    BY <1>2 DEF StartFails
<1>3. CASE StartCheck
    BY <1>3 DEF StartCheck
<1>4. CASE StartWake
    BY <1>4 DEF StartWake
<1>5. CASE Stop
    BY <1>5 DEF Stop
<1>6. CASE StopCheck
    BY <1>6 DEF StopCheck
<1>7. CASE StopWake
    BY <1>7 DEF StopWake
<1>8. CASE StopReset
    BY <1>8 DEF StopReset
<1>9. CASE SvcBegin
    BY <1>9 DEF SvcBegin
<1>10. CASE SvcTakeAll
    BY <1>10 DEF SvcTakeAll
<1>11. CASE SvcTakeOne
    BY <1>11 DEF SvcTakeOne
<1>12. CASE SvcSleep
    BY <1>12 DEF SvcSleep
<1>13. CASE SvcWake
    BY <1>13 DEF SvcWake
<1>14. CASE SvcExecute
    BY <1>14 DEF SvcExecute
<1>15. CASE SvcSignal
    BY <1>15 DEF SvcSignal
<1>16. CASE SvcEnd
    BY <1>16 DEF SvcEnd
<1>17. ASSUME NEW t \in Clients, PutReturns(t) PROVE Holds'
    BY <1>17 DEF PutReturns
<1>18. ASSUME NEW t \in Clients, NEW c \in Commands, PutBlocking(t, c)
       PROVE  Holds'
    BY <1>18 DEF PutBlocking, Enqueue
<1>19. ASSUME NEW c \in Commands, Put(c) PROVE Holds'
    BY <1>19 DEF Put, Enqueue
<1>20. CASE UNCHANGED vars
    BY <1>20 DEF vars
<1> QED
    BY <1>1, <1>2, <1>3, <1>4, <1>5, <1>6, <1>7, <1>8, <1>9, <1>10,
       <1>11, <1>12, <1>13, <1>14, <1>15, <1>16, <1>17, <1>18, <1>19, <1>20
    DEF Next, Controller, Svc, Client

\* The command latch.
LEMMA WakeupStep == IInv /\ [Next]_vars => NoLostWakeup'
<1> SUFFICES ASSUME IInv, [Next]_vars PROVE NoLostWakeup'
    OBVIOUS
<1> USE DEF IInv, TypeOK, Lifecycle, Holds, NoLostWakeup, queue, life,
            thread, puts, worker, ctl, hist
<1>1. CASE Start
    BY <1>1 DEF Start
<1>2. CASE StartFails
    BY <1>2 DEF StartFails
<1>3. CASE StartCheck
    BY <1>3 DEF StartCheck
<1>4. CASE StartWake
    BY <1>4 DEF StartWake
<1>5. CASE Stop
    BY <1>5 DEF Stop
<1>6. CASE StopCheck
    BY <1>6 DEF StopCheck
<1>7. CASE StopWake
    BY <1>7 DEF StopWake
<1>8. CASE StopReset
    BY <1>8 DEF StopReset
<1>9. CASE SvcBegin
    BY <1>9 DEF SvcBegin
<1>10. CASE SvcTakeAll
    BY <1>10 DEF SvcTakeAll
<1>11. CASE SvcTakeOne
    BY <1>11 DEF SvcTakeOne
<1>12. CASE SvcSleep
    BY <1>12 DEF SvcSleep
<1>13. CASE SvcWake
    BY <1>13 DEF SvcWake
<1>14. CASE SvcExecute
    BY <1>14 DEF SvcExecute
<1>15. CASE SvcSignal
    BY <1>15 DEF SvcSignal
<1>16. CASE SvcEnd
    BY <1>16 DEF SvcEnd
<1>17. ASSUME NEW t \in Clients, PutReturns(t) PROVE NoLostWakeup'
    BY <1>17 DEF PutReturns
<1>18. ASSUME NEW t \in Clients, NEW c \in Commands, PutBlocking(t, c)
       PROVE  NoLostWakeup'
    BY <1>18 DEF PutBlocking, Enqueue
<1>19. ASSUME NEW c \in Commands, Put(c) PROVE NoLostWakeup'
    BY <1>19 DEF Put, Enqueue
<1>20. CASE UNCHANGED vars
    BY <1>20 DEF vars
<1> QED
    BY <1>1, <1>2, <1>3, <1>4, <1>5, <1>6, <1>7, <1>8, <1>9, <1>10,
       <1>11, <1>12, <1>13, <1>14, <1>15, <1>16, <1>17, <1>18, <1>19, <1>20
    DEF Next, Controller, Svc, Client

\* Appending to the queue appends to the commands that are to be executed.
LEMMA EnqueueOrder ==
  ASSUME IInv, NEW c \in Commands, Enqueue(c), UNCHANGED <<executed, wpc, batch>>
  PROVE  ExactlyOnceInOrder'
<1> DEFINE h == IF wpc = "signal" THEN Tail(batch) ELSE batch
           q == h \o m_commands
<1>1. h \in Seq(Commands) /\ h' = h
    BY HeadTailProperties DEF IInv, TypeOK, Holds
<1>2. /\ executed \in Seq(Commands) /\ m_commands \in Seq(Commands)
      /\ <<c>> \in Seq(Commands) /\ accepted \in Seq(Commands)
    BY DEF IInv, TypeOK
<1>3. accepted = executed \o q /\ executed' = executed
    BY DEF IInv, ExactlyOnceInOrder, Unexecuted
<1>4. m_commands' = Append(m_commands, c) /\ accepted' = Append(accepted, c)
    BY DEF Enqueue
<1> HIDE DEF h
<1>5. q \in Seq(Commands)
    BY <1>1, <1>2, ConcatProperties
<1>6. h \o m_commands' = q \o <<c>>
    BY <1>1, <1>2, <1>4, ConcatAssociative, AppendIsConcat
<1> HIDE DEF q
<1>7. accepted' = (executed \o q) \o <<c>>
    BY <1>2, <1>3, <1>4, AppendIsConcat
<1>8. accepted' = executed \o (q \o <<c>>)
    BY <1>2, <1>5, <1>7, ConcatAssociative
<1>9. accepted' = executed' \o (h' \o m_commands')
    BY <1>1, <1>3, <1>6, <1>8
<1> QED
    BY <1>9 DEF h, ExactlyOnceInOrder, Unexecuted

\* Acceptance order is execution order.
LEMMA OrderStep == IInv /\ [Next]_vars => ExactlyOnceInOrder'
<1> SUFFICES ASSUME IInv, [Next]_vars PROVE ExactlyOnceInOrder'
    OBVIOUS
<1> USE DEF IInv, TypeOK, Lifecycle, Holds, ExactlyOnceInOrder, Unexecuted,
            queue, life, thread, puts, worker, ctl, hist
<1>1. CASE Start
    BY <1>1 DEF Start
<1>2. CASE StartFails
    BY <1>2 DEF StartFails
<1>3. CASE StartCheck
    BY <1>3 DEF StartCheck
<1>4. CASE StartWake
    BY <1>4 DEF StartWake
<1>5. CASE Stop
    BY <1>5 DEF Stop
<1>6. CASE StopCheck
    BY <1>6 DEF StopCheck
<1>7. CASE StopWake
    BY <1>7 DEF StopWake
<1>8. CASE StopReset
    BY <1>8 DEF StopReset
<1>9. CASE SvcBegin
    BY <1>9 DEF SvcBegin
<1>10. CASE SvcTakeAll
    BY <1>10, ConcatEmptySeq DEF SvcTakeAll
<1>11. CASE SvcTakeOne
    BY <1>11, ConcatEmptySeq, HeadThenTail DEF SvcTakeOne
<1>12. CASE SvcSleep
    BY <1>12 DEF SvcSleep
<1>13. CASE SvcWake
    BY <1>13 DEF SvcWake
<1>14. CASE SvcExecute
    <2>1. /\ batch \in Seq(Commands) /\ batch # <<>>
          /\ executed \in Seq(Commands) /\ m_commands \in Seq(Commands)
        BY <1>14 DEF SvcExecute
    <2>2. /\ executed' = Append(executed, Head(batch))
          /\ Unexecuted' = Tail(batch) \o m_commands
          /\ accepted' = executed \o (batch \o m_commands)
        BY <1>14 DEF SvcExecute
    <2>3. Append(executed, Head(batch)) \o (Tail(batch) \o m_commands)
            = executed \o (batch \o m_commands)
        BY <2>1, MoveHead, SMTT(30)
    <2> QED
        BY <2>2, <2>3
<1>15. CASE SvcSignal
    BY <1>15 DEF SvcSignal
<1>16. CASE SvcEnd
    BY <1>16 DEF SvcEnd
<1>17. ASSUME NEW t \in Clients, PutReturns(t) PROVE ExactlyOnceInOrder'
    BY <1>17 DEF PutReturns
<1>18. ASSUME NEW t \in Clients, NEW c \in Commands, PutBlocking(t, c)
       PROVE  ExactlyOnceInOrder'
    BY <1>18, EnqueueOrder DEF PutBlocking
<1>19. ASSUME NEW c \in Commands, Put(c) PROVE ExactlyOnceInOrder'
    BY <1>19, EnqueueOrder DEF Put
<1>20. CASE UNCHANGED vars
    BY <1>20 DEF vars
<1> QED
    BY <1>1, <1>2, <1>3, <1>4, <1>5, <1>6, <1>7, <1>8, <1>9, <1>10,
       <1>11, <1>12, <1>13, <1>14, <1>15, <1>16, <1>17, <1>18, <1>19, <1>20
    DEF Next, Controller, Svc, Client

\* A latch is set behind the execution of its command.
LEMMA LatchStep == IInv /\ [Next]_vars => LatchMeansExecuted'
<1> SUFFICES ASSUME IInv, [Next]_vars PROVE LatchMeansExecuted'
    OBVIOUS
<1> USE DEF IInv, TypeOK, Lifecycle, Holds, LatchMeansExecuted, queue,
            life, thread, puts, worker, ctl, hist
<1>1. CASE Start
    BY <1>1 DEF Start
<1>2. CASE StartFails
    BY <1>2 DEF StartFails
<1>3. CASE StartCheck
    BY <1>3 DEF StartCheck
<1>4. CASE StartWake
    BY <1>4 DEF StartWake
<1>5. CASE Stop
    BY <1>5 DEF Stop
<1>6. CASE StopCheck
    BY <1>6 DEF StopCheck
<1>7. CASE StopWake
    BY <1>7 DEF StopWake
<1>8. CASE StopReset
    BY <1>8 DEF StopReset
<1>9. CASE SvcBegin
    BY <1>9 DEF SvcBegin
<1>10. CASE SvcTakeAll
    BY <1>10 DEF SvcTakeAll
<1>11. CASE SvcTakeOne
    BY <1>11 DEF SvcTakeOne
<1>12. CASE SvcSleep
    BY <1>12 DEF SvcSleep
<1>13. CASE SvcWake
    BY <1>13 DEF SvcWake
<1>14. CASE SvcExecute
    BY <1>14 DEF SvcExecute
<1>15. CASE SvcSignal
    BY <1>15 DEF SvcSignal
<1>16. CASE SvcEnd
    BY <1>16 DEF SvcEnd
<1>17. ASSUME NEW t \in Clients, PutReturns(t) PROVE LatchMeansExecuted'
    BY <1>17 DEF PutReturns
<1>18. ASSUME NEW t \in Clients, NEW c \in Commands, PutBlocking(t, c)
       PROVE  LatchMeansExecuted'
    BY <1>18 DEF PutBlocking, Enqueue
<1>19. ASSUME NEW c \in Commands, Put(c) PROVE LatchMeansExecuted'
    BY <1>19 DEF Put, Enqueue
<1>20. CASE UNCHANGED vars
    BY <1>20 DEF vars
<1> QED
    BY <1>1, <1>2, <1>3, <1>4, <1>5, <1>6, <1>7, <1>8, <1>9, <1>10,
       <1>11, <1>12, <1>13, <1>14, <1>15, <1>16, <1>17, <1>18, <1>19, <1>20
    DEF Next, Controller, Svc, Client

\* The constructor establishes the invariant.
LEMMA InitIInv == Init => IInv
<1> SUFFICES ASSUME Init PROVE IInv
    OBVIOUS
<1> USE DEF Init
<1>1. TypeOK
  <2>1. starts \in 0..MaxStarts /\ m_threadCount \in 0..1
    BY MaxStartsAssumption
  <2>2. cond \in [Commands -> BOOLEAN]
    OBVIOUS
  <2>3. waitsFor \in [Clients -> Commands \cup {NoCommand}]
    OBVIOUS
  <2>4. /\ m_commands \in Seq(Commands) /\ batch \in Seq(Commands)
        /\ accepted \in Seq(Commands) /\ executed \in Seq(Commands)
    OBVIOUS
  <2>5. wpc \in WorkerPcs /\ cpc \in CtlPcs /\ blocking \in SUBSET Commands
    BY DEF WorkerPcs, CtlPcs
  <2> QED
    BY <2>1, <2>2, <2>3, <2>4, <2>5 DEF TypeOK
<1>2. Lifecycle /\ Holds /\ NoLostWakeup /\ LatchMeansExecuted
    BY DEF Lifecycle, Holds, NoLostWakeup, LatchMeansExecuted
<1>3. <<>> = <<>> \o (<<>> \o <<>>)
    BY ConcatEmptySeq, <<>> \in Seq({})
<1>4. ExactlyOnceInOrder
    BY <1>3 DEF ExactlyOnceInOrder, Unexecuted
<1> QED
    BY <1>1, <1>2, <1>4 DEF IInv

\* The inductive invariant holds in every reachable state.
THEOREM Invariance == Spec => []IInv
<1>1. IInv /\ [Next]_vars => IInv'
    BY TypeStep, LifecycleStep, HoldsStep, WakeupStep, OrderStep, LatchStep
    DEF IInv
<1> QED
    BY InitIInv, <1>1, PTL DEF Spec

\* Every field keeps its type: in particular at most one worker is counted.
THEOREM TypeCorrect == Spec => []TypeOK
    BY Invariance, PTL DEF IInv

\* Put and Svc lose, duplicate and reorder no command, across Start and Stop.
THEOREM OrderCorrect == Spec => []ExactlyOnceInOrder
    BY Invariance, PTL DEF IInv

\* The worker never sleeps over work or over a pending Stop.
THEOREM WakeupCorrect == Spec => []NoLostWakeup
    BY Invariance, PTL DEF IInv

\* When Stop has returned there is no worker and nothing is left unexecuted.
THEOREM DrainCorrect == Spec => []StoppedMeansDrained
<1>1. IInv => StoppedMeansDrained
  <2> SUFFICES ASSUME IInv, cpc = "idle", ~m_threadId
               PROVE  wpc = "off" /\ m_threadCount = 0 /\ executed = accepted
    BY DEF StoppedMeansDrained
  <2>1. wpc = "off" /\ m_threadCount = 0
    BY DEF IInv, TypeOK, WorkerPcs, Lifecycle
  <2>2. batch = <<>> /\ m_commands = <<>>
    BY <2>1 DEF IInv, Holds
  <2>3. accepted = executed \o (<<>> \o <<>>)
    BY <2>1, <2>2 DEF IInv, ExactlyOnceInOrder, Unexecuted
  <2>4. <<>> \o <<>> = <<>> /\ executed \o <<>> = executed
    BY ConcatEmptySeq DEF IInv, TypeOK
  <2> QED
    BY <2>1, <2>3, <2>4
<1> QED
    BY Invariance, <1>1, PTL

\* A blocking Put comes back only after its command has been executed.
THEOREM SynchronousCorrect == Spec => BlockingPutIsSynchronous
<1> DEFINE P == \A t \in Clients :
                  waitsFor[t] # NoCommand /\ waitsFor'[t] = NoCommand
                    => \E i \in 1..Len(executed) : executed[i] = waitsFor[t]
<1>1. ASSUME IInv, [Next]_vars PROVE P
  <2> SUFFICES ASSUME NEW u \in Clients,
                      waitsFor[u] # NoCommand, waitsFor'[u] = NoCommand
               PROVE  \E i \in 1..Len(executed) : executed[i] = waitsFor[u]
    OBVIOUS
  <2>1. \/ \E t \in Clients : PutReturns(t)
        \/ \E t \in Clients, c \in Commands : PutBlocking(t, c)
        \/ waitsFor' = waitsFor
    BY <1>1 DEF Next, Controller, Svc, Client, vars, queue, life, thread, puts,
                worker, ctl, hist, Start, StartFails, StartCheck, StartWake,
                Stop, StopCheck, StopWake, StopReset, Put, SvcBegin,
                SvcTakeAll, SvcTakeOne, SvcSleep, SvcWake, SvcExecute,
                SvcSignal, SvcEnd
  <2>2. ASSUME NEW t \in Clients, NEW c \in Commands, PutBlocking(t, c)
        PROVE  FALSE
    BY <1>1, <2>2, NoCommandAssumption DEF PutBlocking, IInv, TypeOK
  <2>3. ASSUME NEW t \in Clients, PutReturns(t)
        PROVE  u = t /\ cond[waitsFor[u]] /\ waitsFor[u] \in Commands
    BY <1>1, <2>3 DEF PutReturns, IInv, TypeOK
  <2> QED
    BY <1>1, <2>1, <2>2, <2>3 DEF IInv, LatchMeansExecuted
<1> QED
    BY Invariance, <1>1, PTL DEF Spec, BlockingPutIsSynchronous
-----------------------------------------------------------------------------
(***************************************************************************)
(* The latches on the callers' stacks.                                     *)
(***************************************************************************)

\* c is queued, or the worker has it and has not signalled its latch yet.
Pending(c) ==
  \/ \E i \in 1..Len(batch) : batch[i] = c
  \/ \E i \in 1..Len(m_commands) : m_commands[i] = c

\* A command is accepted once, and a latch belongs to an accepted command.
PutOnce ==
  /\ \A i, j \in 1..Len(accepted) : accepted[i] = accepted[j] => i = j
  /\ \A c \in blocking : ~Fresh(c)

\* The caller of a pending blocking Put is asleep on its latch, and nobody has
\* signalled it.
CallersWait ==
  \A c \in blocking :
    Pending(c) => ~cond[c] /\ \E t \in Clients : waitsFor[t] = c

\* Commands that are neither executed nor fresh are all the worker can signal.
LEMMA PendingAccepted ==
  ASSUME IInv, NEW c \in Commands, Pending(c)
  PROVE  ~Fresh(c)
<1> DEFINE h == IF wpc = "signal" THEN Tail(batch) ELSE batch
           q == h \o m_commands
           Found == \/ \E k \in 1..Len(h) : h[k] = c
                    \/ \E k \in 1..Len(m_commands) : m_commands[k] = c
                    \/ \E k \in 1..Len(executed) : executed[k] = c
<1>1. /\ batch \in Seq(Commands) /\ m_commands \in Seq(Commands)
      /\ executed \in Seq(Commands) /\ accepted \in Seq(Commands)
      /\ wpc = "signal" => batch # <<>>
    BY DEF IInv, TypeOK, Holds
<1>2. h \in Seq(Commands)
    BY <1>1, HeadTailProperties
<1>3. accepted = executed \o q
    BY DEF IInv, ExactlyOnceInOrder, Unexecuted
<1>4. Found
  <2>1. CASE wpc # "signal"
      BY <2>1 DEF Pending
  <2>2. ASSUME wpc = "signal", NEW i \in 1..Len(batch), batch[i] = c PROVE Found
    <3>1. /\ Len(Tail(batch)) = Len(batch) - 1
          /\ \A k \in 1..Len(Tail(batch)) : Tail(batch)[k] = batch[k + 1]
        BY <1>1, <2>2, HeadTailProperties
    <3>2. CASE i = 1
      <4>1. Len(executed) \in 1..Len(executed) /\ executed[Len(executed)] = Head(batch)
          BY <1>1, <2>2, EmptySeq, LenProperties DEF IInv, LatchMeansExecuted
      <4>2. Head(batch) = c
          BY <1>1, <2>2, <3>2
      <4> QED BY <4>1, <4>2
    <3>3. CASE i # 1
      <4>1. i - 1 \in 1..Len(Tail(batch)) /\ Tail(batch)[i - 1] = c
          BY <1>1, <2>2, <3>1, <3>3
      <4> QED BY <2>2, <4>1
    <3> QED BY <3>2, <3>3
  <2> QED BY <2>1, <2>2 DEF Pending
<1> HIDE DEF h
<1>5. /\ Len(q) = Len(h) + Len(m_commands) /\ q \in Seq(Commands)
      /\ \A i \in 1..(Len(h) + Len(m_commands)) :
           q[i] = IF i <= Len(h) THEN h[i] ELSE m_commands[i - Len(h)]
    BY <1>1, <1>2, ConcatProperties
<1> HIDE DEF q
<1>6. /\ Len(accepted) = Len(executed) + Len(q)
      /\ \A i \in 1..(Len(executed) + Len(q)) :
           accepted[i] = IF i <= Len(executed) THEN executed[i] ELSE q[i - Len(executed)]
    BY <1>1, <1>3, <1>5, ConcatProperties
<1>7. Len(h) \in Nat /\ Len(m_commands) \in Nat /\ Len(executed) \in Nat /\ Len(q) \in Nat
    BY <1>1, <1>2, <1>5, LenProperties
<1>8. ASSUME NEW i \in 1..Len(q), q[i] = c PROVE ~Fresh(c)
  <2>1. /\ i + Len(executed) \in 1..Len(accepted)
        /\ accepted[i + Len(executed)] = c
      BY <1>6, <1>7, <1>8
  <2> QED BY <2>1 DEF Fresh
<1>9. CASE \E i \in 1..Len(h) : h[i] = c
    BY <1>5, <1>7, <1>8, <1>9
<1>10. ASSUME NEW i \in 1..Len(m_commands), m_commands[i] = c PROVE ~Fresh(c)
  <2>1. /\ i + Len(h) \in 1..(Len(h) + Len(m_commands)) /\ ~(i + Len(h) <= Len(h))
        /\ (i + Len(h)) - Len(h) = i
      BY <1>7, <1>10
  <2>2. i + Len(h) \in 1..Len(q) /\ q[i + Len(h)] = c
      BY <1>5, <1>10, <2>1
  <2> QED BY <1>8, <2>2
<1>11. ASSUME NEW i \in 1..Len(executed), executed[i] = c PROVE ~Fresh(c)
  <2>1. i \in 1..Len(accepted) /\ accepted[i] = c
      BY <1>6, <1>7, <1>11
  <2> QED BY <2>1 DEF Fresh
<1> QED BY <1>4, <1>9, <1>10, <1>11

\* What has just been executed is not in the worker's hands a second time.
LEMMA SignalledOnce ==
  ASSUME IInv, PutOnce, wpc = "signal"
  PROVE  /\ \A i \in 1..Len(Tail(batch)) : Tail(batch)[i] # Head(batch)
         /\ \A i \in 1..Len(m_commands) : m_commands[i] # Head(batch)
<1> DEFINE h == Tail(batch)
           q == h \o m_commands
           n == Len(executed)
<1>1. /\ batch \in Seq(Commands) /\ m_commands \in Seq(Commands)
      /\ executed \in Seq(Commands) /\ accepted \in Seq(Commands)
      /\ batch # <<>>
    BY DEF IInv, TypeOK, Holds
<1>2. h \in Seq(Commands)
    BY <1>1, HeadTailProperties
<1>3. accepted = executed \o q
    BY DEF IInv, ExactlyOnceInOrder, Unexecuted
<1>4. executed # <<>> /\ executed[n] = Head(batch)
    BY DEF IInv, LatchMeansExecuted
<1> HIDE DEF h
<1>5. /\ Len(q) = Len(h) + Len(m_commands) /\ q \in Seq(Commands)
      /\ \A i \in 1..(Len(h) + Len(m_commands)) :
           q[i] = IF i <= Len(h) THEN h[i] ELSE m_commands[i - Len(h)]
    BY <1>1, <1>2, ConcatProperties
<1> HIDE DEF q
<1>6. /\ Len(accepted) = Len(executed) + Len(q)
      /\ \A i \in 1..(Len(executed) + Len(q)) :
           accepted[i] = IF i <= Len(executed) THEN executed[i] ELSE q[i - Len(executed)]
  <2>1. executed \in Seq(Commands) /\ q \in Seq(Commands)
      BY <1>1, <1>5
  <2> QED BY <1>3, <2>1, ConcatProperties
<1>7. Len(h) \in Nat /\ Len(m_commands) \in Nat /\ n \in Nat /\ n > 0 /\ Len(q) \in Nat
    BY <1>1, <1>2, <1>4, <1>5, LenProperties, EmptySeq
<1> HIDE DEF n
<1>8. ASSUME NEW i \in 1..Len(q) PROVE q[i] # Head(batch)
  <2>1. /\ i + n \in 1..Len(accepted) /\ n \in 1..Len(accepted)
        /\ accepted[i + n] = q[i] /\ accepted[n] = Head(batch)
      BY <1>4, <1>6, <1>7, <1>8 DEF n
  <2>2. i + n # n
      BY <1>7, <1>8
  <2> QED BY <2>1, <2>2 DEF PutOnce
<1>9. ASSUME NEW i \in 1..Len(h) PROVE h[i] # Head(batch)
    BY <1>5, <1>7, <1>8
<1>10. ASSUME NEW i \in 1..Len(m_commands) PROVE m_commands[i] # Head(batch)
  <2>1. /\ i + Len(h) \in 1..(Len(h) + Len(m_commands)) /\ ~(i + Len(h) <= Len(h))
        /\ (i + Len(h)) - Len(h) = i
      BY <1>7, <1>10
  <2>2. i + Len(h) \in 1..Len(q) /\ q[i + Len(h)] = m_commands[i]
      BY <1>5, <1>10, <2>1
  <2> QED BY <1>8, <2>2
<1> QED BY <1>9, <1>10 DEF h

\* Put accepts only what is fresh.
LEMMA EnqueueOnce ==
  ASSUME IInv, PutOnce, NEW c \in Commands, Enqueue(c),
         blocking' \in {blocking, blocking \cup {c}}
  PROVE  PutOnce'
<1>1. /\ accepted \in Seq(Commands) /\ accepted' = Append(accepted, c)
      /\ \A i \in 1..Len(accepted) : accepted[i] # c
    BY DEF IInv, TypeOK, Enqueue, Fresh
<1>2. /\ Len(accepted') = Len(accepted) + 1 /\ Len(accepted) \in Nat
      /\ \A i \in 1..Len(accepted) : accepted'[i] = accepted[i]
      /\ accepted'[Len(accepted) + 1] = c
    BY <1>1, AppendProperties, LenProperties
<1>3. \A i, j \in 1..Len(accepted') : accepted'[i] = accepted'[j] => i = j
    BY <1>1, <1>2 DEF PutOnce
<1>4. ASSUME NEW d \in blocking' PROVE ~Fresh(d)'
  <2>1. CASE d = c
      BY <1>2, <2>1 DEF Fresh
  <2>2. CASE d # c
    <3>1. PICK i \in 1..Len(accepted) : accepted[i] = d
        BY <2>2 DEF PutOnce, Fresh
    <3>2. i \in 1..Len(accepted') /\ accepted'[i] = d
        BY <1>2, <3>1
    <3> QED BY <3>2 DEF Fresh
  <2> QED BY <2>1, <2>2
<1> QED BY <1>3, <1>4 DEF PutOnce

\* Put and the callers: the new command is pending, with its caller asleep.
LEMMA EnqueueWaits ==
  ASSUME IInv, NEW c \in Commands, Enqueue(c), UNCHANGED batch
  PROVE  \A d \in Commands : Pending(d)' => Pending(d) \/ d = c
<1>1. m_commands \in Seq(Commands) /\ m_commands' = Append(m_commands, c)
    BY DEF IInv, TypeOK, Enqueue
<1>2. /\ Len(m_commands') = Len(m_commands) + 1 /\ Len(m_commands) \in Nat
      /\ \A i \in 1..Len(m_commands) : m_commands'[i] = m_commands[i]
      /\ m_commands'[Len(m_commands) + 1] = c
    BY <1>1, AppendProperties, LenProperties
<1> QED BY <1>2 DEF Pending

LEMMA CallersStep ==
  ASSUME IInv, PutOnce, CallersWait, [Next]_vars
  PROVE  PutOnce' /\ CallersWait'
<1>0. /\ \A c \in blocking : c \in Commands
      /\ m_commands \in Seq(Commands) /\ batch \in Seq(Commands)
    BY DEF IInv, TypeOK
<1>1. ASSUME UNCHANGED <<accepted, blocking, cond, waitsFor>>,
             \A c \in Commands : Pending(c)' => Pending(c)
      PROVE  PutOnce' /\ CallersWait'
    BY <1>0, <1>1 DEF PutOnce, CallersWait, Fresh
<1>2. ASSUME UNCHANGED <<accepted, blocking, cond, waitsFor, batch, m_commands>>
      PROVE  PutOnce' /\ CallersWait'
    BY <1>1, <1>2 DEF Pending
<1>3. CASE Controller \/ SvcBegin \/ SvcSleep \/ SvcWake \/ SvcExecute \/ SvcEnd
    BY <1>2, <1>3
    DEF Controller, Start, StartFails, StartCheck, StartWake, Stop, StopCheck, StopWake,
        StopReset, SvcBegin, SvcSleep, SvcWake, SvcExecute, SvcEnd,
        queue, puts, worker, hist
<1>4. CASE SvcTakeAll
  <2>1. \A c \in Commands : Pending(c)' => Pending(c)
      BY <1>4 DEF SvcTakeAll, Pending
  <2> QED BY <1>1, <1>4, <2>1 DEF SvcTakeAll, puts, hist
<1>5. CASE SvcTakeOne
  <2>1. /\ m_commands # <<>> /\ batch' = <<Head(m_commands)>>
        /\ m_commands' = Tail(m_commands)
      BY <1>5 DEF SvcTakeOne
  <2>2. /\ Len(Tail(m_commands)) = Len(m_commands) - 1
        /\ \A i \in 1..Len(Tail(m_commands)) : Tail(m_commands)[i] = m_commands[i + 1]
        /\ Head(m_commands) = m_commands[1] /\ Len(m_commands) \in Nat \ {0}
      BY <1>0, <2>1, HeadTailProperties, EmptySeq, LenProperties
  <2>3. \A c \in Commands : Pending(c)' => Pending(c)
      BY <2>1, <2>2 DEF Pending
  <2> QED BY <1>1, <1>5, <2>3 DEF SvcTakeOne, puts, hist
<1>6. CASE SvcSignal
  <2>1. /\ batch # <<>> /\ wpc = "signal" /\ batch' = Tail(batch)
        /\ UNCHANGED <<m_commands, accepted, blocking, waitsFor>>
        /\ cond' = [cond EXCEPT ![Head(batch)] = @ \/ Head(batch) \in blocking]
      BY <1>6 DEF SvcSignal, IInv, Holds, queue, hist
  <2>2. /\ Len(Tail(batch)) = Len(batch) - 1
        /\ \A i \in 1..Len(Tail(batch)) : Tail(batch)[i] = batch[i + 1]
        /\ Head(batch) = batch[1] /\ Len(batch) \in Nat \ {0}
      BY <1>0, <2>1, HeadTailProperties, EmptySeq, LenProperties
  <2>3. \A c \in Commands : Pending(c)' => Pending(c)
      BY <2>1, <2>2 DEF Pending
  <2>4. \A c \in Commands : Pending(c)' => c # Head(batch)
      BY <2>1, SignalledOnce DEF Pending
  <2>5. \A c \in Commands : c # Head(batch) => cond'[c] = cond[c]
      BY <2>1 DEF IInv, TypeOK
  <2> QED BY <1>0, <2>1, <2>3, <2>4, <2>5 DEF PutOnce, CallersWait, Fresh
<1>7. ASSUME NEW t \in Clients, PutReturns(t) PROVE PutOnce' /\ CallersWait'
  <2>1. /\ UNCHANGED <<accepted, blocking, batch, m_commands>>
        /\ cond[waitsFor[t]]
        /\ cond' = [cond EXCEPT ![waitsFor[t]] = FALSE]
        /\ waitsFor' = [waitsFor EXCEPT ![t] = NoCommand]
      BY <1>7 DEF PutReturns, queue, worker, hist
  <2>2. \A c \in Commands : Pending(c)' = Pending(c)
      BY <2>1 DEF Pending
  <2>3. \A c \in Commands : ~cond[c] => ~cond'[c]
      BY <2>1 DEF IInv, TypeOK
  <2>4. \A c \in Commands, u \in Clients :
          ~cond[c] /\ waitsFor[u] = c => waitsFor'[u] = c
      BY <2>1 DEF IInv, TypeOK
  <2>5. CallersWait'
      BY <1>0, <2>1, <2>2, <2>3, <2>4 DEF CallersWait
  <2> QED BY <2>1, <2>5 DEF PutOnce, Fresh
<1>8. ASSUME NEW t \in Clients, NEW c \in Commands, PutBlocking(t, c)
      PROVE  PutOnce' /\ CallersWait'
  <2>1. /\ Enqueue(c) /\ UNCHANGED batch /\ waitsFor[t] = NoCommand
        /\ blocking' = blocking \cup {c}
        /\ cond' = [cond EXCEPT ![c] = FALSE]
        /\ waitsFor' = [waitsFor EXCEPT ![t] = c]
      BY <1>8 DEF PutBlocking, worker
  <2>2. PutOnce'
      BY <2>1, EnqueueOnce
  <2>3. \A d \in Commands : ~cond[d] \/ d = c => ~cond'[d]
      BY <2>1 DEF IInv, TypeOK
  <2>4. \A d \in Commands, u \in Clients : waitsFor[u] = d => waitsFor'[u] = d
      BY <2>1, NoCommandAssumption DEF IInv, TypeOK
  <2>5. waitsFor'[t] = c
      BY <2>1 DEF IInv, TypeOK
  <2>6. CallersWait'
      BY <1>0, <2>1, <2>3, <2>4, <2>5, EnqueueWaits DEF CallersWait
  <2> QED BY <2>2, <2>6
<1>9. ASSUME NEW c \in Commands, Put(c) PROVE PutOnce' /\ CallersWait'
  <2>1. Enqueue(c) /\ UNCHANGED <<batch, blocking, cond, waitsFor>>
      BY <1>9 DEF Put, worker, puts
  <2>2. c \notin blocking
      BY <2>1 DEF PutOnce, Enqueue
  <2> QED BY <1>0, <2>1, <2>2, EnqueueOnce, EnqueueWaits DEF CallersWait
<1>10. CASE UNCHANGED vars
    BY <1>2, <1>10 DEF vars, queue, puts, worker, hist
<1> QED
    BY <1>3, <1>4, <1>5, <1>6, <1>7, <1>8, <1>9, <1>10 DEF Next, Svc, Client

(***************************************************************************)
(* cond->Signal() writes to a latch on the stack of a thread that is still *)
(* inside Put, whether the main loop or the drain loop signals it.         *)
(***************************************************************************)
THEOREM LatchCorrect == Spec => []LatchOnLiveStack
<1>1. Init => PutOnce /\ CallersWait
    BY DEF Init, PutOnce, CallersWait
<1>2. IInv /\ PutOnce /\ CallersWait /\ [Next]_vars => PutOnce' /\ CallersWait'
    BY CallersStep
<1>3. ASSUME IInv, CallersWait PROVE LatchOnLiveStack
  <2>1. wpc = "signal" => 1 \in 1..Len(batch) /\ batch[1] = Head(batch)
      BY <1>3, EmptySeq, LenProperties DEF IInv, TypeOK, Holds
  <2> QED BY <1>3, <2>1 DEF LatchOnLiveStack, CallersWait, Pending
<1> QED BY <1>1, <1>2, <1>3, Invariance, PTL DEF Spec
-----------------------------------------------------------------------------
\* Every step of the task is a step of the mailbox or leaves it unchanged.
LEMMA MailboxStep ==
  ASSUME IInv, [Next]_vars
  PROVE  [MailboxView!MailNext]_(MailboxView!mvars)
<1> DEFINE Same == UNCHANGED <<Unexecuted, executed>>
<1> SUFFICES \/ Same
             \/ MailboxView!ExecuteOldest
             \/ \E c \in Commands : MailboxView!Accept(c)
    BY DEF MailboxView!MailNext, MailboxView!mvars
<1> USE DEF queue, life, thread, puts, worker, ctl, hist
<1>1. CASE \/ Start \/ StartFails \/ StartCheck \/ StartWake \/ Stop
           \/ StopCheck \/ StopWake \/ StopReset \/ SvcBegin \/ SvcSleep
           \/ SvcWake \/ SvcEnd \/ UNCHANGED vars
           \/ \E t \in Clients : PutReturns(t)
  <2>1. UNCHANGED <<batch, m_commands, executed>>
    BY <1>1 DEF Start, StartFails, StartCheck, StartWake, Stop, StopCheck,
                StopWake, StopReset, SvcBegin, SvcSleep, SvcWake, SvcEnd,
                PutReturns, vars
  <2>2. wpc' = wpc \/ (wpc # "signal" /\ wpc' # "signal")
    BY <1>1 DEF Start, StartFails, StartCheck, StartWake, Stop, StopCheck,
                StopWake, StopReset, SvcBegin, SvcSleep, SvcWake, SvcEnd,
                PutReturns, vars, IInv, Lifecycle, TypeOK, WorkerPcs
  <2> QED
    BY <2>1, <2>2 DEF Unexecuted
<1>2. CASE SvcTakeAll
    BY <1>2, ConcatEmptySeq DEF SvcTakeAll, Unexecuted, IInv, TypeOK, Holds
<1>3. CASE SvcTakeOne
    BY <1>3, ConcatEmptySeq, HeadThenTail
    DEF SvcTakeOne, Unexecuted, IInv, TypeOK, Holds
<1>4. CASE SvcSignal
    BY <1>4 DEF SvcSignal, Unexecuted, IInv, TypeOK, Holds
<1>5. CASE SvcExecute
  <2>1. /\ batch \in Seq(Commands) /\ batch # <<>>
        /\ m_commands \in Seq(Commands)
    BY <1>5 DEF SvcExecute, IInv, TypeOK, Holds
  <2>2. Unexecuted = batch \o m_commands /\ Unexecuted' = Tail(batch) \o m_commands
    BY <1>5 DEF SvcExecute, Unexecuted
  <2>3. /\ batch \o m_commands # <<>>
        /\ Head(batch \o m_commands) = Head(batch)
        /\ Tail(batch \o m_commands) = Tail(batch) \o m_commands
    BY <2>1, HeadTailOfConcat
  <2>4. executed' = Append(executed, Head(batch))
    BY <1>5 DEF SvcExecute
  <2> QED
    BY <2>2, <2>3, <2>4 DEF MailboxView!ExecuteOldest
<1>6. ASSUME NEW c \in Commands, Enqueue(c), UNCHANGED <<executed, wpc, batch>>
      PROVE  MailboxView!Accept(c)
  <2> DEFINE h == IF wpc = "signal" THEN Tail(batch) ELSE batch
  <2>1. h \in Seq(Commands) /\ h' = h /\ m_commands \in Seq(Commands)
    BY <1>6, HeadTailProperties DEF IInv, TypeOK, Holds
  <2>2. m_commands' = Append(m_commands, c)
    BY <1>6 DEF Enqueue
  <2>3. Unexecuted = h \o m_commands /\ Unexecuted' = h' \o m_commands'
    BY DEF Unexecuted
  <2> HIDE DEF h
  <2>4. h \o m_commands \in Seq(Commands) /\ <<c>> \in Seq(Commands)
    BY <2>1, ConcatProperties
  <2>5. h \o Append(m_commands, c) = (h \o m_commands) \o <<c>>
    BY <2>1, <2>4, ConcatAssociative, AppendIsConcat
  <2>6. (h \o m_commands) \o <<c>> = Append(h \o m_commands, c)
    BY <2>4, AppendIsConcat
  <2>7. Unexecuted' = Append(Unexecuted, c)
    BY <2>1, <2>2, <2>3, <2>5, <2>6
  <2> QED
    BY <1>6, <2>7 DEF MailboxView!Accept
<1>7. ASSUME NEW c \in Commands, Put(c) \/ \E t \in Clients : PutBlocking(t, c)
      PROVE  MailboxView!Accept(c)
    BY <1>6, <1>7 DEF Put, PutBlocking
<1> QED
    BY <1>1, <1>2, <1>3, <1>4, <1>5, <1>7 DEF Next, Controller, Svc, Client

\* The task implements the mailbox: commands leave in the order they came.
THEOREM Refinement == Spec => ImplementsMailbox
<1>1. Init => MailboxView!MailInit
    BY ConcatEmptySeq, <<>> \in Seq({})
    DEF Init, MailboxView!MailInit, Unexecuted
<1>2. IInv /\ [Next]_vars => [MailboxView!MailNext]_(MailboxView!mvars)
    BY MailboxStep
<1> QED
    BY Invariance, <1>1, <1>2, PTL
    DEF Spec, ImplementsMailbox, MailboxView!MailSpec
=============================================================================
