---------------------------- MODULE FunctorTask ----------------------------
(***************************************************************************)
(* CProFunctorCommandTask (pro_util/pro_functor_command_task.cpp): one     *)
(* worker thread that executes the commands other threads put into a       *)
(* queue, with the two primitives it is built on:                          *)
(*                                                                         *)
(*   CProThreadMutexCondition (pro_thread_mutex.cpp) is not a Posix        *)
(*     condition variable but a latch: Signal sets m_signal and it stays   *)
(*     set until one Wait consumes it.  A latch is a BOOLEAN variable here.*)
(*   CProThreadBase (pro_thread.cpp) counts the threads it has spawned and *)
(*     lets Wait sleep until the count is zero.                            *)
(*                                                                         *)
(* Granularity: everything a thread does under m_lock is one step, because *)
(* no field is touched outside m_lock; a Wait on a latch is two steps (go  *)
(* to sleep, which releases the mutex; wake up and take it again).         *)
(* m_lockAtom serialises Start and Stop, so one controller stands for all  *)
(* the threads that call them.                                             *)
(***************************************************************************)
EXTENDS Naturals, Sequences

CONSTANTS
  Clients,      \* threads that call Put
  Commands,     \* command objects; each one is put at most once
  NoCommand,    \* "no command"
  MaxStarts     \* bound: how often the task is started

ASSUME NoCommandAssumption == NoCommand \notin Commands
ASSUME MaxStartsAssumption == MaxStarts \in Nat

VARIABLES
  m_threadId,     \* TRUE iff m_threadId # 0
  m_wantExit,
  m_commands,     \* the queue
  m_commandCond,  \* latch: a command was put, or the task must exit
  m_initCond,     \* latch: the worker has published its thread id
  m_threadCount,  \* CProThreadBase: spawned threads that have not ended
  m_cond,         \* CProThreadBase latch: a thread has ended
  cond,           \* latch on the stack of a blocking Put, per command
  blocking,       \* commands whose user data points to such a latch
  wpc,            \* worker: where it is in Svc
  batch,          \* worker: commands taken from the queue, oldest first
  draining,       \* worker: in the loop that empties the queue before exit
  cpc,            \* controller: where it is in Start or Stop
  waitsFor,       \* client -> command its blocking Put waits for
  starts,         \* number of Start calls so far
  accepted,       \* history: commands Put has accepted, in order
  executed        \* history: commands whose Execute was called, in order

queue  == <<m_commands, m_commandCond>>
life   == <<m_threadId, m_wantExit, m_initCond>>
thread == <<m_threadCount, m_cond>>
puts   == <<cond, blocking, waitsFor>>
worker == <<wpc, batch, draining>>
ctl    == <<cpc, starts>>
hist   == <<accepted, executed>>
vars   == <<queue, life, thread, puts, worker, ctl, hist>>

WorkerPcs == {"off", "svc", "check", "wait", "exec", "signal", "exit"}
CtlPcs    == {"idle", "startCheck", "startWait", "stopCheck", "stopWait",
              "stopReset"}

TypeOK ==
  /\ m_threadId \in BOOLEAN
  /\ m_wantExit \in BOOLEAN
  /\ m_commands \in Seq(Commands)
  /\ m_commandCond \in BOOLEAN
  /\ m_initCond \in BOOLEAN
  /\ m_threadCount \in 0..1
  /\ m_cond \in BOOLEAN
  /\ cond \in [Commands -> BOOLEAN]
  /\ blocking \in SUBSET Commands
  /\ wpc \in WorkerPcs
  /\ batch \in Seq(Commands)
  /\ draining \in BOOLEAN
  /\ cpc \in CtlPcs
  /\ waitsFor \in [Clients -> Commands \cup {NoCommand}]
  /\ starts \in 0..MaxStarts
  /\ accepted \in Seq(Commands)
  /\ executed \in Seq(Commands)

Init ==
  /\ m_threadId = FALSE
  /\ m_wantExit = FALSE
  /\ m_commands = <<>>
  /\ m_commandCond = FALSE
  /\ m_initCond = FALSE
  /\ m_threadCount = 0
  /\ m_cond = FALSE
  /\ cond = [c \in Commands |-> FALSE]
  /\ blocking = {}
  /\ wpc = "off"
  /\ batch = <<>>
  /\ draining = FALSE
  /\ cpc = "idle"
  /\ waitsFor = [t \in Clients |-> NoCommand]
  /\ starts = 0
  /\ accepted = <<>>
  /\ executed = <<>>
-----------------------------------------------------------------------------
(***************************************************************************)
(* Controller: Start and Stop.                                             *)
(***************************************************************************)

\* Start up to Spawn: the thread exists and is counted; the starter keeps
\* m_lock until it sleeps on m_initCond.
Start ==
  /\ cpc = "idle"
  /\ ~m_threadId
  /\ starts < MaxStarts
  /\ starts' = starts + 1
  /\ m_threadCount' = m_threadCount + 1
  /\ wpc' = "svc"
  /\ cpc' = "startCheck"
  /\ UNCHANGED <<life, queue, m_cond, puts, batch, draining, hist>>

\* pthread_create fails: Start returns false and leaves everything alone.
StartFails ==
  /\ cpc = "idle"
  /\ ~m_threadId
  /\ starts < MaxStarts
  /\ starts' = starts + 1
  /\ UNCHANGED <<life, queue, thread, puts, worker, cpc, hist>>

\* while (m_threadId == 0) m_initCond.Wait(&m_lock)
StartCheck ==
  /\ cpc = "startCheck"
  /\ cpc' = IF m_threadId THEN "idle" ELSE "startWait"
  /\ UNCHANGED <<life, queue, thread, puts, worker, starts, hist>>

StartWake ==
  /\ cpc = "startWait"
  /\ m_initCond
  /\ m_initCond' = FALSE
  /\ cpc' = "startCheck"
  /\ UNCHANGED <<m_threadId, m_wantExit, queue, thread, puts, worker,
                 starts, hist>>

\* Mutant of Stop: m_wantExit is set and nobody is told.
StopNoSignal ==
  /\ cpc = "idle" /\ m_threadId
  /\ m_wantExit' = TRUE
  /\ cpc' = "stopCheck"
  /\ UNCHANGED <<m_threadId, queue, m_initCond, thread, puts, worker,
                 starts, hist>>

\* Stop asks the worker to exit, then waits for the thread to end.
Stop ==
  /\ cpc = "idle"
  /\ m_threadId
  /\ m_wantExit' = TRUE
  /\ m_commandCond' = TRUE
  /\ cpc' = "stopCheck"
  /\ UNCHANGED <<m_threadId, m_commands, m_initCond, thread, puts, worker,
                 starts, hist>>

\* CProThreadBase::Wait
StopCheck ==
  /\ cpc = "stopCheck"
  /\ cpc' = IF m_threadCount > 0 THEN "stopWait" ELSE "stopReset"
  /\ UNCHANGED <<life, queue, thread, puts, worker, starts, hist>>

StopWake ==
  /\ cpc = "stopWait"
  /\ m_cond
  /\ m_cond' = FALSE
  /\ cpc' = "stopCheck"
  /\ UNCHANGED <<life, queue, m_threadCount, puts, worker, starts, hist>>

StopReset ==
  /\ cpc = "stopReset"
  /\ m_threadId' = FALSE
  /\ m_wantExit' = FALSE
  /\ cpc' = "idle"
  /\ UNCHANGED <<queue, m_initCond, thread, puts, worker, starts, hist>>
-----------------------------------------------------------------------------
(***************************************************************************)
(* Put.  m_lock is free unless the starter has not yet gone to sleep.      *)
(***************************************************************************)
LockFree == cpc # "startCheck"

Fresh(c) == \A i \in 1..Len(accepted) : accepted[i] # c

\* Mutants of Enqueue: a stopping task still accepts; push_front for push_back.
EnqueueWhileStopping(c) ==
  /\ LockFree /\ m_threadId /\ Fresh(c)
  /\ m_commands' = Append(m_commands, c)
  /\ m_commandCond' = TRUE
  /\ accepted' = Append(accepted, c)

EnqueueFront(c) ==
  /\ LockFree /\ m_threadId /\ ~m_wantExit /\ Fresh(c)
  /\ m_commands' = <<c>> \o m_commands
  /\ m_commandCond' = TRUE
  /\ accepted' = Append(accepted, c)

\* The queueing part of Put, common to its callers.
Enqueue(c) ==
  /\ LockFree
  /\ m_threadId /\ ~m_wantExit
  /\ Fresh(c)
  /\ m_commands' = Append(m_commands, c)
  /\ m_commandCond' = TRUE
  /\ accepted' = Append(accepted, c)

\* Put(c, false)
Put(c) ==
  /\ Enqueue(c)
  /\ UNCHANGED <<life, thread, puts, worker, ctl, executed>>

\* Put(c, true): t sleeps on its own latch until the worker signals it.
PutBlocking(t, c) ==
  /\ waitsFor[t] = NoCommand
  /\ Enqueue(c)
  /\ blocking' = blocking \cup {c}
  /\ cond' = [cond EXCEPT ![c] = FALSE]
  /\ waitsFor' = [waitsFor EXCEPT ![t] = c]
  /\ UNCHANGED <<life, thread, worker, ctl, executed>>

\* Mutant of PutReturns: a spurious wake-up ends the wait.
PutReturnsSpuriously(t) ==
  /\ waitsFor[t] # NoCommand
  /\ waitsFor' = [waitsFor EXCEPT ![t] = NoCommand]
  /\ UNCHANGED <<life, queue, thread, cond, blocking, worker, ctl, hist>>

\* cond.Wait(NULL) returns and the latch leaves the stack with Put.
PutReturns(t) ==
  /\ waitsFor[t] # NoCommand
  /\ cond[waitsFor[t]]
  /\ cond' = [cond EXCEPT ![waitsFor[t]] = FALSE]
  /\ waitsFor' = [waitsFor EXCEPT ![t] = NoCommand]
  /\ UNCHANGED <<life, queue, thread, blocking, worker, ctl, hist>>
-----------------------------------------------------------------------------
(***************************************************************************)
(* Worker: Svc.                                                            *)
(***************************************************************************)

\* Svc publishes the thread id (it needs m_lock, so the starter sleeps).
SvcBegin ==
  /\ wpc = "svc"
  /\ LockFree
  /\ m_threadId' = TRUE
  /\ m_initCond' = TRUE
  /\ wpc' = "check"
  /\ UNCHANGED <<m_wantExit, queue, thread, puts, batch, draining, ctl, hist>>

\* Mutant of SvcTakeAll: the worker leaves without draining.
SvcLeaves ==
  /\ wpc = "check" /\ LockFree /\ m_wantExit
  /\ m_commands' = <<>>
  /\ wpc' = "exit"
  /\ UNCHANGED <<life, m_commandCond, thread, puts, batch, draining, ctl, hist>>

\* Exit wins over a waiting command: the rest of the queue is taken whole.
SvcTakeAll ==
  /\ wpc = "check"
  /\ LockFree
  /\ m_wantExit
  /\ batch' = m_commands
  /\ m_commands' = <<>>
  /\ draining' = TRUE
  /\ wpc' = IF m_commands = <<>> THEN "exit" ELSE "exec"
  /\ UNCHANGED <<life, m_commandCond, thread, puts, ctl, hist>>

\* Mutant of SvcTakeOne: the caller is released when its command is taken.
SvcTakeOneSignals ==
  /\ wpc = "check" /\ LockFree /\ ~m_wantExit /\ m_commands # <<>>
  /\ batch' = <<Head(m_commands)>>
  /\ m_commands' = Tail(m_commands)
  /\ cond' = [cond EXCEPT ![Head(m_commands)] = Head(m_commands) \in blocking]
  /\ wpc' = "exec"
  /\ UNCHANGED <<life, m_commandCond, thread, blocking, waitsFor, draining,
                 ctl, hist>>

\* The main loop takes the oldest command.
SvcTakeOne ==
  /\ wpc = "check"
  /\ LockFree
  /\ ~m_wantExit
  /\ m_commands # <<>>
  /\ batch' = <<Head(m_commands)>>
  /\ m_commands' = Tail(m_commands)
  /\ wpc' = "exec"
  /\ UNCHANGED <<life, m_commandCond, thread, puts, draining, ctl, hist>>

SvcSleep ==
  /\ wpc = "check"
  /\ LockFree
  /\ ~m_wantExit
  /\ m_commands = <<>>
  /\ wpc' = "wait"
  /\ UNCHANGED <<life, queue, thread, puts, batch, draining, ctl, hist>>

SvcWake ==
  /\ wpc = "wait"
  /\ m_commandCond
  /\ m_commandCond' = FALSE
  /\ wpc' = "check"
  /\ UNCHANGED <<life, m_commands, thread, puts, batch, draining, ctl, hist>>

\* command->Execute()
SvcExecute ==
  /\ wpc = "exec"
  /\ executed' = Append(executed, Head(batch))
  /\ wpc' = "signal"
  /\ UNCHANGED <<life, queue, thread, puts, batch, draining, ctl, accepted>>

\* Mutant of SvcSignal: the drain loop forgets the callers' latches.
SvcSignalNotDraining ==
  /\ wpc = "signal"
  /\ cond' = [cond EXCEPT ![Head(batch)] =
                 @ \/ (Head(batch) \in blocking /\ ~draining)]
  /\ batch' = Tail(batch)
  /\ wpc' = IF Tail(batch) # <<>> THEN "exec"
            ELSE IF draining THEN "exit" ELSE "check"
  /\ UNCHANGED <<life, queue, thread, blocking, waitsFor, draining, ctl, hist>>

\* cond->Signal() if the command carries a latch, then command->Destroy().
SvcSignal ==
  /\ wpc = "signal"
  /\ cond' = [cond EXCEPT ![Head(batch)] = @ \/ Head(batch) \in blocking]
  /\ batch' = Tail(batch)
  /\ wpc' = IF Tail(batch) # <<>> THEN "exec"
            ELSE IF draining THEN "exit" ELSE "check"
  /\ UNCHANGED <<life, queue, thread, blocking, waitsFor, draining, ctl, hist>>

\* CProThreadBase::SvcRun after Svc has returned
SvcEnd ==
  /\ wpc = "exit"
  /\ m_threadCount' = m_threadCount - 1
  /\ m_cond' = TRUE
  /\ wpc' = "off"
  /\ draining' = FALSE
  /\ UNCHANGED <<life, queue, puts, batch, ctl, hist>>
-----------------------------------------------------------------------------
Controller == \/ Start \/ StartFails \/ StartCheck \/ StartWake
              \/ Stop \/ StopCheck \/ StopWake \/ StopReset

Svc == \/ SvcBegin \/ SvcTakeAll \/ SvcTakeOne \/ SvcSleep \/ SvcWake
       \/ SvcExecute \/ SvcSignal \/ SvcEnd

Client(t) == PutReturns(t) \/ \E c \in Commands : PutBlocking(t, c)

Next == \/ Controller
        \/ Svc
        \/ \E t \in Clients : Client(t)
        \/ \E c \in Commands : Put(c)

Spec == Init /\ [][Next]_vars

(***************************************************************************)
(* A runnable thread is eventually scheduled, and Execute returns.  Nobody *)
(* is obliged to call Start, Stop or Put.                                  *)
(***************************************************************************)
Fairness == /\ WF_vars(Svc)
            /\ WF_vars(StartCheck \/ StartWake)
            /\ WF_vars(StopCheck \/ StopWake \/ StopReset)
            /\ \A t \in Clients : WF_vars(PutReturns(t))

FairSpec == Spec /\ Fairness
-----------------------------------------------------------------------------
(***************************************************************************)
(* Properties.                                                             *)
(***************************************************************************)

\* Accepted commands that Svc has not executed, oldest first.
Unexecuted == (IF wpc = "signal" THEN Tail(batch) ELSE batch) \o m_commands

\* Every command Put accepted is executed once, in the order of acceptance,
\* whether the main loop of Svc takes it or the drain loop after Stop does.
ExactlyOnceInOrder == accepted = executed \o Unexecuted

\* The worker never sleeps on m_commandCond over a queued command or a pending
\* Stop: the latch is set for it, however stale its last wake-up was.
NoLostWakeup ==
  wpc = "wait" /\ (m_wantExit \/ m_commands # <<>>) => m_commandCond

\* When no worker thread runs (before Start, after Stop has returned) no
\* command is left behind: everything accepted has been executed.
StoppedMeansDrained ==
  cpc = "idle" /\ ~m_threadId =>
    wpc = "off" /\ m_threadCount = 0 /\ executed = accepted

\* cond->Signal() writes to a latch on the stack of the thread in Put: that
\* thread must still be inside Put when the worker gets there.
LatchOnLiveStack ==
  wpc = "signal" /\ Head(batch) \in blocking =>
    \E t \in Clients : waitsFor[t] = Head(batch)

\* Put(c, true) returns only after c has been executed.
BlockingPutIsSynchronous ==
  [][\A t \in Clients :
       waitsFor[t] # NoCommand /\ waitsFor'[t] = NoCommand
         => \E i \in 1..Len(executed) : executed[i] = waitsFor[t]]_vars

\* A thread blocked in Put comes back, even if Stop is called meanwhile.
BlockedPutReturns ==
  \A t \in Clients : waitsFor[t] # NoCommand ~> waitsFor[t] = NoCommand

\* Every accepted command is executed (so a started task never stalls).
AcceptedIsExecuted ==
  \A c \in Commands :
    ~Fresh(c) ~> \E i \in 1..Len(executed) : executed[i] = c

\* The task implements the mailbox: acceptance appends, execution takes the
\* oldest, and Stop loses nothing.
MailboxView == INSTANCE Mailbox WITH waiting <- Unexecuted
ImplementsMailbox == MailboxView!MailSpec
=============================================================================
