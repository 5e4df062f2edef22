----------------------------- MODULE NotifyPipe -----------------------------
(***************************************************************************)
(* How a reactor's worker is woken (pro_net/pro_notify_pipe.cpp, with the  *)
(* parts of CProSelectReactor and CProEpollReactor that use the pipe).     *)
(*                                                                         *)
(* The worker blocks in select/epoll_wait without a timeout.  A thread that*)
(* changes the handlers (AddHandler, RemoveHandler) or wants the worker to *)
(* leave (Fini) does so under m_lock and calls Notify, still under m_lock. *)
(* Notify writes a byte into the pipe unless one was written in the same   *)
(* millisecond and has not been read.  The worker reads the pipe and calls *)
(* EnableNotify in OnInput WITHOUT m_lock, so its accesses interleave with *)
(* those of Notify one by one.                                             *)
(*                                                                         *)
(* `changes' numbers the handler changes; `watched' is the number the      *)
(* worker's fd sets were copied at (select reactor).  For epoll a change   *)
(* is effective at once and only m_wantExit matters.                       *)
(***************************************************************************)
EXTENDS Naturals

CONSTANTS
  Threads,      \* threads that call AddHandler, RemoveHandler or Fini
  MaxChanges,   \* bound: handler changes
  MaxTick,      \* bound: the millisecond clock stops here
  Capacity      \* bytes the pipe's socket buffer can hold

ASSUME BoundsAssumption ==
  MaxChanges \in Nat /\ MaxTick \in Nat \ {0} /\ Capacity \in Nat \ {0}
ASSUME ThreadsAssumption == "none" \notin Threads

VARIABLES
  m_enableNotify, m_notifyTick,
  m_wantExit,
  pipe,         \* bytes in the pipe
  changes,      \* handler changes so far
  watched,      \* the change the worker's fd sets correspond to
  holder,       \* the thread in m_lock, or "none"
  npc,          \* where the holder is in Notify
  reading,      \* Notify: the local variable tick (0: not read)
  wpc,          \* where the worker is
  tick,         \* ProGetTickCount64
  lastStamp,    \* history: the last tick Notify has put into m_notifyTick
  apart         \* history: the last request came in a later tick than that

flags  == <<m_enableNotify, m_notifyTick>>
reg    == <<m_wantExit, changes>>
caller == <<holder, npc, reading>>
work   == <<wpc, watched>>
hist   == <<lastStamp, apart>>
pipeVars == <<flags, reg, caller, work, hist, pipe, tick>>

PipeTypeOK ==
  /\ m_enableNotify \in BOOLEAN /\ m_notifyTick \in 0..MaxTick
  /\ m_wantExit \in BOOLEAN
  /\ pipe \in 0..Capacity
  /\ changes \in 0..MaxChanges /\ watched \in 0..changes
  /\ holder \in Threads \cup {"none"}
  /\ npc \in {"test", "send", "clear", "stamp", "done"}
  /\ reading \in 0..MaxTick
  /\ wpc \in {"loop", "select", "lookup", "recv", "enable", "zero", "off"}
  /\ tick \in 1..MaxTick
  /\ lastStamp \in 0..MaxTick /\ apart \in BOOLEAN

PipeInit ==
  /\ m_enableNotify = TRUE /\ m_notifyTick = 0
  /\ m_wantExit = FALSE
  /\ pipe = 0
  /\ changes = 0 /\ watched = 0
  /\ holder = "none" /\ npc = "done" /\ reading = 0
  /\ wpc = "loop"
  /\ tick = 1
  /\ lastStamp = 0 /\ apart = TRUE

Unlocked == holder = "none"
-----------------------------------------------------------------------------
(***************************************************************************)
(* Callers, under m_lock.                                                  *)
(***************************************************************************)

\* AddHandler or RemoveHandler up to Notify
ChangeHandlers(t) ==
  /\ Unlocked /\ ~m_wantExit
  /\ changes < MaxChanges
  /\ changes' = changes + 1
  /\ holder' = t /\ npc' = "test" /\ reading' = 0
  /\ UNCHANGED <<flags, m_wantExit, work, hist, pipe, tick>>

\* Fini up to Notify.  StopMe calls it once; the destructor, which calls it again,
\* comes after the worker has left.
Fini(t) ==
  /\ Unlocked /\ ~m_wantExit
  /\ m_wantExit' = TRUE
  /\ holder' = t /\ npc' = "test" /\ reading' = 0
  /\ UNCHANGED <<flags, changes, work, hist, pipe, tick>>

\* Mutant of NotifyTest: off by one in the comparison of the ticks.
NotifyTestCoarse ==
  /\ ~Unlocked /\ npc = "test"
  /\ npc' = IF ~m_enableNotify /\ tick <= m_notifyTick + 1 THEN "done" ELSE "send"
  /\ reading' = IF m_enableNotify THEN 0 ELSE tick
  /\ apart' = (tick > lastStamp)
  /\ UNCHANGED <<flags, reg, holder, work, lastStamp, pipe, tick>>

\* if (!m_enableNotify) { tick = ...; if (tick <= m_notifyTick) return; }
NotifyTest ==
  /\ ~Unlocked /\ npc = "test"
  /\ npc' = IF ~m_enableNotify /\ tick <= m_notifyTick THEN "done" ELSE "send"
  /\ reading' = IF m_enableNotify THEN 0 ELSE tick
  /\ apart' = (tick > lastStamp)
  /\ UNCHANGED <<flags, reg, holder, work, lastStamp, pipe, tick>>

\* pbsd_send fails when the socket buffer is full; then nothing else happens.
NotifySend ==
  /\ ~Unlocked /\ npc = "send"
  /\ IF pipe < Capacity
       THEN pipe' = pipe + 1 /\ npc' = "clear"
       ELSE npc' = "done" /\ UNCHANGED pipe
  /\ UNCHANGED <<flags, reg, holder, reading, work, hist, tick>>

\* m_enableNotify = false
NotifyClear ==
  /\ ~Unlocked /\ npc = "clear"
  /\ m_enableNotify' = FALSE
  /\ npc' = "stamp"
  /\ UNCHANGED <<m_notifyTick, reg, holder, reading, work, hist, pipe, tick>>

\* m_notifyTick = tick > 0 ? tick : ProGetTickCount64()
NotifyStamp ==
  /\ ~Unlocked /\ npc = "stamp"
  /\ m_notifyTick' = IF reading > 0 THEN reading ELSE tick
  /\ lastStamp' = m_notifyTick'
  /\ npc' = "done"
  /\ UNCHANGED <<m_enableNotify, reg, holder, reading, work, apart, pipe, tick>>

Unlock ==
  /\ ~Unlocked /\ npc = "done"
  /\ holder' = "none" /\ reading' = 0
  /\ UNCHANGED <<flags, reg, npc, work, hist, pipe, tick>>
-----------------------------------------------------------------------------
(***************************************************************************)
(* The worker.                                                             *)
(***************************************************************************)

\* Top of the loop, under m_lock: leave, or copy the fd sets and block.
WorkerLoop ==
  /\ wpc = "loop" /\ Unlocked
  /\ wpc' = IF m_wantExit THEN "off" ELSE "select"
  /\ watched' = IF m_wantExit THEN watched ELSE changes
  /\ UNCHANGED <<flags, reg, caller, hist, pipe, tick>>

\* select/epoll_wait returns because of the pipe.
WorkerWoken ==
  /\ wpc = "select" /\ pipe > 0
  /\ wpc' = "lookup"
  /\ UNCHANGED <<flags, reg, caller, watched, hist, pipe, tick>>

\* It returns because of some other socket only: its handlers run.
WorkerOther ==
  /\ wpc = "select" /\ Unlocked
  /\ wpc' = IF m_wantExit THEN "off" ELSE "loop"
  /\ UNCHANGED <<flags, reg, caller, watched, hist, pipe, tick>>

\* Under m_lock: leave, or find the handlers (the reactor itself for the pipe).
WorkerLookup ==
  /\ wpc = "lookup" /\ Unlocked
  /\ wpc' = IF m_wantExit THEN "off" ELSE "recv"
  /\ UNCHANGED <<flags, reg, caller, watched, hist, pipe, tick>>

\* OnInput: recv takes every byte (the buffer is larger than the pipe gets).
WorkerRecv ==
  /\ wpc = "recv"
  /\ pipe' = 0
  /\ wpc' = "enable"
  /\ UNCHANGED <<flags, reg, caller, watched, hist, tick>>

\* EnableNotify: m_enableNotify = true ...
WorkerEnable ==
  /\ wpc = "enable"
  /\ m_enableNotify' = TRUE
  /\ wpc' = "zero"
  /\ UNCHANGED <<m_notifyTick, reg, caller, watched, hist, pipe, tick>>

\* ... m_notifyTick = 0
WorkerZero ==
  /\ wpc = "zero"
  /\ m_notifyTick' = 0
  /\ wpc' = "loop"
  /\ UNCHANGED <<m_enableNotify, reg, caller, watched, hist, pipe, tick>>

Tick ==
  /\ tick < MaxTick
  /\ tick' = tick + 1
  /\ UNCHANGED <<flags, reg, caller, work, hist, pipe>>

Caller == NotifyTest \/ NotifySend \/ NotifyClear \/ NotifyStamp \/ Unlock
Worker == WorkerLoop \/ WorkerWoken \/ WorkerLookup \/ WorkerRecv
          \/ WorkerEnable \/ WorkerZero

PipeNext == \/ Caller \/ Worker \/ WorkerOther \/ Tick
            \/ \E t \in Threads : ChangeHandlers(t) \/ Fini(t)

PipeSpec == PipeInit /\ [][PipeNext]_pipeVars

\* Threads are scheduled; no other socket is obliged to have events.
FairSpec == PipeSpec /\ WF_pipeVars(Caller) /\ WF_pipeVars(Worker)
-----------------------------------------------------------------------------
(***************************************************************************)
(* Properties.                                                             *)
(***************************************************************************)

\* The worker sleeps although somebody has asked something of it.
Stuck == /\ wpc = "select" /\ pipe = 0 /\ Unlocked
         /\ m_wantExit \/ watched # changes

\* A request is missed only if Notify had written a byte in the millisecond it
\* was made in: the loss is confined to calls closer than the clock's tick,
\* and the next call of a later millisecond wakes the worker.
LostOnlyWithinTick == Stuck => ~apart

\* A Fini that comes in a millisecond of its own makes the worker leave.
ApartFiniStopsWorker == (m_wantExit /\ npc # "test" /\ apart) ~> wpc = "off"
=============================================================================
