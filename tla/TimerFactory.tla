---------------------------- MODULE TimerFactory ----------------------------
(***************************************************************************)
(* CProTimerFactory (pro_util/pro_timer_factory.cpp): a set of timers and  *)
(* one worker that fires them.  Timers are kept twice, in m_timers ordered *)
(* by (expireTick, timerId) and in m_timerId2ExpireTick so that CancelTimer*)
(* can find them; every node owns a reference to its IProOnTimer object.   *)
(*                                                                         *)
(* The worker is the only command of a CProFunctorCommandTask: m_task->    *)
(* Stop() returns once the worker has left (FunctorTask,                   *)
(* StoppedMeansDrained).  Each critical section of m_lock is one step.     *)
(* The Release that CancelTimer does after unlocking is part of its step:  *)
(* releasing earlier is the harder case for an object's lifetime.          *)
(***************************************************************************)
EXTENDS Integers, FiniteSets

CONSTANTS
  Objects,      \* IProOnTimer objects
  Spans,        \* time spans of ScheduleTimer
  DefaultSpan,  \* DEFAULT_HEARTBEAT_INTERVAL * 1000
  HtbtSpans,    \* spans given to UpdateHeartbeatTimers
  Steps,        \* size of m_htbtCounts (1000 in the code)
  MaxTick,      \* bound: the clock stops here
  MaxTimers     \* bound: how many timers are ever scheduled

ASSUME StepsAssumption == Steps \in Nat \ {0}
ASSUME SpansAssumption == Spans \subseteq Nat
ASSUME BoundsAssumption == MaxTick \in Nat /\ MaxTimers \in Nat
\* Heartbeat spans are whole seconds in milliseconds, hence multiples of 1000.
ASSUME HtbtAssumption ==
  \A s \in HtbtSpans \cup {DefaultSpan} : s \in Nat \ {0} /\ s % Steps = 0

VARIABLES
  m_task,                \* TRUE iff m_task # NULL
  m_wantExit,
  m_mmTimer,
  m_timers,              \* set of PRO_TIMER_NODE
  m_timerId2ExpireTick,  \* partial function: timer id -> expire tick
  m_htbtCounts,          \* heartbeat timers per slot, as the code counts them
  m_htbtTimeSpan,
  m_cond,                \* latch
  wpc,                   \* worker: where it is in WorkerRun
  timers,                \* worker: nodes collected and not yet upcalled
  spc,                   \* where the thread in Stop is
  stopped,               \* Stop: nodes it has taken out of m_timers
  owned,                 \* objects their creator has not released
  refs,                  \* reference counts
  tick,                  \* ProGetTickCount64
  nextId                 \* ProMakeTimerId

store  == <<m_timers, m_timerId2ExpireTick>>
htbt   == <<m_htbtCounts, m_htbtTimeSpan>>
life   == <<m_task, m_wantExit, m_mmTimer>>
worker == <<wpc, timers>>
stop   == <<spc, stopped>>
objs   == <<owned, refs>>
vars   == <<store, htbt, life, m_cond, worker, stop, objs, tick, nextId>>

Ids   == 1..MaxTimers
Slots == 0..(Steps - 1)

Node(id, expire, obj, span, recurring, heartbeat, index) ==
  [timerId |-> id, expireTick |-> expire, onTimer |-> obj, timeSpan |-> span,
   recurring |-> recurring, heartbeat |-> heartbeat, htbtIndex |-> index]

Nodes == [timerId : Ids, expireTick : Nat, onTimer : Objects, timeSpan : Nat,
          recurring : BOOLEAN, heartbeat : BOOLEAN, htbtIndex : Nat]

\* PRO_TIMER_NODE::operator<
Before(a, b) == \/ a.expireTick < b.expireTick
                \/ a.expireTick = b.expireTick /\ a.timerId < b.timerId

TypeOK ==
  /\ m_task \in BOOLEAN /\ m_wantExit \in BOOLEAN /\ m_mmTimer \in BOOLEAN
  /\ m_timers \subseteq Nodes
  /\ DOMAIN m_timerId2ExpireTick \subseteq Ids
  /\ \A id \in DOMAIN m_timerId2ExpireTick : m_timerId2ExpireTick[id] \in Nat
  /\ m_htbtCounts \in [Slots -> Nat]
  /\ m_htbtTimeSpan \in HtbtSpans \cup {DefaultSpan}
  /\ m_cond \in BOOLEAN
  /\ wpc \in {"off", "check", "wait", "upcall"}
  /\ timers \subseteq Nodes
  /\ spc \in {"idle", "taskStop", "release"}
  /\ stopped \subseteq Nodes
  /\ owned \subseteq Objects
  /\ refs \in [Objects -> Nat]
  /\ tick \in 0..MaxTick
  /\ nextId \in 1..(MaxTimers + 1)

Init ==
  /\ m_task = FALSE /\ m_wantExit = FALSE /\ m_mmTimer = FALSE
  /\ m_timers = {}
  /\ m_timerId2ExpireTick = [id \in {} |-> 0]
  /\ m_htbtCounts = [s \in Slots |-> 0]
  /\ m_htbtTimeSpan = DefaultSpan
  /\ m_cond = FALSE
  /\ wpc = "off" /\ timers = {}
  /\ spc = "idle" /\ stopped = {}
  /\ owned = Objects
  /\ refs = [o \in Objects |-> 1]
  /\ tick = 0
  /\ nextId = 1
-----------------------------------------------------------------------------
(***************************************************************************)
(* Helpers.                                                                *)
(***************************************************************************)
With(map, id, t) == [i \in DOMAIN map \cup {id} |-> IF i = id THEN t ELSE map[i]]
Without(map, id) == [i \in DOMAIN map \ {id} |-> map[i]]

Of(o, nodes) == {n \in nodes : n.onTimer = o}

\* The first multiple of span that is not before t.
AlignUp(t, span) == ((t + span - 1) \div span) * span

\* The slot with the smallest counter, the first one of them.
LeastSlot ==
  CHOOSE s \in Slots :
    /\ \A u \in Slots : m_htbtCounts[s] <= m_htbtCounts[u]
    /\ \A u \in 0..(s - 1) : m_htbtCounts[u] > m_htbtCounts[s]

\* Mutant of Insert: the worker is not woken.
InsertSilently(n) ==
  /\ m_timers' = m_timers \cup {n}
  /\ m_timerId2ExpireTick' = With(m_timerId2ExpireTick, n.timerId, n.expireTick)
  /\ refs' = [refs EXCEPT ![n.onTimer] = @ + 1]
  /\ nextId' = nextId + 1 /\ UNCHANGED m_cond

\* Insert a node and its index entry; take a reference; wake the worker.
Insert(n) ==
  /\ m_timers' = m_timers \cup {n}
  /\ m_timerId2ExpireTick' = With(m_timerId2ExpireTick, n.timerId, n.expireTick)
  /\ refs' = [refs EXCEPT ![n.onTimer] = @ + 1]
  /\ m_cond' = TRUE
  /\ nextId' = nextId + 1
-----------------------------------------------------------------------------
Start(mmTimer) ==
  /\ spc = "idle"
  /\ ~m_task
  /\ m_task' = TRUE
  /\ m_mmTimer' = mmTimer
  /\ m_htbtCounts' = [s \in Slots |-> 0]
  /\ wpc' = "check"
  /\ UNCHANGED <<m_wantExit, store, m_htbtTimeSpan, m_cond, timers, stop, objs,
                 tick, nextId>>

\* Stop empties the factory, tells the worker to leave and waits for it ...
Stop ==
  /\ spc = "idle"
  /\ m_task
  /\ stopped' = m_timers
  /\ m_timers' = {}
  /\ m_timerId2ExpireTick' = [id \in {} |-> 0]
  /\ m_wantExit' = TRUE
  /\ m_cond' = TRUE
  /\ spc' = "taskStop"
  /\ UNCHANGED <<m_task, m_mmTimer, htbt, worker, objs, tick, nextId>>

\* ... m_task->Stop() ...
StopJoined ==
  /\ spc = "taskStop"
  /\ wpc = "off"
  /\ spc' = "release"
  /\ UNCHANGED <<store, htbt, life, m_cond, worker, stopped, objs, tick, nextId>>

\* ... then releases the nodes it took and resets the factory.
StopReset ==
  /\ spc = "release"
  /\ refs' = [o \in Objects |-> refs[o] - Cardinality(Of(o, stopped))]
  /\ stopped' = {}
  /\ spc' = "idle"
  /\ m_task' = FALSE
  /\ m_wantExit' = FALSE
  /\ m_mmTimer' = FALSE
  /\ m_htbtTimeSpan' = DefaultSpan
  /\ UNCHANGED <<store, m_htbtCounts, m_cond, worker, owned, tick, nextId>>

ScheduleTimer(o, span, recurring) ==
  /\ nextId <= MaxTimers
  /\ o \in owned
  /\ span > 0 \/ ~recurring
  /\ m_task /\ ~m_wantExit
  /\ Insert(Node(nextId, tick + span, o, span, recurring, FALSE, 0))
  /\ UNCHANGED <<htbt, life, worker, stop, owned, tick>>

\* Mutant of ScheduleHeartbeatTimer: the slot is not counted.
ScheduleUncounted(o, rand) ==
  LET step == m_htbtTimeSpan \div Steps
  IN
  /\ nextId <= MaxTimers /\ o \in owned /\ rand < step
  /\ m_task /\ ~m_wantExit /\ ~m_mmTimer
  /\ Insert(Node(nextId, AlignUp(tick, m_htbtTimeSpan) + step * LeastSlot + rand,
                 o, m_htbtTimeSpan, TRUE, TRUE, LeastSlot))
  /\ UNCHANGED <<htbt, life, worker, stop, owned, tick>>

\* rand is (PRO_INT64)(ProRand_0_1() * (step - 1))
ScheduleHeartbeatTimer(o, rand) ==
  LET index == LeastSlot
      step  == m_htbtTimeSpan \div Steps
  IN
  /\ nextId <= MaxTimers
  /\ o \in owned
  /\ m_task /\ ~m_wantExit /\ ~m_mmTimer
  /\ rand < step
  /\ m_htbtCounts' = [m_htbtCounts EXCEPT ![index] = @ + 1]
  /\ Insert(Node(nextId, AlignUp(tick, m_htbtTimeSpan) + step * index + rand,
                 o, m_htbtTimeSpan, TRUE, TRUE, index))
  /\ UNCHANGED <<m_htbtTimeSpan, life, worker, stop, owned, tick>>

\* A decrement at an index outside the vector does not reach the counters.
CancelTimer(id) ==
  /\ m_task
  /\ id \in DOMAIN m_timerId2ExpireTick
  /\ \E n \in m_timers :
       /\ n.timerId = id /\ n.expireTick = m_timerId2ExpireTick[id]
       /\ m_timers' = m_timers \ {n}
       /\ m_timerId2ExpireTick' = Without(m_timerId2ExpireTick, id)
       /\ m_htbtCounts' = IF n.heartbeat /\ n.htbtIndex \in Slots
                            THEN [m_htbtCounts EXCEPT ![n.htbtIndex] = @ - 1]
                            ELSE m_htbtCounts
       /\ refs' = [refs EXCEPT ![n.onTimer] = @ - 1]
  /\ UNCHANGED <<m_htbtTimeSpan, life, m_cond, worker, stop, owned, tick, nextId>>

\* Mutant of UpdateHeartbeatTimers: the index keeps the old expire ticks.
UpdateSetOnly(span, rand) ==
  /\ m_task /\ ~m_wantExit /\ span # m_htbtTimeSpan
  /\ m_htbtTimeSpan' = span
  /\ m_timers' = {IF n.heartbeat
                     THEN [n EXCEPT !.expireTick = AlignUp(tick, span),
                                    !.timeSpan = span, !.htbtIndex = 0]
                     ELSE n : n \in m_timers}
  /\ UNCHANGED <<m_timerId2ExpireTick, m_htbtCounts, life, m_cond, worker, stop,
                 objs, tick, nextId>>

\* All heartbeat nodes are taken out and put back one by one, in order: the
\* k-th gets index k.
UpdateHeartbeatTimers(span, rand) ==
  LET htbts  == {n \in m_timers : n.heartbeat}
      others == m_timers \ htbts
      c      == Cardinality(htbts)
      step   == span \div Steps
      rank(n) == Cardinality({p \in htbts : Before(p, n)})
      moved(n) == [n EXCEPT
        !.expireTick = AlignUp(tick, span) + step * rank(n) + rand[n.timerId],
        !.timeSpan = span,
        !.htbtIndex = rank(n)]
      extra(s) == Cardinality({k \in Steps..(c - 1) : k % Steps = s})
  IN
  /\ m_task /\ ~m_wantExit
  /\ span # m_htbtTimeSpan
  /\ \A id \in Ids : rand[id] < step
  /\ \A id \in Ids : (\A n \in htbts : n.timerId # id) => rand[id] = 0
  /\ m_htbtTimeSpan' = span
  /\ m_timers' = others \cup {moved(n) : n \in htbts}
  /\ m_timerId2ExpireTick' =
       [id \in DOMAIN m_timerId2ExpireTick |->
          IF \E n \in htbts : n.timerId = id
            THEN moved(CHOOSE n \in htbts : n.timerId = id).expireTick
            ELSE m_timerId2ExpireTick[id]]
  /\ m_htbtCounts' = [s \in Slots |-> IF s < c THEN 1 + extra(s)
                                      ELSE m_htbtCounts[s]]
  /\ UNCHANGED <<life, m_cond, worker, stop, objs, tick, nextId>>
-----------------------------------------------------------------------------
(***************************************************************************)
(* WorkerRun.                                                              *)
(***************************************************************************)
WorkerSleep ==
  /\ wpc = "check"
  /\ ~m_wantExit /\ m_timers = {}
  /\ wpc' = "wait"
  /\ UNCHANGED <<store, htbt, life, m_cond, timers, stop, objs, tick, nextId>>

WorkerWake ==
  /\ wpc = "wait"
  /\ m_cond
  /\ m_cond' = FALSE
  /\ wpc' = "check"
  /\ UNCHANGED <<store, htbt, life, timers, stop, objs, tick, nextId>>

WorkerExit ==
  /\ wpc = "check"
  /\ m_wantExit
  /\ wpc' = "off"
  /\ UNCHANGED <<store, htbt, life, m_cond, timers, stop, objs, tick, nextId>>

\* When a node that has expired at the present tick fires again.
Rearmed(n) ==
  IF n.heartbeat
    THEN LET next == AlignUp(tick, n.timeSpan) + (n.expireTick % n.timeSpan)
         IN  [n EXCEPT !.expireTick = IF next = tick THEN next + n.timeSpan
                                      ELSE next]
    ELSE [n EXCEPT !.expireTick = tick + n.timeSpan]

\* Mutant of WorkerCollect: no reference for the node that is put back.
CollectNoAddRef ==
  LET due   == {n \in m_timers : n.expireTick <= tick}
      again == {n \in due : n.recurring}
  IN
  /\ wpc = "check" /\ ~m_wantExit /\ due # {}
  /\ timers' = due
  /\ m_timers' = (m_timers \ due) \cup {Rearmed(n) : n \in again}
  /\ m_timerId2ExpireTick' = [id \in {n.timerId : n \in m_timers'} |->
       (CHOOSE n \in m_timers' : n.timerId = id).expireTick]
  /\ wpc' = "upcall"
  /\ UNCHANGED <<htbt, life, m_cond, stop, objs, tick, nextId>>

\* The expired nodes are collected; the recurring ones are put back at once,
\* with a reference of their own.
WorkerCollect ==
  LET due   == {n \in m_timers : n.expireTick <= tick}
      again == {n \in due : n.recurring \/ n.heartbeat}
      gone  == {n.timerId : n \in due \ again}
  IN
  /\ wpc = "check"
  /\ ~m_wantExit
  /\ due # {}
  /\ timers' = due
  /\ m_timers' = (m_timers \ due) \cup {Rearmed(n) : n \in again}
  /\ m_timerId2ExpireTick' =
       [id \in DOMAIN m_timerId2ExpireTick \ gone |->
          IF \E n \in again : n.timerId = id
            THEN Rearmed(CHOOSE n \in again : n.timerId = id).expireTick
            ELSE m_timerId2ExpireTick[id]]
  /\ refs' = [o \in Objects |-> refs[o] + Cardinality(Of(o, again))]
  /\ wpc' = "upcall"
  /\ UNCHANGED <<htbt, life, m_cond, stop, owned, tick, nextId>>

\* OnTimer, then Release, for the earliest collected node.  The lock is free:
\* the node may have been cancelled, or the factory stopped, in between.
WorkerUpcall ==
  /\ wpc = "upcall"
  /\ \E n \in timers :
       /\ \A p \in timers \ {n} : Before(n, p)
       /\ timers' = timers \ {n}
       /\ refs' = [refs EXCEPT ![n.onTimer] = @ - 1]
       /\ wpc' = IF timers = {n} THEN "check" ELSE "upcall"
  /\ UNCHANGED <<store, htbt, life, m_cond, stop, owned, tick, nextId>>

\* The creator of an object gives up its own reference.
OwnerRelease(o) ==
  /\ o \in owned
  /\ owned' = owned \ {o}
  /\ refs' = [refs EXCEPT ![o] = @ - 1]
  /\ UNCHANGED <<store, htbt, life, m_cond, worker, stop, tick, nextId>>

Tick ==
  /\ tick < MaxTick
  /\ tick' = tick + 1
  /\ UNCHANGED <<store, htbt, life, m_cond, worker, stop, objs, nextId>>

Worker == WorkerSleep \/ WorkerWake \/ WorkerExit \/ WorkerCollect \/ WorkerUpcall

Next ==
  \/ Worker
  \/ \E mm \in BOOLEAN : Start(mm)
  \/ Stop \/ StopJoined \/ StopReset
  \/ \E o \in Objects, span \in Spans, r \in BOOLEAN : ScheduleTimer(o, span, r)
  \/ \E o \in Objects, rand \in 0..(m_htbtTimeSpan \div Steps - 1) :
       ScheduleHeartbeatTimer(o, rand)
  \/ \E id \in Ids : CancelTimer(id)
  \/ \E span \in HtbtSpans \cup {DefaultSpan} :
       \E rand \in [Ids -> 0..(span \div Steps - 1)] :
         UpdateHeartbeatTimers(span, rand)
  \/ \E o \in Objects : OwnerRelease(o)
  \/ Tick

Spec == Init /\ [][Next]_vars

\* The worker thread and the thread inside Stop are scheduled, and OnTimer
\* returns.
FairSpec == Spec /\ WF_vars(Worker) /\ WF_vars(StopJoined \/ StopReset)
-----------------------------------------------------------------------------
(***************************************************************************)
(* Properties.                                                             *)
(***************************************************************************)

\* m_timers and m_timerId2ExpireTick describe the same timers, after any mix
\* of re-arming, cancelling and UpdateHeartbeatTimers: otherwise CancelTimer
\* would not find a live timer.
IndexAgrees ==
  /\ {n.timerId : n \in m_timers} = DOMAIN m_timerId2ExpireTick
  /\ \A n \in m_timers : m_timerId2ExpireTick[n.timerId] = n.expireTick
  /\ \A n, p \in m_timers : n.timerId = p.timerId => n = p

\* An object's count is what its creator, the armed nodes, the nodes about to
\* be upcalled and the nodes Stop has taken hold: nothing leaks, and OnTimer is
\* never called on a destroyed object, even one that was cancelled or whose
\* creator has gone.
RefsExact ==
  \A o \in Objects :
    refs[o] = (IF o \in owned THEN 1 ELSE 0) + Cardinality(Of(o, m_timers))
              + Cardinality(Of(o, timers)) + Cardinality(Of(o, stopped))

\* However late the worker was and however often the interval changed, a
\* heartbeat fires in the slot of the interval that its index names, and
\* m_htbtCounts counts no fewer timers in a slot than are armed there: CancelTimer
\* does not take an unsigned counter below zero.
CountsCover ==
  LET htbts   == {n \in m_timers : n.heartbeat}
      slot(n) == (n.expireTick % n.timeSpan) \div (n.timeSpan \div Steps)
  IN
  /\ \A n \in htbts : n.timeSpan = m_htbtTimeSpan /\ slot(n) = n.htbtIndex % Steps
  /\ \A s \in Slots :
       Cardinality({n \in htbts : n.htbtIndex = s}) <= m_htbtCounts[s]

\* A timer that is due does not stay due: it fires, or is cancelled, or the
\* heartbeat interval changes, or the factory is stopped.
DueTimerLeaves ==
  \A id \in Ids :
    (\E n \in m_timers : n.timerId = id /\ n.expireTick <= tick)
      ~> ~(\E n \in m_timers : n.timerId = id /\ n.expireTick <= tick)

\* "1000 steps": every armed heartbeat refers to one of the counters.
IndexIsAStep == \A n \in m_timers : n.heartbeat => n.htbtIndex \in Slots
=============================================================================
