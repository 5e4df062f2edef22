------------------------- MODULE TimerFactoryProofs -------------------------
(***************************************************************************)
(* The safety properties of module TimerFactory, for any objects, spans,   *)
(* number of slots, clock and number of timers.  The first half is about   *)
(* the two indexes and the references, the second about heartbeats.        *)
(***************************************************************************)
EXTENDS TimerFactory, FiniteSetTheorems, WellFoundedInduction, TLAPS

IsNode(n) ==
  n = Node(n.timerId, n.expireTick, n.onTimer, n.timeSpan, n.recurring, n.heartbeat,
           n.htbtIndex)

\* Nodes refer to objects, and no timer has the id that is given out next.
NodesOK ==
  /\ nextId \in Nat
  /\ refs \in [Objects -> Nat] /\ owned \subseteq Objects
  /\ \A n \in m_timers \cup timers \cup stopped :
       /\ IsNode(n) /\ n.onTimer \in Objects
       /\ n.timerId \in Nat /\ n.timerId < nextId
  /\ IsFiniteSet(m_timers) /\ IsFiniteSet(timers) /\ IsFiniteSet(stopped)

\* The worker holds nodes only while it makes upcalls, and Stop only until it has
\* released them; without m_task there is no worker, and Stop waits for it.
Phases ==
  /\ wpc # "upcall" => timers = {}
  /\ spc = "idle" => stopped = {}
  /\ ~m_task => wpc = "off"
  /\ spc # "idle" => m_task
  /\ spc = "release" => wpc = "off"

IInv == NodesOK /\ Phases /\ IndexAgrees /\ RefsExact
-----------------------------------------------------------------------------
(***************************************************************************)
(* Counting nodes.                                                         *)
(***************************************************************************)
LEMMA OfFinite ==
  ASSUME NEW S, IsFiniteSet(S), NEW o
  PROVE  IsFiniteSet(Of(o, S)) /\ Cardinality(Of(o, S)) \in Nat
<1>1. Of(o, S) \in SUBSET S
  BY DEF Of
<1> QED
  BY <1>1, FS_Subset, FS_CardinalityType

LEMMA OfEmpty ==
  ASSUME NEW o
  PROVE  Cardinality(Of(o, {})) = 0
<1>1. Of(o, {}) = {}
  BY DEF Of
<1> QED
  BY <1>1, FS_EmptySet

LEMMA OfJoin ==
  ASSUME NEW S, IsFiniteSet(S), NEW T, IsFiniteSet(T), S \cap T = {}, NEW o
  PROVE  Cardinality(Of(o, S \cup T)) = Cardinality(Of(o, S)) + Cardinality(Of(o, T))
<1>1. Of(o, S \cup T) = Of(o, S) \cup Of(o, T) /\ Of(o, S) \cap Of(o, T) = {}
  BY DEF Of
<1>2. Cardinality(Of(o, S) \cup Of(o, T)) =
        Cardinality(Of(o, S)) + Cardinality(Of(o, T)) - Cardinality(Of(o, S) \cap Of(o, T))
  BY OfFinite, FS_Union
<1>3. /\ Cardinality(Of(o, S)) \in Nat /\ Cardinality(Of(o, T)) \in Nat
      /\ Cardinality(Of(o, S) \cap Of(o, T)) = 0
  BY <1>1, OfFinite, FS_EmptySet
<1>4. Cardinality(Of(o, S) \cup Of(o, T)) = Cardinality(Of(o, S)) + Cardinality(Of(o, T))
  BY <1>2, <1>3
<1> QED
  BY <1>1, <1>4

LEMMA OfSplit ==
  ASSUME NEW S, IsFiniteSet(S), NEW D \in SUBSET S, NEW o
  PROVE  /\ IsFiniteSet(D) /\ IsFiniteSet(S \ D)
         /\ Cardinality(Of(o, S)) = Cardinality(Of(o, S \ D)) + Cardinality(Of(o, D))
<1>1. IsFiniteSet(D) /\ IsFiniteSet(S \ D)
  BY FS_Subset, FS_Difference
<1>2. (S \ D) \cup D = S /\ (S \ D) \cap D = {}
  OBVIOUS
<1> QED
  BY <1>1, <1>2, OfJoin

LEMMA OfSingle ==
  ASSUME NEW n, NEW o
  PROVE  /\ IsFiniteSet({n})
         /\ Cardinality(Of(o, {n})) = IF n.onTimer = o THEN 1 ELSE 0
<1>1. n.onTimer = o => Of(o, {n}) = {n}
  BY DEF Of
<1>2. n.onTimer # o => Of(o, {n}) = {}
  BY DEF Of
<1> QED
  BY <1>1, <1>2, FS_Singleton, FS_EmptySet

LEMMA OfPlus ==
  ASSUME NEW S, IsFiniteSet(S), NEW n, n \notin S, NEW o
  PROVE  /\ IsFiniteSet(S \cup {n})
         /\ Cardinality(Of(o, S \cup {n})) =
              Cardinality(Of(o, S)) + (IF n.onTimer = o THEN 1 ELSE 0)
<1>1. S \cap {n} = {} /\ IsFiniteSet({n})
  BY FS_Singleton
<1>2. Cardinality(Of(o, S \cup {n})) = Cardinality(Of(o, S)) + Cardinality(Of(o, {n}))
  BY <1>1, OfJoin
<1>3. IsFiniteSet(S \cup {n})
  BY <1>1, FS_Union
<1> QED
  BY <1>2, <1>3, OfSingle

LEMMA OfMinus ==
  ASSUME NEW S, IsFiniteSet(S), NEW n \in S, NEW o
  PROVE  /\ IsFiniteSet(S \ {n})
         /\ Cardinality(Of(o, S \ {n})) \in Nat
         /\ Cardinality(Of(o, S)) =
              Cardinality(Of(o, S \ {n})) + (IF n.onTimer = o THEN 1 ELSE 0)
<1>1. {n} \in SUBSET S
  OBVIOUS
<1>2. IsFiniteSet(S \ {n})
  BY <1>1, OfSplit
<1>3. Cardinality(Of(o, S)) = Cardinality(Of(o, S \ {n})) + Cardinality(Of(o, {n}))
  BY <1>1, OfSplit
<1>4. Cardinality(Of(o, S \ {n})) \in Nat
  BY <1>2, OfFinite
<1> QED
  BY <1>2, <1>3, <1>4, OfSingle

\* Nodes that keep their ids and objects are as many as before.
LEMMA Rebuilt ==
  ASSUME NEW S, IsFiniteSet(S),
         \A n, p \in S : n.timerId = p.timerId => n = p,
         NEW f, \A n \in S : f[n].timerId = n.timerId /\ f[n].onTimer = n.onTimer
  PROVE  LET T == {f[n] : n \in S}
         IN  /\ IsFiniteSet(T)
             /\ {n.timerId : n \in T} = {n.timerId : n \in S}
             /\ \A n, p \in T : n.timerId = p.timerId => n = p
             /\ \A o : Cardinality(Of(o, T)) = Cardinality(Of(o, S))
<1> DEFINE T == {f[n] : n \in S}
<1>1. {n.timerId : n \in T} = {n.timerId : n \in S}
  OBVIOUS
<1>2. \A n, p \in T : n.timerId = p.timerId => n = p
  OBVIOUS
<1>3. ASSUME NEW o
      PROVE  Cardinality(Of(o, T)) = Cardinality(Of(o, S))
  <2> DEFINE g == [n \in Of(o, S) |-> f[n]]
  <2>1. \A n \in Of(o, S) : n \in S /\ f[n] \in Of(o, T)
    BY DEF Of
  <2>2. \A m \in Of(o, T) : \E n \in Of(o, S) : f[n] = m
    BY DEF Of
  <2>3. \A n, p \in Of(o, S) : f[n] = f[p] => n = p
    BY DEF Of
  <2> HIDE DEF T
  <2> DEFINE A == Of(o, S)
             B == Of(o, T)
  <2>4. /\ g \in [A -> B]
        /\ \A n, p \in A : g[n] = g[p] => n = p
        /\ \A m \in B : \E n \in A : g[n] = m
    BY <2>1, <2>2, <2>3
  <2> HIDE DEF A, B, g
  <2>5. g \in Bijection(A, B)
    BY <2>4 DEF Bijection, Injection, Surjection, IsInjective
  <2>6. ExistsBijection(A, B)
    BY <2>5 DEF ExistsBijection
  <2>7. IsFiniteSet(A)
    BY OfFinite DEF A
  <2>8. Cardinality(B) = Cardinality(A)
    BY <2>6, <2>7, FS_Bijection
  <2> QED
    BY <2>8 DEF A, B
<1>4. IsFiniteSet(T)
  <2> DEFINE g == [n \in S |-> f[n]]
  <2>1. g \in Surjection(S, T)
    BY DEF Surjection
  <2> QED
    BY <2>1, FS_Surjection
<1> QED
  BY <1>1, <1>2, <1>3, <1>4

\* What re-arming and UpdateHeartbeatTimers change of a node.
LEMMA Changed ==
  ASSUME NEW n, IsNode(n), NEW e
  PROVE  [n EXCEPT !.expireTick = e] =
           Node(n.timerId, e, n.onTimer, n.timeSpan, n.recurring, n.heartbeat, n.htbtIndex)
<1>1. PICK a, x, o, y, r, h, j : n = Node(a, x, o, y, r, h, j)
  BY DEF IsNode
<1>2. /\ n.timerId = a /\ n.onTimer = o /\ n.timeSpan = y /\ n.recurring = r
      /\ n.heartbeat = h /\ n.htbtIndex = j
  BY <1>1 DEF Node
<1>3. [n EXCEPT !.expireTick = e] = Node(a, e, o, y, r, h, j)
  BY <1>1 DEF Node
<1> QED
  BY <1>2, <1>3

LEMMA SpanAndIndex ==
  ASSUME NEW n, IsNode(n), NEW t, NEW i
  PROVE  [[n EXCEPT !.timeSpan = t] EXCEPT !.htbtIndex = i] =
           Node(n.timerId, n.expireTick, n.onTimer, t, n.recurring, n.heartbeat, i)
<1>1. PICK a, x, o, y, r, h, j : n = Node(a, x, o, y, r, h, j)
  BY DEF IsNode
<1>2. /\ n.timerId = a /\ n.expireTick = x /\ n.onTimer = o /\ n.recurring = r
      /\ n.heartbeat = h
  BY <1>1 DEF Node
<1>3. [n EXCEPT !.timeSpan = t] = Node(a, x, o, t, r, h, j)
  BY <1>1 DEF Node
<1>4. [Node(a, x, o, t, r, h, j) EXCEPT !.htbtIndex = i] = Node(a, x, o, t, r, h, i)
  BY DEF Node
<1> QED
  BY <1>2, <1>3, <1>4

LEMMA NodeFields ==
  ASSUME NEW a, NEW x, NEW o, NEW y, NEW r, NEW h, NEW j
  PROVE  LET m == Node(a, x, o, y, r, h, j)
         IN  IsNode(m) /\ m.timerId = a /\ m.onTimer = o /\ m.expireTick = x
  BY DEF IsNode, Node

LEMMA RearmedNode ==
  ASSUME NEW n, IsNode(n)
  PROVE  /\ IsNode(Rearmed(n)) /\ Rearmed(n).timerId = n.timerId
         /\ Rearmed(n).onTimer = n.onTimer
<1>1. PICK e : Rearmed(n) = [n EXCEPT !.expireTick = e]
  BY DEF Rearmed
<1>2. Rearmed(n) =
        Node(n.timerId, e, n.onTimer, n.timeSpan, n.recurring, n.heartbeat, n.htbtIndex)
  BY <1>1, Changed
<1> QED
  BY <1>2, NodeFields
-----------------------------------------------------------------------------
(***************************************************************************)
(* Every step keeps IInv.                                                  *)
(***************************************************************************)
LEMMA InitIInv == Init => IInv
<1> SUFFICES ASSUME Init PROVE IInv
  OBVIOUS
<1>1. NodesOK
  BY FS_EmptySet DEF Init, NodesOK
<1>2. Phases
  BY DEF Init, Phases
<1>3. IndexAgrees
  BY DEF Init, IndexAgrees
<1>4. RefsExact
  BY OfEmpty DEF Init, RefsExact
<1> QED
  BY <1>1, <1>2, <1>3, <1>4 DEF IInv

\* A new node, with the id that is given out next.
LEMMA InsertStep ==
  ASSUME IInv, NEW n, IsNode(n), n.onTimer \in Objects, n.timerId = nextId,
         Insert(n), UNCHANGED <<m_task, wpc, timers, spc, stopped, owned>>
  PROVE  IInv'
<1>1. /\ m_timers' = m_timers \cup {n} /\ nextId' = nextId + 1
      /\ m_timerId2ExpireTick' = With(m_timerId2ExpireTick, n.timerId, n.expireTick)
      /\ refs' = [refs EXCEPT ![n.onTimer] = refs[n.onTimer] + 1]
  BY DEF Insert
<1>2. \A p \in m_timers : p.timerId # n.timerId
  BY DEF IInv, NodesOK
<1>3. \A o \in Objects :
        /\ IsFiniteSet(m_timers')
        /\ Cardinality(Of(o, m_timers')) =
             Cardinality(Of(o, m_timers)) + (IF n.onTimer = o THEN 1 ELSE 0)
        /\ Cardinality(Of(o, m_timers)) \in Nat
  BY <1>1, <1>2, OfPlus, OfFinite DEF IInv, NodesOK
<1>4. IsFiniteSet(m_timers')
  BY <1>3
<1>5. NodesOK'
  BY <1>1, <1>4 DEF IInv, NodesOK
<1>6. Phases'
  BY DEF IInv, Phases
<1>7. IndexAgrees'
  BY <1>1, <1>2 DEF IInv, IndexAgrees, With
<1>8. RefsExact'
  <2> SUFFICES ASSUME NEW o \in Objects
               PROVE  refs'[o] = (IF o \in owned THEN 1 ELSE 0)
                                 + Cardinality(Of(o, m_timers'))
                                 + Cardinality(Of(o, timers)) + Cardinality(Of(o, stopped))
    BY DEF RefsExact
  <2>1. refs[o] = (IF o \in owned THEN 1 ELSE 0) + Cardinality(Of(o, m_timers))
                  + Cardinality(Of(o, timers)) + Cardinality(Of(o, stopped))
    BY DEF IInv, RefsExact
  <2>2. refs'[o] = refs[o] + (IF n.onTimer = o THEN 1 ELSE 0)
    BY <1>1 DEF IInv, NodesOK
  <2>3. Cardinality(Of(o, timers)) \in Nat /\ Cardinality(Of(o, stopped)) \in Nat
    BY OfFinite DEF IInv, NodesOK
  <2> QED
    BY <1>3, <2>1, <2>2, <2>3
<1> QED
  BY <1>5, <1>6, <1>7, <1>8 DEF IInv

LEMMA ScheduleStep ==
  ASSUME IInv,
         \/ \E o \in Objects, span \in Spans, r \in BOOLEAN : ScheduleTimer(o, span, r)
         \/ \E o \in Objects, rand \in 0..(m_htbtTimeSpan \div Steps - 1) :
              ScheduleHeartbeatTimer(o, rand)
  PROVE  IInv'
<1>1. UNCHANGED <<m_task, wpc, timers, spc, stopped, owned>>
  BY DEF ScheduleTimer, ScheduleHeartbeatTimer, life, worker, stop
<1>2. \E n : IsNode(n) /\ n.onTimer \in Objects /\ n.timerId = nextId /\ Insert(n)
  <2>1. CASE \E o \in Objects, span \in Spans, r \in BOOLEAN : ScheduleTimer(o, span, r)
    <3>1. PICK o \in Objects, span \in Spans, r \in BOOLEAN :
            Insert(Node(nextId, tick + span, o, span, r, FALSE, 0))
      BY <2>1 DEF ScheduleTimer
    <3>2. \A e, t, b, h, i : LET n == Node(nextId, e, o, t, b, h, i)
                             IN  IsNode(n) /\ n.onTimer = o /\ n.timerId = nextId
      BY DEF IsNode, Node
    <3> QED
      BY <3>1, <3>2
  <2>2. CASE \E o \in Objects, rand \in 0..(m_htbtTimeSpan \div Steps - 1) :
               ScheduleHeartbeatTimer(o, rand)
    <3>1. PICK o \in Objects, rand \in 0..(m_htbtTimeSpan \div Steps - 1) :
            ScheduleHeartbeatTimer(o, rand)
      BY <2>2
    <3>2. PICK e : Insert(Node(nextId, e, o, m_htbtTimeSpan, TRUE, TRUE, LeastSlot))
      BY <3>1 DEF ScheduleHeartbeatTimer
    <3>3. \A x, t, b, h, i : LET n == Node(nextId, x, o, t, b, h, i)
                             IN  IsNode(n) /\ n.onTimer = o /\ n.timerId = nextId
      BY DEF IsNode, Node
    <3> QED
      BY <3>2, <3>3
  <2> QED
    BY <2>1, <2>2
<1> QED
  BY <1>1, <1>2, InsertStep

LEMMA CancelStep ==
  ASSUME IInv, NEW id \in Ids, CancelTimer(id)
  PROVE  IInv'
<1>1. PICK n \in m_timers :
        /\ n.timerId = id
        /\ m_timers' = m_timers \ {n}
        /\ m_timerId2ExpireTick' = Without(m_timerId2ExpireTick, id)
        /\ refs' = [refs EXCEPT ![n.onTimer] = refs[n.onTimer] - 1]
  BY DEF CancelTimer
<1>2. UNCHANGED <<m_task, wpc, timers, spc, stopped, owned, nextId>>
  BY DEF CancelTimer, life, worker, stop
<1>3. \A o \in Objects :
        /\ IsFiniteSet(m_timers')
        /\ Cardinality(Of(o, m_timers')) \in Nat
        /\ Cardinality(Of(o, m_timers)) =
             Cardinality(Of(o, m_timers')) + (IF n.onTimer = o THEN 1 ELSE 0)
  BY <1>1, OfMinus DEF IInv, NodesOK
<1>4. n.onTimer \in Objects /\ IsFiniteSet(m_timers')
  BY <1>3 DEF IInv, NodesOK
<1>5. \A o \in Objects :
        /\ refs'[o] = refs[o] - (IF n.onTimer = o THEN 1 ELSE 0)
        /\ refs[o] = (IF o \in owned THEN 1 ELSE 0) + Cardinality(Of(o, m_timers))
                     + Cardinality(Of(o, timers)) + Cardinality(Of(o, stopped))
        /\ Cardinality(Of(o, timers)) \in Nat /\ Cardinality(Of(o, stopped)) \in Nat
  BY <1>1, OfFinite DEF IInv, NodesOK, RefsExact
<1>6. \A o \in Objects :
        refs'[o] = (IF o \in owned THEN 1 ELSE 0) + Cardinality(Of(o, m_timers'))
                   + Cardinality(Of(o, timers)) + Cardinality(Of(o, stopped))
  BY <1>3, <1>5
<1>7. NodesOK'
  <2>1. refs[n.onTimer] - 1 \in Nat
    BY <1>3, <1>4, <1>5
  <2>2. refs' \in [Objects -> Nat]
    BY <1>1, <2>1 DEF IInv, NodesOK
  <2> QED
    BY <1>1, <1>2, <1>4, <2>2 DEF IInv, NodesOK
<1>8. Phases'
  BY <1>2 DEF IInv, Phases
<1>9. IndexAgrees'
  BY <1>1 DEF IInv, IndexAgrees, Without
<1>10. RefsExact'
  BY <1>2, <1>6 DEF RefsExact
<1> QED
  BY <1>7, <1>8, <1>9, <1>10 DEF IInv

MovedTo(n, x, t, k) == [n EXCEPT !.expireTick = x, !.timeSpan = t, !.htbtIndex = k]

LEMMA Moved ==
  ASSUME NEW n, IsNode(n), NEW x, NEW t, NEW k
  PROVE  MovedTo(n, x, t, k) = Node(n.timerId, x, n.onTimer, t, n.recurring, n.heartbeat, k)
<1>1. PICK m : m = [n EXCEPT !.expireTick = x]
  OBVIOUS
<1>2. m = Node(n.timerId, x, n.onTimer, n.timeSpan, n.recurring, n.heartbeat,
               n.htbtIndex)
  BY <1>1, Changed
<1>3. /\ IsNode(m) /\ m.timerId = n.timerId /\ m.expireTick = x
      /\ m.onTimer = n.onTimer /\ m.recurring = n.recurring
      /\ m.heartbeat = n.heartbeat
  BY <1>2 DEF IsNode, Node
<1>4. [[m EXCEPT !.timeSpan = t] EXCEPT !.htbtIndex = k] =
        Node(m.timerId, m.expireTick, m.onTimer, t, m.recurring, m.heartbeat, k)
  BY <1>3, SpanAndIndex
<1>5. MovedTo(n, x, t, k) = [[m EXCEPT !.timeSpan = t] EXCEPT !.htbtIndex = k]
  BY <1>1 DEF MovedTo
<1> QED
  BY <1>3, <1>4, <1>5

LEMMA UpdateStep ==
  ASSUME IInv, NEW span, NEW rand, UpdateHeartbeatTimers(span, rand)
  PROVE  IInv'
<1> DEFINE htbts == {n \in m_timers : n.heartbeat}
           rank(n) == Cardinality({p \in htbts : Before(p, n)})
           e(n) == AlignUp(tick, span) + (span \div Steps) * rank(n) + rand[n.timerId]
           moved(n) == [n EXCEPT !.expireTick = e(n), !.timeSpan = span,
                                 !.htbtIndex = rank(n)]
           f == [n \in m_timers |-> IF n.heartbeat THEN moved(n) ELSE n]
<1>1. /\ m_timers' = (m_timers \ htbts) \cup {moved(n) : n \in htbts}
      /\ m_timerId2ExpireTick' =
           [id \in DOMAIN m_timerId2ExpireTick |->
              IF \E n \in htbts : n.timerId = id
                THEN moved(CHOOSE n \in htbts : n.timerId = id).expireTick
                ELSE m_timerId2ExpireTick[id]]
      /\ UNCHANGED <<m_task, wpc, timers, spc, stopped, owned, refs, nextId>>
  BY DEF UpdateHeartbeatTimers, life, worker, stop, objs
<1>2. ASSUME NEW n \in m_timers
      PROVE  IsNode(moved(n)) /\ moved(n).timerId = n.timerId /\ moved(n).onTimer = n.onTimer
  <2>1. IsNode(n)
    BY DEF IInv, NodesOK
  <2>2. PICK x, k : x = e(n) /\ k = rank(n)
    OBVIOUS
  <2>3. moved(n) = MovedTo(n, x, span, k)
    BY <2>2 DEF MovedTo
  <2> HIDE DEF moved
  <2>4. moved(n) = Node(n.timerId, x, n.onTimer, span, n.recurring, n.heartbeat, k)
    BY <2>1, <2>3, Moved
  <2> QED
    BY <2>4, NodeFields
<1> HIDE DEF moved
<1>3. \A n, p \in m_timers : n.timerId = p.timerId => n = p
  BY DEF IInv, IndexAgrees
<1>4. m_timers' = {f[n] : n \in m_timers}
  BY <1>1
<1>5. \A n \in m_timers :
        f[n].timerId = n.timerId /\ f[n].onTimer = n.onTimer /\ IsNode(f[n])
  BY <1>2 DEF IInv, NodesOK
<1>6. \A n \in m_timers : m_timerId2ExpireTick'[n.timerId] = f[n].expireTick
  <2> SUFFICES ASSUME NEW n \in m_timers
               PROVE  m_timerId2ExpireTick'[n.timerId] = f[n].expireTick
    OBVIOUS
  <2>1. n.timerId \in DOMAIN m_timerId2ExpireTick /\ m_timerId2ExpireTick[n.timerId] = n.expireTick
    BY DEF IInv, IndexAgrees
  <2>2. CASE n.heartbeat
    <3>1. (CHOOSE p \in htbts : p.timerId = n.timerId) = n
      BY <1>3, <2>2
    <3> QED
      BY <1>1, <2>1, <2>2, <3>1
  <2>3. CASE ~n.heartbeat
    <3>1. ~\E p \in htbts : p.timerId = n.timerId
      BY <1>3, <2>3
    <3> QED
      BY <1>1, <2>1, <2>3, <3>1
  <2> QED
    BY <2>2, <2>3
<1> HIDE DEF f
<1>7. /\ IsFiniteSet(m_timers')
      /\ {n.timerId : n \in m_timers'} = {n.timerId : n \in m_timers}
      /\ \A n, p \in m_timers' : n.timerId = p.timerId => n = p
      /\ \A o : Cardinality(Of(o, m_timers')) = Cardinality(Of(o, m_timers))
  BY <1>3, <1>4, <1>5, Rebuilt DEF IInv, NodesOK
<1>8. NodesOK'
  BY <1>1, <1>4, <1>5, <1>7 DEF IInv, NodesOK
<1>9. Phases'
  BY <1>1 DEF IInv, Phases
<1>10. IndexAgrees'
  <2>1. DOMAIN m_timerId2ExpireTick' = DOMAIN m_timerId2ExpireTick
    BY <1>1
  <2>2. {n.timerId : n \in m_timers} = DOMAIN m_timerId2ExpireTick
    BY DEF IInv, IndexAgrees
  <2>3. \A m \in m_timers' : m_timerId2ExpireTick'[m.timerId] = m.expireTick
    BY <1>4, <1>5, <1>6
  <2> QED
    BY <1>7, <2>1, <2>2, <2>3 DEF IndexAgrees
<1>11. RefsExact'
  BY <1>1, <1>7 DEF IInv, RefsExact
<1> QED
  BY <1>8, <1>9, <1>10, <1>11 DEF IInv

LEMMA CollectStep ==
  ASSUME IInv, WorkerCollect
  PROVE  IInv'
<1> DEFINE due == {n \in m_timers : n.expireTick <= tick}
           again == {n \in due : n.recurring \/ n.heartbeat}
           gone  == {n.timerId : n \in due \ again}
           rest  == m_timers \ due
           f     == [n \in again |-> Rearmed(n)]
           back  == {f[n] : n \in again}
<1>1. /\ wpc = "check" /\ timers' = due /\ m_timers' = rest \cup back
      /\ m_timerId2ExpireTick' =
           [id \in DOMAIN m_timerId2ExpireTick \ gone |->
              IF \E n \in again : n.timerId = id
                THEN Rearmed(CHOOSE n \in again : n.timerId = id).expireTick
                ELSE m_timerId2ExpireTick[id]]
      /\ refs' = [o \in Objects |-> refs[o] + Cardinality(Of(o, again))]
      /\ wpc' = "upcall"
      /\ UNCHANGED <<m_task, spc, stopped, owned, nextId>>
  <2>1. back = {Rearmed(n) : n \in again}
    OBVIOUS
  <2> QED
    BY <2>1 DEF WorkerCollect, life, stop
<1>2. timers = {} /\ m_task /\ spc # "release"
  BY <1>1 DEF IInv, Phases
<1>3. due \in SUBSET m_timers /\ again \in SUBSET due
  OBVIOUS
<1>4. IsFiniteSet(due) /\ IsFiniteSet(again) /\ IsFiniteSet(rest)
  BY <1>3, FS_Subset, FS_Difference DEF IInv, NodesOK
<1>5. \A n, p \in m_timers : n.timerId = p.timerId => n = p
  BY DEF IInv, IndexAgrees
<1>6. \A n \in again :
        f[n].timerId = n.timerId /\ f[n].onTimer = n.onTimer /\ IsNode(f[n])
  BY RearmedNode DEF IInv, NodesOK
<1>7. /\ IsFiniteSet(back)
      /\ {n.timerId : n \in back} = {n.timerId : n \in again}
      /\ \A n, p \in back : n.timerId = p.timerId => n = p
      /\ \A o : Cardinality(Of(o, back)) = Cardinality(Of(o, again))
  <2>1. \A n, p \in again : n.timerId = p.timerId => n = p
    BY <1>5
  <2>2. back = {f[n] : n \in again}
    OBVIOUS
  <2> HIDE DEF f, again, back
  <2> QED
    <3>1. \A n \in again : f[n].timerId = n.timerId /\ f[n].onTimer = n.onTimer
      BY <1>6
    <3>2. IsFiniteSet(again)
      BY <1>4
    <3> QED
      BY <2>1, <2>2, <3>1, <3>2, Rebuilt
<1>8. \A m \in back : \E n \in again : m.timerId = n.timerId
  BY <1>7
<1>9. \A n \in rest, m \in back : n.timerId # m.timerId
  BY <1>5, <1>8
<1>10. rest \cap back = {}
  BY <1>9
<1>11. \A n \in rest : m_timerId2ExpireTick'[n.timerId] = n.expireTick /\ n.timerId \notin gone
  <2> SUFFICES ASSUME NEW n \in rest
               PROVE  m_timerId2ExpireTick'[n.timerId] = n.expireTick /\ n.timerId \notin gone
    OBVIOUS
  <2>1. n.timerId \in DOMAIN m_timerId2ExpireTick /\ m_timerId2ExpireTick[n.timerId] = n.expireTick
    BY DEF IInv, IndexAgrees
  <2>2. (~\E p \in again : p.timerId = n.timerId) /\ n.timerId \notin gone
    BY <1>5
  <2> QED
    BY <1>1, <2>1, <2>2
<1>12. \A n \in again :
         m_timerId2ExpireTick'[n.timerId] = f[n].expireTick /\ n.timerId \notin gone
  <2> SUFFICES ASSUME NEW n \in again
               PROVE  m_timerId2ExpireTick'[n.timerId] = f[n].expireTick /\ n.timerId \notin gone
    OBVIOUS
  <2>1. n.timerId \in DOMAIN m_timerId2ExpireTick
    BY DEF IInv, IndexAgrees
  <2>2. (CHOOSE p \in again : p.timerId = n.timerId) = n /\ n.timerId \notin gone
    BY <1>5
  <2> QED
    BY <1>1, <2>1, <2>2
<1>13. {n.timerId : n \in m_timers'} = DOMAIN m_timerId2ExpireTick'
  <2>1. {n.timerId : n \in m_timers} = DOMAIN m_timerId2ExpireTick
    BY DEF IInv, IndexAgrees
  <2>2. {n.timerId : n \in m_timers'} = {n.timerId : n \in rest} \cup {n.timerId : n \in again}
    BY <1>1, <1>7
  <2>3. {n.timerId : n \in rest} \cup {n.timerId : n \in again} =
          {n.timerId : n \in m_timers} \ gone
    BY <1>11, <1>12
  <2> QED
    BY <1>1, <2>1, <2>2, <2>3
<1>14. IndexAgrees'
  <2>1. \A m \in m_timers' : m_timerId2ExpireTick'[m.timerId] = m.expireTick
    <3>1. \A m \in back : \E n \in again : m = f[n]
      OBVIOUS
    <3>2. \A m \in back : m_timerId2ExpireTick'[m.timerId] = m.expireTick
      <4> SUFFICES ASSUME NEW m \in back
                   PROVE  m_timerId2ExpireTick'[m.timerId] = m.expireTick
        OBVIOUS
      <4>1. PICK n \in again : m = f[n]
        BY <3>1
      <4>2. f[n].timerId = n.timerId /\ m_timerId2ExpireTick'[n.timerId] = f[n].expireTick
        BY <1>6, <1>12
      <4> HIDE DEF f
      <4> QED
        BY <4>1, <4>2
    <3> HIDE DEF back, rest
    <3> QED
      BY <1>1, <1>11, <3>2
  <2>2. \A n, p \in m_timers' : n.timerId = p.timerId => n = p
    BY <1>1, <1>5, <1>7, <1>9
  <2> QED
    BY <1>13, <2>1, <2>2 DEF IndexAgrees
<1>15. IsFiniteSet(m_timers') /\ IsFiniteSet(timers')
  BY <1>1, <1>4, <1>7, FS_Union
<1>16. \A o \in Objects : refs'[o] = refs[o] + Cardinality(Of(o, again))
  BY <1>1
<1>17. NodesOK'
  <2>1. refs' \in [Objects -> Nat]
    <3>1. \A o \in Objects : refs[o] + Cardinality(Of(o, again)) \in Nat
      BY <1>4, OfFinite DEF IInv, NodesOK
    <3> HIDE DEF again
    <3> QED
      BY <1>1, <3>1
  <2>2. \A m \in back : IsNode(m) /\ \E n \in m_timers : m.timerId = n.timerId /\ m.onTimer = n.onTimer
    <3>1. again \subseteq m_timers
      OBVIOUS
    <3> HIDE DEF again, f
    <3> QED
      BY <1>6, <3>1
  <2>3. \A n \in m_timers' \cup timers' \cup stopped' :
          IsNode(n) /\ n.onTimer \in Objects /\ n.timerId \in Nat /\ n.timerId < nextId'
    <3> HIDE DEF back
    <3> QED
      BY <1>1, <2>2 DEF IInv, NodesOK
  <2> QED
    BY <1>1, <1>15, <2>1, <2>3 DEF IInv, NodesOK
<1>18. Phases'
  BY <1>1, <1>2 DEF IInv, Phases
<1> HIDE DEF due, again, gone, rest, f, back
<1>19. RefsExact'
  <2> SUFFICES ASSUME NEW o \in Objects
               PROVE  refs'[o] = (IF o \in owned' THEN 1 ELSE 0)
                                 + Cardinality(Of(o, m_timers'))
                                 + Cardinality(Of(o, timers')) + Cardinality(Of(o, stopped'))
    BY DEF RefsExact
  <2>1. refs[o] = (IF o \in owned THEN 1 ELSE 0) + Cardinality(Of(o, m_timers))
                  + Cardinality(Of(o, timers)) + Cardinality(Of(o, stopped))
    BY DEF IInv, RefsExact
  <2>2. Cardinality(Of(o, m_timers)) = Cardinality(Of(o, rest)) + Cardinality(Of(o, due))
    BY <1>3, OfSplit DEF rest, IInv, NodesOK
  <2>3. Cardinality(Of(o, m_timers')) = Cardinality(Of(o, rest)) + Cardinality(Of(o, again))
    BY <1>1, <1>4, <1>7, <1>10, OfJoin
  <2>4. Cardinality(Of(o, timers)) = 0
    BY <1>2, OfEmpty
  <2>5. /\ Cardinality(Of(o, rest)) \in Nat /\ Cardinality(Of(o, due)) \in Nat
        /\ Cardinality(Of(o, again)) \in Nat /\ Cardinality(Of(o, stopped)) \in Nat
    BY <1>4, OfFinite DEF IInv, NodesOK
  <2> QED
    BY <1>1, <1>16, <2>1, <2>2, <2>3, <2>4, <2>5
<1> QED
  BY <1>14, <1>17, <1>18, <1>19 DEF IInv

LEMMA UpcallStep ==
  ASSUME IInv, WorkerUpcall
  PROVE  IInv'
<1>1. PICK n \in timers :
        /\ timers' = timers \ {n}
        /\ refs' = [refs EXCEPT ![n.onTimer] = refs[n.onTimer] - 1]
        /\ wpc' = IF timers = {n} THEN "check" ELSE "upcall"
  BY DEF WorkerUpcall
<1>2. UNCHANGED <<m_timers, m_timerId2ExpireTick, m_task, spc, stopped, owned, nextId>>
      /\ wpc = "upcall"
  BY DEF WorkerUpcall, store, life, stop
<1>3. n.onTimer \in Objects
  BY DEF IInv, NodesOK
<1>4. \A o \in Objects :
        /\ IsFiniteSet(timers')
        /\ Cardinality(Of(o, timers')) \in Nat
        /\ Cardinality(Of(o, timers)) =
             Cardinality(Of(o, timers')) + (IF n.onTimer = o THEN 1 ELSE 0)
  BY <1>1, OfMinus DEF IInv, NodesOK
<1>5. \A o \in Objects :
        /\ refs'[o] = refs[o] - (IF n.onTimer = o THEN 1 ELSE 0)
        /\ refs[o] = (IF o \in owned THEN 1 ELSE 0) + Cardinality(Of(o, m_timers))
                     + Cardinality(Of(o, timers)) + Cardinality(Of(o, stopped))
        /\ Cardinality(Of(o, m_timers)) \in Nat /\ Cardinality(Of(o, stopped)) \in Nat
  BY <1>1, OfFinite DEF IInv, NodesOK, RefsExact
<1>6. \A o \in Objects :
        refs'[o] = (IF o \in owned THEN 1 ELSE 0) + Cardinality(Of(o, m_timers))
                   + Cardinality(Of(o, timers')) + Cardinality(Of(o, stopped))
  BY <1>4, <1>5
<1>7. NodesOK'
  <2>1. refs[n.onTimer] - 1 \in Nat
    BY <1>3, <1>4, <1>5
  <2>2. refs' \in [Objects -> Nat]
    BY <1>1, <2>1 DEF IInv, NodesOK
  <2> QED
    BY <1>1, <1>2, <1>3, <1>4, <2>2 DEF IInv, NodesOK
<1>8. Phases'
  BY <1>1, <1>2 DEF IInv, Phases
<1>9. IndexAgrees'
  BY <1>2 DEF IInv, IndexAgrees
<1>10. RefsExact'
  BY <1>2, <1>6 DEF RefsExact
<1> QED
  BY <1>7, <1>8, <1>9, <1>10 DEF IInv

LEMMA OwnerReleaseStep ==
  ASSUME IInv, NEW o \in Objects, OwnerRelease(o)
  PROVE  IInv'
<1>1. /\ o \in owned /\ owned' = owned \ {o} /\ refs' = [refs EXCEPT ![o] = refs[o] - 1]
      /\ UNCHANGED <<m_timers, m_timerId2ExpireTick, m_task, wpc, timers, spc, stopped, nextId>>
  BY DEF OwnerRelease, store, life, worker, stop
<1>2. \A x \in Objects :
        /\ refs'[x] = refs[x] - (IF x = o THEN 1 ELSE 0)
        /\ refs[x] = (IF x \in owned THEN 1 ELSE 0) + Cardinality(Of(x, m_timers))
                     + Cardinality(Of(x, timers)) + Cardinality(Of(x, stopped))
        /\ Cardinality(Of(x, m_timers)) \in Nat /\ Cardinality(Of(x, timers)) \in Nat
        /\ Cardinality(Of(x, stopped)) \in Nat
  BY <1>1, OfFinite DEF IInv, NodesOK, RefsExact
<1>3. \A x \in Objects :
        refs'[x] = (IF x \in owned' THEN 1 ELSE 0) + Cardinality(Of(x, m_timers))
                   + Cardinality(Of(x, timers)) + Cardinality(Of(x, stopped))
  BY <1>1, <1>2
<1>4. NodesOK'
  <2>1. refs[o] - 1 \in Nat
    BY <1>1, <1>2
  <2>2. refs' \in [Objects -> Nat]
    BY <1>1, <2>1 DEF IInv, NodesOK
  <2> QED
    BY <1>1, <2>2 DEF IInv, NodesOK
<1>5. Phases' /\ IndexAgrees'
  BY <1>1 DEF IInv, Phases, IndexAgrees
<1>6. RefsExact'
  BY <1>1, <1>3 DEF RefsExact
<1> QED
  BY <1>4, <1>5, <1>6 DEF IInv

\* Stop moves the nodes, and later gives up their references.
LEMMA StopStep ==
  ASSUME IInv, Stop
  PROVE  IInv'
<1>1. /\ m_task /\ spc = "idle" /\ stopped' = m_timers /\ m_timers' = {}
      /\ m_timerId2ExpireTick' = [id \in {} |-> 0] /\ spc' = "taskStop"
      /\ UNCHANGED <<m_task, wpc, timers, owned, refs, nextId>>
  BY DEF Stop, worker, objs
<1>2. stopped = {}
  BY <1>1 DEF IInv, Phases
<1>3. NodesOK'
  BY <1>1, FS_EmptySet DEF IInv, NodesOK
<1>4. Phases' /\ IndexAgrees'
  BY <1>1 DEF IInv, Phases, IndexAgrees
<1>5. RefsExact'
  <2> SUFFICES ASSUME NEW o \in Objects
               PROVE  refs[o] = (IF o \in owned THEN 1 ELSE 0)
                                + Cardinality(Of(o, {}))
                                + Cardinality(Of(o, timers)) + Cardinality(Of(o, m_timers))
    BY <1>1 DEF RefsExact
  <2>1. refs[o] = (IF o \in owned THEN 1 ELSE 0) + Cardinality(Of(o, m_timers))
                  + Cardinality(Of(o, timers)) + Cardinality(Of(o, {}))
    BY <1>2 DEF IInv, RefsExact
  <2>2. Cardinality(Of(o, m_timers)) \in Nat /\ Cardinality(Of(o, timers)) \in Nat
    BY OfFinite DEF IInv, NodesOK
  <2> QED
    BY <2>1, <2>2, OfEmpty
<1> QED
  BY <1>3, <1>4, <1>5 DEF IInv

LEMMA StopResetStep ==
  ASSUME IInv, StopReset
  PROVE  IInv'
<1>1. /\ spc = "release" /\ stopped' = {} /\ spc' = "idle" /\ m_task' = FALSE
      /\ refs' = [o \in Objects |-> refs[o] - Cardinality(Of(o, stopped))]
      /\ UNCHANGED <<m_timers, m_timerId2ExpireTick, wpc, timers, owned, nextId>>
  BY DEF StopReset, store, worker
<1>2. \A x \in Objects :
        /\ refs[x] = (IF x \in owned THEN 1 ELSE 0) + Cardinality(Of(x, m_timers))
                     + Cardinality(Of(x, timers)) + Cardinality(Of(x, stopped))
        /\ Cardinality(Of(x, m_timers)) \in Nat /\ Cardinality(Of(x, timers)) \in Nat
        /\ Cardinality(Of(x, stopped)) \in Nat
  BY OfFinite DEF IInv, NodesOK, RefsExact
<1>3. \A x \in Objects :
        /\ refs'[x] = (IF x \in owned THEN 1 ELSE 0) + Cardinality(Of(x, m_timers))
                      + Cardinality(Of(x, timers))
        /\ refs'[x] \in Nat
  BY <1>1, <1>2
<1>4. NodesOK'
  <2>1. refs' \in [Objects -> Nat]
    BY <1>1, <1>3
  <2> QED
    BY <1>1, <2>1, FS_EmptySet DEF IInv, NodesOK
<1>5. Phases' /\ IndexAgrees'
  BY <1>1 DEF IInv, Phases, IndexAgrees
<1>6. RefsExact'
  <2> SUFFICES ASSUME NEW o \in Objects
               PROVE  refs'[o] = (IF o \in owned THEN 1 ELSE 0)
                                 + Cardinality(Of(o, m_timers))
                                 + Cardinality(Of(o, timers)) + Cardinality(Of(o, {}))
    BY <1>1 DEF RefsExact
  <2> QED
    BY <1>2, <1>3, OfEmpty
<1> QED
  BY <1>4, <1>5, <1>6 DEF IInv

\* Steps that move no node and no reference.
LEMMA OtherStep ==
  ASSUME IInv,
         \/ WorkerSleep \/ WorkerWake \/ WorkerExit \/ StopJoined \/ Tick
         \/ \E mm \in BOOLEAN : Start(mm)
         \/ UNCHANGED vars
  PROVE  IInv'
<1>1. UNCHANGED <<m_timers, m_timerId2ExpireTick, timers, stopped, owned, refs, nextId>>
  BY DEF WorkerSleep, WorkerWake, WorkerExit, StopJoined, Tick, Start, vars, store, worker,
         stop, objs
<1>2. Phases'
  BY <1>1 DEF WorkerSleep, WorkerWake, WorkerExit, StopJoined, Tick, Start, vars, life,
              worker, stop, IInv, Phases
<1>3. NodesOK' /\ IndexAgrees' /\ RefsExact'
  BY <1>1 DEF IInv, NodesOK, IndexAgrees, RefsExact
<1> QED
  BY <1>2, <1>3 DEF IInv

\* IInv is an invariant: one lemma for each kind of step.
THEOREM Invariance == Spec => []IInv
<1>1. IInv /\ [Next]_vars => IInv'
  <2> SUFFICES ASSUME IInv, [Next]_vars PROVE IInv'
    OBVIOUS
  <2>1. CASE \/ WorkerSleep \/ WorkerWake \/ WorkerExit \/ StopJoined \/ Tick
             \/ \E mm \in BOOLEAN : Start(mm)
             \/ UNCHANGED vars
    BY <2>1, OtherStep
  <2>2. CASE WorkerCollect
    BY <2>2, CollectStep
  <2>3. CASE WorkerUpcall
    BY <2>3, UpcallStep
  <2>4. CASE Stop
    BY <2>4, StopStep
  <2>5. CASE StopReset
    BY <2>5, StopResetStep
  <2>6. CASE \/ \E o \in Objects, span \in Spans, r \in BOOLEAN : ScheduleTimer(o, span, r)
             \/ \E o \in Objects, rand \in 0..(m_htbtTimeSpan \div Steps - 1) :
                  ScheduleHeartbeatTimer(o, rand)
    BY <2>6, ScheduleStep
  <2>7. CASE \E id \in Ids : CancelTimer(id)
    BY <2>7, CancelStep
  <2>8. CASE \E span \in HtbtSpans \cup {DefaultSpan} :
               \E rand \in [Ids -> 0..(span \div Steps - 1)] :
                 UpdateHeartbeatTimers(span, rand)
    BY <2>8, UpdateStep
  <2>9. CASE \E o \in Objects : OwnerRelease(o)
    BY <2>9, OwnerReleaseStep
  <2> QED
    BY <2>1, <2>2, <2>3, <2>4, <2>5, <2>6, <2>7, <2>8, <2>9 DEF Next, Worker
<1> QED
  BY <1>1, InitIInv, PTL DEF Spec

\* The set of timers and the index that CancelTimer looks in never disagree.
THEOREM IndexCorrect == Spec => []IndexAgrees
<1>1. IInv => IndexAgrees
  BY DEF IInv
<1> QED
  BY <1>1, Invariance, PTL

\* OnTimer is never called on a destroyed object, and no reference is leaked.
THEOREM RefsCorrect == Spec => []RefsExact
<1>1. IInv => RefsExact
  BY DEF IInv
<1> QED
  BY <1>1, Invariance, PTL
-----------------------------------------------------------------------------
(***************************************************************************)
(* Heartbeats: numbers.                                                    *)
(***************************************************************************)

\* A set of naturals has a least element.
LEMMA LeastNatural ==
  ASSUME NEW T \in SUBSET Nat, T # {}
  PROVE  \E x \in T : \A y \in T : x <= y
<1>1. PICK x \in T : \A y \in T : <<y, x>> \notin OpToRel(<, Nat)
  BY WFMin, NatLessThanWellFounded, Zenon
<1>2. \A y \in T : y < x => <<y, x>> \in OpToRel(<, Nat)
  BY DEF OpToRel
<1>3. \A y \in T : ~(y < x)
  BY <1>1, <1>2, Zenon
<1>4. \A y \in T : x <= y
  BY <1>3
<1> QED
  BY <1>4

LEMMA DivMod ==
  ASSUME NEW a \in Nat, NEW s \in Nat \ {0}
  PROVE  a \div s \in Nat /\ a % s \in 0..(s - 1) /\ a = s * (a \div s) + (a % s)
<1>1. a \div s \in Nat /\ a % s \in 0..(s - 1)
  OBVIOUS
<1>2. a = s * (a \div s) + (a % s)
  OBVIOUS
<1> QED
  BY <1>1, <1>2

LEMMA Quotient ==
  ASSUME NEW q \in Nat, NEW r \in Nat, NEW s \in Nat \ {0}, r < s
  PROVE  (q * s + r) % s = r /\ (q * s + r) \div s = q
<1>1. PICK a \in Nat : a = q * s + r
  OBVIOUS
<1>2. /\ a \div s \in Nat /\ a % s \in 0..(s - 1)
      /\ a = s * (a \div s) + (a % s)
  BY DivMod
<1>3. PICK d \in Nat, m \in 0..(s-1) : d = a \div s /\ m = a % s
  BY <1>2
<1>4. s * d + m = q * s + r
  BY <1>1, <1>2, <1>3
<1>5. ~(d >= q + 1)
  <2> SUFFICES ASSUME d >= q + 1 PROVE FALSE
    OBVIOUS
  <2>1. s * d >= s * (q + 1)
    OBVIOUS
  <2>2. s * (q + 1) = q * s + s
    OBVIOUS
  <2> QED
    BY <1>4, <2>1, <2>2
<1>6. ~(q >= d + 1)
  <2> SUFFICES ASSUME q >= d + 1 PROVE FALSE
    OBVIOUS
  <2>1. q * s >= (d + 1) * s
    OBVIOUS
  <2>2. (d + 1) * s = s * d + s
    OBVIOUS
  <2> QED
    BY <1>4, <2>1, <2>2
<1>7. d = q
  BY <1>5, <1>6
<1>8. m = r
  BY <1>4, <1>7
<1> QED
  BY <1>1, <1>3, <1>7, <1>8

LEMMA SpanFacts ==
  ASSUME NEW span \in HtbtSpans \cup {DefaultSpan}
  PROVE  /\ span \in Nat \ {0} /\ span \div Steps \in Nat \ {0}
         /\ span = Steps * (span \div Steps)
<1>1. span \in Nat \ {0} /\ span % Steps = 0
  BY HtbtAssumption
<1>2. span \div Steps \in Nat /\ span = Steps * (span \div Steps)
  BY <1>1, DivMod, StepsAssumption
<1>3. span \div Steps # 0
  BY <1>1, <1>2, StepsAssumption
<1> QED
  BY <1>1, <1>2, <1>3

LEMMA Aligned ==
  ASSUME NEW t \in Nat, NEW span \in Nat \ {0}
  PROVE  \E q \in Nat : AlignUp(t, span) = q * span
<1>1. t + span - 1 \in Nat
  OBVIOUS
<1>2. (t + span - 1) \div span \in Nat
  BY <1>1, DivMod
<1> QED
  BY <1>2 DEF AlignUp

\* The slot of a tick that is k steps and a bit after a multiple of the span.
LEMMA SlotOf ==
  ASSUME NEW span \in HtbtSpans \cup {DefaultSpan}, NEW q \in Nat, NEW k \in Nat,
         NEW r \in Nat, r < span \div Steps
  PROVE  LET e == q * span + (span \div Steps) * k + r
         IN  e \in Nat /\ (e % span) \div (span \div Steps) = k % Steps
<1>1. PICK step \in Nat \ {0} : step = span \div Steps
  BY SpanFacts
<1>2. span \in Nat \ {0} /\ span = Steps * step /\ r < step
  BY <1>1, SpanFacts
<1>3. PICK a \in Nat, b \in 0..(Steps - 1) : k = Steps * a + b /\ b = k % Steps
  BY DivMod, StepsAssumption
<1>4. PICK e : e = q * span + step * k + r
  OBVIOUS
<1>5. e = (q + a) * span + (b * step + r)
  <2>1. step * k = a * span + b * step
    <3>1. step * (Steps * a + b) = (step * Steps) * a + step * b
      BY StepsAssumption
    <3> QED
      BY <1>2, <1>3, <3>1, StepsAssumption
  <2>2. (q + a) * span = q * span + a * span
    BY <1>2
  <2>3. q * span \in Nat /\ a * span \in Nat /\ b * step \in Nat
    BY <1>2, StepsAssumption
  <2> QED
    BY <1>4, <2>1, <2>2, <2>3
<1>6. b * step + r \in Nat /\ b * step + r < span
  <2>1. (b + 1) * step <= Steps * step
    BY StepsAssumption
  <2>2. (b + 1) * step = b * step + step /\ b * step \in Nat
    BY StepsAssumption
  <2> QED
    BY <1>2, <2>1, <2>2
<1>7. e % span = b * step + r
  <2>1. PICK Q \in Nat, R \in Nat : Q = q + a /\ R = b * step + r
    BY <1>6
  <2>2. (Q * span + R) % span = R
    BY <1>2, <1>6, <2>1, Quotient
  <2> QED
    BY <1>5, <2>1, <2>2
<1>8. (b * step + r) \div step = b
  BY <1>2, Quotient, StepsAssumption
<1>9. e \in Nat
  <2>1. (q + a) * span \in Nat
    BY <1>2
  <2> QED
    BY <1>5, <1>6, <2>1
<1>10. (e % span) \div step = k % Steps
  BY <1>3, <1>7, <1>8
<1> QED
  BY <1>1, <1>4, <1>9, <1>10, Zenon

LEMMA LeastSlotIsSlot ==
  ASSUME m_htbtCounts \in [Slots -> Nat]
  PROVE  LeastSlot \in Slots
<1>1. 0 \in Slots
  BY StepsAssumption DEF Slots
<1>2. PICK c \in {m_htbtCounts[s] : s \in Slots} :
        \A d \in {m_htbtCounts[s] : s \in Slots} : c <= d
  <2>1. /\ {m_htbtCounts[s] : s \in Slots} \in SUBSET Nat
        /\ {m_htbtCounts[s] : s \in Slots} # {}
    BY <1>1
  <2> QED
    BY <2>1, LeastNatural
<1>3. PICK s \in {u \in Slots : m_htbtCounts[u] = c} :
        \A u \in {v \in Slots : m_htbtCounts[v] = c} : s <= u
  <2>1. /\ {u \in Slots : m_htbtCounts[u] = c} \in SUBSET Nat
        /\ {u \in Slots : m_htbtCounts[u] = c} # {}
    BY <1>2 DEF Slots
  <2> QED
    BY <2>1, LeastNatural
<1>4. \A u \in Slots : m_htbtCounts[s] <= m_htbtCounts[u]
  BY <1>2, <1>3
<1>5. \A u \in 0..(s - 1) : m_htbtCounts[u] > m_htbtCounts[s]
  <2> SUFFICES ASSUME NEW u \in 0..(s - 1) PROVE m_htbtCounts[u] > m_htbtCounts[s]
    OBVIOUS
  <2>1. u \in Slots /\ s \in Slots /\ u < s
    BY <1>3, StepsAssumption DEF Slots
  <2>2. m_htbtCounts[u] # c
    BY <1>3, <2>1 DEF Slots
  <2>3. m_htbtCounts[u] \in Nat /\ m_htbtCounts[s] \in Nat /\ m_htbtCounts[s] <= m_htbtCounts[u]
    BY <1>4, <2>1
  <2> QED
    BY <1>3, <2>2, <2>3
<1> QED
  BY <1>3, <1>4, <1>5 DEF LeastSlot
-----------------------------------------------------------------------------
(***************************************************************************)
(* Heartbeats: the invariant.                                              *)
(***************************************************************************)
Slot(n)  == (n.expireTick % n.timeSpan) \div (n.timeSpan \div Steps)
At(s, S) == {n \in S : n.heartbeat /\ n.htbtIndex = s}

InSlot(n, span) == n.heartbeat => n.timeSpan = span /\ Slot(n) = n.htbtIndex % Steps

\* Start resets the counters and StopReset the span while there are no timers.
Emptied ==
  /\ spc # "idle" => m_wantExit
  /\ spc # "idle" \/ ~m_task => m_timers = {}

Covered(S, counts) == \A s \in Slots : Cardinality(At(s, S)) <= counts[s]

HtbtInv ==
  /\ TypeOK /\ Emptied
  /\ \A n \in m_timers : InSlot(n, m_htbtTimeSpan)
  /\ Covered(m_timers, m_htbtCounts)

\* What a step must show; the rest of HtbtInv follows.
Kept ==
  /\ m_timers' \subseteq Nodes /\ m_htbtCounts' \in [Slots -> Nat]
  /\ \A n \in m_timers' : InSlot(n, m_htbtTimeSpan')
  /\ Covered(m_timers', m_htbtCounts')

LEMMA IndexType ==
  ASSUME NEW S \in SUBSET Nodes, NEW M, {n.timerId : n \in S} = DOMAIN M,
         \A n \in S : M[n.timerId] = n.expireTick
  PROVE  DOMAIN M \subseteq Ids /\ \A id \in DOMAIN M : M[id] \in Nat
<1>1. \A n \in S : n.timerId \in Ids /\ n.expireTick \in Nat
  BY DEF Nodes
<1>2. \A id \in DOMAIN M : \E n \in S : id = n.timerId
  OBVIOUS
<1> QED
  BY <1>1, <1>2

\* The variables that no heartbeat depends on.
LEMMA Frame ==
  ASSUME HtbtInv, [Next]_vars
  PROVE  /\ m_task' \in BOOLEAN /\ m_wantExit' \in BOOLEAN /\ m_mmTimer' \in BOOLEAN
         /\ wpc' \in {"off", "check", "wait", "upcall"}
         /\ spc' \in {"idle", "taskStop", "release"} /\ (spc' # "idle" => m_wantExit')
         /\ m_cond' \in BOOLEAN /\ m_htbtTimeSpan' \in HtbtSpans \cup {DefaultSpan}
         /\ tick' \in 0..MaxTick /\ nextId' \in 1..(MaxTimers + 1)
         /\ timers' \subseteq m_timers \cup timers
         /\ stopped' \subseteq m_timers \cup stopped
         /\ m_wantExit \/ ~m_task => m_timers' \subseteq m_timers
         /\ spc' # "idle" \/ ~m_task' => spc # "idle" \/ ~m_task \/ m_timers' = {}
<1> USE BoundsAssumption DEF HtbtInv, TypeOK, Emptied, store, htbt, life, worker, stop
<1>1. CASE WorkerSleep \/ WorkerWake \/ WorkerExit \/ UNCHANGED vars
  BY <1>1 DEF WorkerSleep, WorkerWake, WorkerExit, vars
<1>2. CASE WorkerCollect
  <2>1. timers' \subseteq m_timers /\ wpc' = "upcall" /\ ~m_wantExit /\ wpc = "check"
    BY <1>2 DEF WorkerCollect
  <2>2. UNCHANGED <<m_htbtTimeSpan, m_task, m_wantExit, m_mmTimer, m_cond, spc, stopped,
                    tick, nextId>>
    BY <1>2 DEF WorkerCollect
  <2>3. ~m_task => m_timers' = {}
    <3>1. ~m_task => m_timers = {}
      OBVIOUS
    <3> QED
      BY <1>2, <3>1 DEF WorkerCollect
  <2> QED
    BY <2>1, <2>2, <2>3
<1>3. CASE WorkerUpcall
  BY <1>3 DEF WorkerUpcall
<1>4. CASE (\E mm \in BOOLEAN : Start(mm)) \/ Stop \/ StopJoined \/ StopReset
  BY <1>4 DEF Start, Stop, StopJoined, StopReset
<1>5. CASE \/ \E o \in Objects, span \in Spans, r \in BOOLEAN : ScheduleTimer(o, span, r)
           \/ \E o \in Objects, rand \in 0..(m_htbtTimeSpan \div Steps - 1) :
                ScheduleHeartbeatTimer(o, rand)
  <2>1. /\ UNCHANGED <<m_htbtTimeSpan, m_task, m_wantExit, m_mmTimer, wpc, timers, spc,
                       stopped, tick>>
        /\ m_cond' = TRUE /\ nextId <= MaxTimers /\ nextId' = nextId + 1
        /\ m_task /\ ~m_wantExit
    BY <1>5 DEF ScheduleTimer, ScheduleHeartbeatTimer, Insert
  <2> QED
    BY <2>1
<1>6. CASE \E id \in Ids : CancelTimer(id)
  BY <1>6 DEF CancelTimer
<1>7. CASE \E span \in HtbtSpans \cup {DefaultSpan} :
             \E rand \in [Ids -> 0..(span \div Steps - 1)] :
               UpdateHeartbeatTimers(span, rand)
  <2>1. /\ UNCHANGED <<m_task, m_wantExit, m_mmTimer, m_cond, wpc, timers, spc,
                       stopped, tick, nextId>>
        /\ m_task /\ ~m_wantExit /\ m_htbtTimeSpan' \in HtbtSpans \cup {DefaultSpan}
    BY <1>7 DEF UpdateHeartbeatTimers
  <2> QED
    BY <2>1
<1>8. CASE Tick \/ \E o \in Objects : OwnerRelease(o)
  BY <1>8 DEF Tick, OwnerRelease
<1> HIDE DEF HtbtInv
<1> QED
  BY <1>1, <1>2, <1>3, <1>4, <1>5, <1>6, <1>7, <1>8 DEF Next, Worker

LEMMA KeptIsEnough ==
  ASSUME HtbtInv, IInv', [Next]_vars, Kept
  PROVE  HtbtInv'
<1>1. /\ m_task' \in BOOLEAN /\ m_wantExit' \in BOOLEAN /\ m_mmTimer' \in BOOLEAN
      /\ wpc' \in {"off", "check", "wait", "upcall"}
      /\ spc' \in {"idle", "taskStop", "release"}
      /\ m_cond' \in BOOLEAN /\ m_htbtTimeSpan' \in HtbtSpans \cup {DefaultSpan}
      /\ tick' \in 0..MaxTick /\ nextId' \in 1..(MaxTimers + 1)
  BY Frame
<1>2. TypeOK'
  <2>1. refs' \in [Objects -> Nat] /\ owned' \subseteq Objects
    BY DEF IInv, NodesOK
  <2>2. /\ DOMAIN m_timerId2ExpireTick' \subseteq Ids
        /\ \A id \in DOMAIN m_timerId2ExpireTick' : m_timerId2ExpireTick'[id] \in Nat
    BY IndexType DEF IInv, IndexAgrees, Kept
  <2>3. timers' \subseteq Nodes /\ stopped' \subseteq Nodes
    BY Frame DEF HtbtInv, TypeOK
  <2> QED
    BY <1>1, <2>1, <2>2, <2>3 DEF TypeOK, Kept
<1>3. Emptied'
  BY Frame DEF HtbtInv, Emptied
<1> QED
  BY <1>2, <1>3 DEF HtbtInv, Kept

LEMMA AtFinite ==
  ASSUME NEW S, IsFiniteSet(S), NEW s
  PROVE  IsFiniteSet(At(s, S)) /\ Cardinality(At(s, S)) \in Nat
<1>1. At(s, S) \in SUBSET S
  BY DEF At
<1> QED
  BY <1>1, FS_Subset, FS_CardinalityType

LEMMA NothingCovered ==
  ASSUME NEW counts \in [Slots -> Nat]
  PROVE  Covered({}, counts)
<1>1. \A s : At(s, {}) = {}
  BY DEF At
<1> QED
  BY <1>1, FS_EmptySet DEF Covered

LEMMA ScheduleKeeps ==
  ASSUME IInv, HtbtInv, NEW o \in Objects, NEW span \in Spans, NEW r \in BOOLEAN,
         ScheduleTimer(o, span, r)
  PROVE  Kept
<1>1. PICK n : n = Node(nextId, tick + span, o, span, r, FALSE, 0)
  OBVIOUS
<1>2. /\ m_timers' = m_timers \cup {n} /\ nextId <= MaxTimers
      /\ UNCHANGED <<m_htbtCounts, m_htbtTimeSpan>>
  BY <1>1 DEF ScheduleTimer, Insert, htbt
<1>3. n \in Nodes /\ ~n.heartbeat
  <2>1. nextId \in Ids /\ tick + span \in Nat /\ span \in Nat
    BY <1>2, SpansAssumption, BoundsAssumption DEF HtbtInv, TypeOK, Ids
  <2> QED
    BY <1>1, <2>1 DEF Node, Nodes
<1>4. \A s : At(s, m_timers') = At(s, m_timers)
  BY <1>2, <1>3 DEF At
<1> QED
  BY <1>2, <1>3, <1>4 DEF HtbtInv, TypeOK, Kept, Covered, InSlot

LEMMA HeartbeatKeeps ==
  ASSUME IInv, HtbtInv, NEW o \in Objects,
         NEW rand \in 0..(m_htbtTimeSpan \div Steps - 1), ScheduleHeartbeatTimer(o, rand)
  PROVE  Kept
<1>1. PICK span \in HtbtSpans \cup {DefaultSpan} : span = m_htbtTimeSpan
  BY DEF HtbtInv, TypeOK
<1>2. /\ span \in Nat \ {0} /\ span \div Steps \in Nat \ {0}
      /\ rand \in Nat /\ rand < span \div Steps
  BY <1>1, SpanFacts
<1>3. PICK k \in Slots : k = LeastSlot
  BY LeastSlotIsSlot DEF HtbtInv, TypeOK
<1>4. k \in Nat /\ k % Steps = k
  <2>1. k \in Nat /\ k < Steps
    BY StepsAssumption DEF Slots
  <2> QED
    BY <2>1, StepsAssumption
<1>5. PICK q \in Nat : AlignUp(tick, span) = q * span
  <2>1. tick \in Nat
    BY DEF HtbtInv, TypeOK
  <2> QED
    BY <1>2, <2>1, Aligned
<1>6. PICK e : e = q * span + (span \div Steps) * k + rand
  OBVIOUS
<1>7. e \in Nat /\ (e % span) \div (span \div Steps) = k % Steps
  BY <1>2, <1>4, <1>6, SlotOf
<1>8. PICK n : n = Node(nextId, e, o, span, TRUE, TRUE, k)
  OBVIOUS
<1>9. /\ m_timers' = m_timers \cup {n} /\ nextId <= MaxTimers
      /\ m_htbtCounts' = [m_htbtCounts EXCEPT ![k] = m_htbtCounts[k] + 1]
      /\ m_htbtTimeSpan' = span
  BY <1>1, <1>3, <1>5, <1>6, <1>8 DEF ScheduleHeartbeatTimer, Insert
<1>10. /\ n.timerId = nextId /\ n.expireTick = e /\ n.timeSpan = span /\ n.heartbeat
       /\ n.htbtIndex = k
  BY <1>8 DEF Node
<1>11. n \in Nodes
  <2>1. nextId \in Ids
    BY <1>9, BoundsAssumption DEF HtbtInv, TypeOK, Ids
  <2> QED
    BY <1>2, <1>4, <1>7, <1>8, <2>1 DEF Node, Nodes
<1>12. InSlot(n, span)
  BY <1>7, <1>10 DEF InSlot, Slot
<1>13. Covered(m_timers', m_htbtCounts')
  <2> SUFFICES ASSUME NEW s \in Slots
               PROVE  Cardinality(At(s, m_timers')) <= m_htbtCounts'[s]
    BY DEF Covered
  <2>1. Cardinality(At(s, m_timers)) <= m_htbtCounts[s] /\ m_htbtCounts[s] \in Nat
    BY DEF HtbtInv, TypeOK, Covered
  <2>2. IsFiniteSet(At(s, m_timers)) /\ Cardinality(At(s, m_timers)) \in Nat
    BY AtFinite DEF IInv, NodesOK
  <2>3. CASE s = k
    <3>1. At(s, m_timers') = At(s, m_timers) \cup {n}
      BY <1>9, <1>10, <2>3 DEF At
    <3>2. Cardinality(At(s, m_timers) \cup {n}) <= Cardinality(At(s, m_timers)) + 1
      <4>1. Cardinality(At(s, m_timers) \cup {n}) =
              IF n \in At(s, m_timers) THEN Cardinality(At(s, m_timers))
              ELSE Cardinality(At(s, m_timers)) + 1
        BY <2>2, FS_AddElement
      <4> QED
        BY <2>2, <4>1
    <3>3. m_htbtCounts'[s] = m_htbtCounts[s] + 1
      BY <1>9, <2>3 DEF HtbtInv, TypeOK
    <3>4. Cardinality(At(s, m_timers) \cup {n}) \in Nat
      BY <2>2, FS_AddElement, FS_CardinalityType
    <3> QED
      BY <2>1, <2>2, <3>1, <3>2, <3>3, <3>4
  <2>4. CASE s # k
    <3>1. At(s, m_timers') = At(s, m_timers)
      BY <1>9, <1>10, <2>4 DEF At
    <3>2. m_htbtCounts'[s] = m_htbtCounts[s]
      BY <1>9, <2>4 DEF HtbtInv, TypeOK
    <3> QED
      BY <2>1, <3>1, <3>2
  <2> QED
    BY <2>3, <2>4
<1>14. m_htbtCounts' \in [Slots -> Nat]
  BY <1>9 DEF HtbtInv, TypeOK
<1> QED
  BY <1>1, <1>9, <1>11, <1>12, <1>13, <1>14 DEF HtbtInv, TypeOK, Kept

LEMMA CancelKeeps ==
  ASSUME IInv, HtbtInv, NEW id \in Ids, CancelTimer(id)
  PROVE  Kept
<1>1. PICK n \in m_timers :
        /\ m_timers' = m_timers \ {n}
        /\ m_htbtCounts' = IF n.heartbeat /\ n.htbtIndex \in Slots
                             THEN [m_htbtCounts EXCEPT ![n.htbtIndex] =
                                     m_htbtCounts[n.htbtIndex] - 1]
                             ELSE m_htbtCounts
  BY DEF CancelTimer
<1>2. m_htbtTimeSpan' = m_htbtTimeSpan
  BY DEF CancelTimer
<1>3. \A s \in Slots :
        /\ Cardinality(At(s, m_timers)) <= m_htbtCounts[s] /\ m_htbtCounts[s] \in Nat
        /\ IsFiniteSet(At(s, m_timers)) /\ Cardinality(At(s, m_timers)) \in Nat
  BY AtFinite DEF IInv, NodesOK, HtbtInv, TypeOK, Covered
<1>4. ASSUME NEW s \in Slots, n.heartbeat, n.htbtIndex = s
      PROVE  /\ m_htbtCounts[s] - 1 \in Nat
             /\ Cardinality(At(s, m_timers')) <= m_htbtCounts[s] - 1
  <2>1. n \in At(s, m_timers) /\ At(s, m_timers') = At(s, m_timers) \ {n}
    BY <1>1, <1>4 DEF At
  <2>2. Cardinality(At(s, m_timers)) # 0
    BY <1>3, <2>1, FS_EmptySet
  <2>3. Cardinality(At(s, m_timers) \ {n}) = Cardinality(At(s, m_timers)) - 1
    BY <1>3, <2>1, FS_RemoveElement
  <2>4. /\ Cardinality(At(s, m_timers)) \in Nat /\ m_htbtCounts[s] \in Nat
        /\ Cardinality(At(s, m_timers)) <= m_htbtCounts[s]
    BY <1>3
  <2> QED
    BY <2>1, <2>2, <2>3, <2>4
<1>5. ASSUME NEW s \in Slots, ~(n.heartbeat /\ n.htbtIndex = s)
      PROVE  At(s, m_timers') = At(s, m_timers)
  BY <1>1, <1>5 DEF At
<1>6. m_htbtCounts' \in [Slots -> Nat]
  <2>1. CASE n.heartbeat /\ n.htbtIndex \in Slots
    <3>1. m_htbtCounts[n.htbtIndex] - 1 \in Nat
      BY <1>4, <2>1
    <3> QED
      BY <1>1, <2>1, <3>1 DEF HtbtInv, TypeOK
  <2>2. CASE ~(n.heartbeat /\ n.htbtIndex \in Slots)
    BY <1>1, <2>2 DEF HtbtInv, TypeOK
  <2> QED
    BY <2>1, <2>2
<1>7. Covered(m_timers', m_htbtCounts')
  <2> SUFFICES ASSUME NEW s \in Slots
               PROVE  Cardinality(At(s, m_timers')) <= m_htbtCounts'[s]
    BY DEF Covered
  <2>1. CASE n.heartbeat /\ n.htbtIndex = s
    <3>1. m_htbtCounts'[s] = m_htbtCounts[s] - 1
      BY <1>1, <2>1 DEF HtbtInv, TypeOK
    <3> QED
      BY <1>4, <2>1, <3>1
  <2>2. CASE ~(n.heartbeat /\ n.htbtIndex = s)
    <3>1. m_htbtCounts'[s] = m_htbtCounts[s]
      BY <1>1, <2>2 DEF HtbtInv, TypeOK
    <3> QED
      BY <1>3, <1>5, <2>2, <3>1
  <2> QED
    BY <2>1, <2>2
<1> QED
  BY <1>1, <1>2, <1>6, <1>7 DEF HtbtInv, TypeOK, Kept

\* A heartbeat that is re-armed stays in its slot.
LEMMA RearmedStays ==
  ASSUME HtbtInv, NEW n \in m_timers
  PROVE  /\ Rearmed(n) \in Nodes /\ Rearmed(n).htbtIndex = n.htbtIndex
         /\ Rearmed(n).heartbeat = n.heartbeat
         /\ InSlot(Rearmed(n), m_htbtTimeSpan)
<1>1. n \in Nodes /\ InSlot(n, m_htbtTimeSpan) /\ tick \in Nat
  BY DEF HtbtInv, TypeOK
<1>2. ASSUME NEW e \in Nat
      PROVE  LET m == [n EXCEPT !.expireTick = e]
             IN  /\ m \in Nodes /\ m.htbtIndex = n.htbtIndex /\ m.expireTick = e
                 /\ m.heartbeat = n.heartbeat /\ m.timeSpan = n.timeSpan
  BY <1>1 DEF Nodes
<1>3. CASE ~n.heartbeat
  <2>1. Rearmed(n) = [n EXCEPT !.expireTick = tick + n.timeSpan]
    BY <1>3 DEF Rearmed
  <2>2. tick + n.timeSpan \in Nat
    BY <1>1 DEF Nodes
  <2> QED
    BY <1>2, <1>3, <2>1, <2>2 DEF InSlot
<1>4. CASE n.heartbeat
  <2>1. PICK span \in HtbtSpans \cup {DefaultSpan} : span = m_htbtTimeSpan /\ n.timeSpan = span
    BY <1>1, <1>4 DEF HtbtInv, TypeOK, InSlot
  <2>2. span \in Nat \ {0} /\ n.expireTick \in Nat
    BY <1>1, <2>1, SpanFacts DEF Nodes
  <2>3. PICK q \in Nat : AlignUp(tick, span) = q * span
    BY <1>1, <2>2, Aligned
  <2>4. PICK r \in Nat : r = n.expireTick % span /\ r < span
    BY <2>2, DivMod
  <2>5. PICK p \in Nat : Rearmed(n) = [n EXCEPT !.expireTick = p * span + r]
    <3>1. Rearmed(n) = [n EXCEPT !.expireTick = IF q * span + r = tick
                                                  THEN q * span + r + span
                                                  ELSE q * span + r]
      BY <1>4, <2>1, <2>3, <2>4 DEF Rearmed
    <3>2. q * span + r + span = (q + 1) * span + r /\ q + 1 \in Nat
      BY <2>2
    <3> QED
      BY <3>1, <3>2
  <2>6. PICK e \in Nat : e = p * span + r
    BY <2>2
  <2>7. e % span = r
    BY <2>2, <2>4, <2>6, Quotient
  <2>8. Rearmed(n) = [n EXCEPT !.expireTick = e]
    BY <2>5, <2>6
  <2>9. /\ Rearmed(n) \in Nodes /\ Rearmed(n).htbtIndex = n.htbtIndex
        /\ Rearmed(n).expireTick = e
        /\ Rearmed(n).heartbeat = n.heartbeat /\ Rearmed(n).timeSpan = n.timeSpan
    BY <1>2, <2>8
  <2>10. InSlot(Rearmed(n), m_htbtTimeSpan)
    BY <1>1, <1>4, <2>1, <2>4, <2>7, <2>9 DEF InSlot, Slot
  <2> QED
    BY <2>9, <2>10
<1> QED
  BY <1>3, <1>4

LEMMA CollectKeeps ==
  ASSUME IInv, HtbtInv, WorkerCollect
  PROVE  Kept
<1> DEFINE due   == {n \in m_timers : n.expireTick <= tick}
           again == {n \in due : n.recurring \/ n.heartbeat}
           g(n)  == IF n \in again THEN Rearmed(n) ELSE n
<1>1. /\ m_timers' = (m_timers \ due) \cup {Rearmed(n) : n \in again}
      /\ UNCHANGED <<m_htbtCounts, m_htbtTimeSpan>>
  BY DEF WorkerCollect, htbt
<1>2. \A n \in m_timers :
        /\ g(n) \in Nodes /\ g(n).htbtIndex = n.htbtIndex
        /\ g(n).heartbeat = n.heartbeat /\ InSlot(g(n), m_htbtTimeSpan)
  BY RearmedStays DEF HtbtInv, TypeOK
<1>3. \A m \in m_timers' : \E n \in m_timers : m = g(n)
  BY <1>1
<1> HIDE DEF g, again, due
<1>4. m_timers' \subseteq Nodes /\ \A n \in m_timers' : InSlot(n, m_htbtTimeSpan')
  BY <1>1, <1>2, <1>3
<1>5. Covered(m_timers', m_htbtCounts')
  <2> SUFFICES ASSUME NEW s \in Slots
               PROVE  Cardinality(At(s, m_timers')) <= m_htbtCounts[s]
    BY <1>1 DEF Covered
  <2> DEFINE image == {g(n) : n \in At(s, m_timers)}
  <2>1. /\ Cardinality(At(s, m_timers)) <= m_htbtCounts[s] /\ m_htbtCounts[s] \in Nat
        /\ IsFiniteSet(At(s, m_timers)) /\ Cardinality(At(s, m_timers)) \in Nat
    BY AtFinite DEF IInv, NodesOK, HtbtInv, TypeOK, Covered
  <2>2. At(s, m_timers') \subseteq image
    BY <1>2, <1>3 DEF At
  <2>3. IsFiniteSet(image) /\ Cardinality(image) <= Cardinality(At(s, m_timers))
    <3>1. PICK h : h = [n \in At(s, m_timers) |-> g(n)]
      OBVIOUS
    <3>2. h \in Surjection(At(s, m_timers), image)
      BY <3>1 DEF Surjection
    <3> HIDE DEF image
    <3> QED
      BY <2>1, <3>2, FS_Surjection
  <2>4. Cardinality(At(s, m_timers')) <= Cardinality(image) /\ IsFiniteSet(At(s, m_timers'))
    <3> HIDE DEF image
    <3> QED
      BY <2>2, <2>3, FS_Subset
  <2>5. Cardinality(image) \in Nat /\ Cardinality(At(s, m_timers')) \in Nat
    BY <2>3, <2>4, FS_CardinalityType
  <2> QED
    BY <2>1, <2>3, <2>4, <2>5
<1> QED
  BY <1>1, <1>4, <1>5 DEF Kept, HtbtInv, TypeOK

\* Before orders the timers: n is preceded by fewer than all of them, and by as
\* many as no other.
Preceding(n, S) == {p \in S : Before(p, n)}

LEMMA Ranks ==
  ASSUME NEW S \in SUBSET Nodes, IsFiniteSet(S),
         \A n, p \in S : n.timerId = p.timerId => n = p
  PROVE  /\ \A n \in S : Cardinality(Preceding(n, S)) \in 0..(Cardinality(S) - 1)
         /\ \A n, p \in S :
              Cardinality(Preceding(n, S)) = Cardinality(Preceding(p, S)) => n = p
<1>1. \A n \in S : n.expireTick \in Nat /\ n.timerId \in Nat
  BY DEF Nodes, Ids
<1>2. \A n \in S : /\ IsFiniteSet(Preceding(n, S))
                   /\ Cardinality(Preceding(n, S)) \in Nat
  <2> SUFFICES ASSUME NEW n \in S
               PROVE  /\ IsFiniteSet(Preceding(n, S))
                      /\ Cardinality(Preceding(n, S)) \in Nat
    OBVIOUS
  <2>1. Preceding(n, S) \in SUBSET S
    BY DEF Preceding
  <2> QED
    BY <2>1, FS_Subset, FS_CardinalityType
<1>3. Cardinality(S) \in Nat
  BY FS_CardinalityType
<1>4. ASSUME NEW n \in S
      PROVE  Cardinality(Preceding(n, S)) < Cardinality(S)
  <2>1. ~Before(n, n)
    BY <1>1 DEF Before
  <2>2. Preceding(n, S) \in SUBSET S /\ Preceding(n, S) # S
    BY <2>1 DEF Preceding
  <2>3. /\ Cardinality(Preceding(n, S)) <= Cardinality(S)
        /\ Cardinality(Preceding(n, S)) # Cardinality(S)
    BY <2>2, FS_Subset
  <2> QED
    BY <1>2, <1>3, <2>3
<1>5. ASSUME NEW n \in S, NEW p \in S, Before(p, n)
      PROVE  Cardinality(Preceding(p, S)) # Cardinality(Preceding(n, S))
  <2>1. ~Before(p, p)
    BY <1>1 DEF Before
  <2>2. \A x \in S : Before(x, p) => Before(x, n)
    BY <1>1, <1>5 DEF Before
  <2>3. Preceding(p, S) \in SUBSET Preceding(n, S) /\ Preceding(p, S) # Preceding(n, S)
    BY <1>5, <2>1, <2>2 DEF Preceding
  <2> QED
    BY <1>2, <2>3, FS_Subset
<1>6. ASSUME NEW n \in S, NEW p \in S, n # p
      PROVE  Before(n, p) \/ Before(p, n)
  <2>1. n.timerId # p.timerId
    BY <1>6
  <2> QED
    BY <1>1, <2>1 DEF Before
<1> QED
  <2>1. \A n \in S : Cardinality(Preceding(n, S)) \in 0..(Cardinality(S) - 1)
    BY <1>2, <1>3, <1>4
  <2>2. \A n, p \in S :
          Cardinality(Preceding(n, S)) = Cardinality(Preceding(p, S)) => n = p
    BY <1>5, <1>6
  <2> QED
    BY <2>1, <2>2

LEMMA AtMostOne ==
  ASSUME NEW S, \A x, y \in S : x = y
  PROVE  Cardinality(S) \in Nat /\ Cardinality(S) <= 1
<1>1. CASE S = {}
  BY <1>1, FS_EmptySet
<1>2. CASE S # {}
  <2>1. PICK x : S = {x}
    BY <1>2
  <2> QED
    BY <2>1, FS_Singleton
<1> QED
  BY <1>1, <1>2

\* UpdateHeartbeatTimers gives every slot at most one of the indexes 0..c-1 and
\* counts it.
LEMMA UpdateKeeps ==
  ASSUME IInv, HtbtInv, NEW span \in HtbtSpans \cup {DefaultSpan},
         NEW rand \in [Ids -> 0..(span \div Steps - 1)], UpdateHeartbeatTimers(span, rand)
  PROVE  Kept
<1> DEFINE htbts == {n \in m_timers : n.heartbeat}
           rank(n) == Cardinality(Preceding(n, htbts))
           e(n) == AlignUp(tick, span) + (span \div Steps) * rank(n) + rand[n.timerId]
           moved(n) == [n EXCEPT !.expireTick = e(n), !.timeSpan = span,
                                 !.htbtIndex = rank(n)]
           c == Cardinality(htbts)
           extra(s) == Cardinality({k \in Steps..(c - 1) : k % Steps = s})
<1>1. /\ m_timers' = (m_timers \ htbts) \cup {moved(n) : n \in htbts}
      /\ m_htbtCounts' = [s \in Slots |-> IF s < c THEN 1 + extra(s) ELSE m_htbtCounts[s]]
      /\ m_htbtTimeSpan' = span
  BY DEF UpdateHeartbeatTimers, Preceding
<1>2. /\ htbts \in SUBSET Nodes /\ htbts \in SUBSET m_timers
      /\ IsFiniteSet(htbts) /\ c \in Nat
      /\ \A n, p \in htbts : n.timerId = p.timerId => n = p
  <2>1. htbts \in SUBSET m_timers /\ m_timers \subseteq Nodes /\ IsFiniteSet(m_timers)
    BY DEF HtbtInv, TypeOK, IInv, NodesOK
  <2>2. IsFiniteSet(htbts) /\ c \in Nat
    BY <2>1, FS_Subset, FS_CardinalityType
  <2>3. \A n, p \in htbts : n.timerId = p.timerId => n = p
    BY DEF IInv, IndexAgrees
  <2> QED
    BY <2>1, <2>2, <2>3
<1>3. /\ \A n \in htbts : rank(n) \in Nat /\ rank(n) < c
      /\ \A n, p \in htbts : rank(n) = rank(p) => n = p
  <2>1. PICK S : S = htbts
    OBVIOUS
  <2>2. /\ \A n \in S : Cardinality(Preceding(n, S)) \in 0..(Cardinality(S) - 1)
        /\ \A n, p \in S :
             Cardinality(Preceding(n, S)) = Cardinality(Preceding(p, S)) => n = p
    BY <1>2, <2>1, Ranks
  <2>3. Cardinality(S) \in Nat
    BY <1>2, <2>1
  <2>4. \A n \in S : /\ Cardinality(Preceding(n, S)) \in Nat
                     /\ Cardinality(Preceding(n, S)) < Cardinality(S)
    BY <2>2, <2>3
  <2> QED
    BY <2>1, <2>2, <2>4, Zenon
<1>4. ASSUME NEW n \in htbts
      PROVE  /\ moved(n) \in Nodes /\ moved(n).htbtIndex = rank(n)
             /\ InSlot(moved(n), span)
  <2>1. n \in Nodes /\ IsNode(n) /\ n.heartbeat = TRUE
    BY <1>2 DEF IInv, NodesOK, Nodes
  <2>2. PICK q \in Nat : AlignUp(tick, span) = q * span
    <3>1. tick \in Nat
      BY DEF HtbtInv, TypeOK
    <3> QED
      BY <3>1, Aligned, SpanFacts
  <2>3. PICK k \in Nat : k = rank(n)
    BY <1>3
  <2>4. PICK r \in Nat : r = rand[n.timerId] /\ r < span \div Steps
    <3>1. n.timerId \in Ids
      BY <2>1 DEF Nodes
    <3> QED
      BY <3>1, SpanFacts
  <2>5. PICK x : x = q * span + (span \div Steps) * k + r
    OBVIOUS
  <2>6. x \in Nat /\ (x % span) \div (span \div Steps) = k % Steps
    BY <2>4, <2>5, SlotOf
  <2>7. moved(n) = MovedTo(n, x, span, k)
    BY <2>2, <2>3, <2>4, <2>5 DEF MovedTo
  <2> HIDE DEF moved, rank
  <2>8. moved(n) = Node(n.timerId, x, n.onTimer, span, n.recurring, n.heartbeat, k)
    BY <2>1, <2>7, Moved
  <2>9. moved(n) \in Nodes
    <3>1. span \in Nat
      BY SpanFacts
    <3>2. /\ n.timerId \in Ids /\ n.onTimer \in Objects
          /\ n.recurring \in BOOLEAN /\ n.heartbeat \in BOOLEAN
      BY <2>1 DEF Nodes
    <3> QED
      BY <2>6, <2>8, <3>1, <3>2 DEF Node, Nodes
  <2>10. /\ moved(n).expireTick = x /\ moved(n).timeSpan = span
         /\ moved(n).htbtIndex = k
    BY <2>8 DEF Node
  <2> QED
    BY <2>3, <2>6, <2>9, <2>10 DEF InSlot, Slot
<1> HIDE DEF moved, rank
<1>5. \A n \in m_timers \ htbts : n \in Nodes /\ ~n.heartbeat
  BY DEF HtbtInv, TypeOK
<1>6. m_timers' \subseteq Nodes /\ \A n \in m_timers' : InSlot(n, m_htbtTimeSpan')
  BY <1>1, <1>4, <1>5 DEF InSlot
<1>7. \A s \in Slots : extra(s) \in Nat
  <2> SUFFICES ASSUME NEW s \in Slots PROVE extra(s) \in Nat
    OBVIOUS
  <2>1. {k \in Steps..(c - 1) : k % Steps = s} \in SUBSET (Steps..(c - 1))
    OBVIOUS
  <2>2. IsFiniteSet(Steps..(c - 1))
    BY <1>2, FS_Interval, StepsAssumption
  <2> HIDE DEF c
  <2> QED
    BY <2>1, <2>2, FS_Subset, FS_CardinalityType
<1> HIDE DEF extra, c
<1>8. m_htbtCounts' \in [Slots -> Nat]
  BY <1>1, <1>7 DEF HtbtInv, TypeOK
<1>9. \A s : \A m \in At(s, m_timers') : \E n \in htbts : m = moved(n) /\ rank(n) = s
  BY <1>1, <1>4, <1>5 DEF At
<1>10. Covered(m_timers', m_htbtCounts')
  <2> SUFFICES ASSUME NEW s \in Slots
               PROVE  Cardinality(At(s, m_timers')) <= m_htbtCounts'[s]
    BY DEF Covered
  <2>1. CASE s < c
    <3>1. \A x, y \in At(s, m_timers') : x = y
      BY <1>3, <1>9
    <3>2. Cardinality(At(s, m_timers')) \in Nat /\ Cardinality(At(s, m_timers')) <= 1
      BY <3>1, AtMostOne
    <3>3. m_htbtCounts'[s] = 1 + extra(s) /\ extra(s) \in Nat
      BY <1>1, <1>7, <2>1
    <3> QED
      BY <3>2, <3>3
  <2>2. CASE ~(s < c)
    <3>1. At(s, m_timers') = {}
      BY <1>3, <1>9, <2>2
    <3>2. m_htbtCounts'[s] \in Nat
      BY <1>8
    <3> QED
      BY <3>1, <3>2, FS_EmptySet
  <2> QED
    BY <2>1, <2>2
<1> QED
  BY <1>6, <1>8, <1>10 DEF Kept

LEMMA StoppingKeeps ==
  ASSUME HtbtInv, (\E mm \in BOOLEAN : Start(mm)) \/ Stop \/ StopReset
  PROVE  Kept
<1>1. m_timers' = {}
  BY DEF Start, Stop, StopReset, store, HtbtInv, Emptied
<1>2. m_htbtCounts' \in [Slots -> Nat]
  BY DEF Start, Stop, StopReset, htbt, HtbtInv, TypeOK
<1>3. Covered({}, m_htbtCounts')
  BY <1>2, NothingCovered
<1> QED
  BY <1>1, <1>2, <1>3 DEF Kept

LEMMA OtherKeeps ==
  ASSUME HtbtInv, UNCHANGED <<m_timers, m_htbtCounts, m_htbtTimeSpan>>
  PROVE  Kept
BY DEF Kept, HtbtInv, TypeOK

LEMMA InitHtbtInv ==
  ASSUME Init
  PROVE  HtbtInv
<1>1. TypeOK
  <2>1. tick \in 0..MaxTick /\ nextId \in 1..(MaxTimers + 1)
    BY BoundsAssumption DEF Init
  <2>2. m_htbtCounts \in [Slots -> Nat] /\ refs \in [Objects -> Nat]
    BY DEF Init
  <2> QED
    BY <2>1, <2>2 DEF Init, TypeOK
<1>2. Covered(m_timers, m_htbtCounts)
  BY <1>1, NothingCovered DEF Init, TypeOK
<1> QED
  BY <1>1, <1>2 DEF Init, HtbtInv, Emptied

\* HtbtInv is an invariant, given IInv after the step.
THEOREM HtbtInvariance == Spec => [](IInv /\ HtbtInv)
<1>1. IInv /\ HtbtInv /\ IInv' /\ [Next]_vars => HtbtInv'
  <2> SUFFICES ASSUME IInv, HtbtInv, IInv', [Next]_vars PROVE Kept
    BY KeptIsEnough
  <2>1. CASE \/ WorkerSleep \/ WorkerWake \/ WorkerExit \/ WorkerUpcall \/ StopJoined
             \/ Tick \/ (\E o \in Objects : OwnerRelease(o)) \/ UNCHANGED vars
    <3>1. UNCHANGED <<m_timers, m_htbtCounts, m_htbtTimeSpan>>
      BY <2>1 DEF WorkerSleep, WorkerWake, WorkerExit, WorkerUpcall, StopJoined, Tick,
                  OwnerRelease, vars, store, htbt
    <3> QED
      BY <3>1, OtherKeeps
  <2>2. CASE WorkerCollect
    BY <2>2, CollectKeeps
  <2>3. CASE (\E mm \in BOOLEAN : Start(mm)) \/ Stop \/ StopReset
    BY <2>3, StoppingKeeps
  <2>4. CASE \E o \in Objects, span \in Spans, r \in BOOLEAN : ScheduleTimer(o, span, r)
    BY <2>4, ScheduleKeeps
  <2>5. CASE \E o \in Objects, rand \in 0..(m_htbtTimeSpan \div Steps - 1) :
               ScheduleHeartbeatTimer(o, rand)
    BY <2>5, HeartbeatKeeps
  <2>6. CASE \E id \in Ids : CancelTimer(id)
    BY <2>6, CancelKeeps
  <2>7. CASE \E span \in HtbtSpans \cup {DefaultSpan} :
               \E rand \in [Ids -> 0..(span \div Steps - 1)] :
                 UpdateHeartbeatTimers(span, rand)
    BY <2>7, UpdateKeeps
  <2> QED
    BY <2>1, <2>2, <2>3, <2>4, <2>5, <2>6, <2>7 DEF Next, Worker
<1>2. Init => HtbtInv
  BY InitHtbtInv
<1> QED
  BY <1>1, <1>2, Invariance, PTL DEF Spec

\* Every variable keeps its type; the unsigned counters and the reference
\* counts never go below zero.
THEOREM TypeCorrect == Spec => []TypeOK
<1>1. HtbtInv => TypeOK
  BY DEF HtbtInv
<1> QED
  BY <1>1, HtbtInvariance, PTL

\* A heartbeat fires in the slot its index names, and m_htbtCounts counts every
\* heartbeat of a slot, for any number of slots, timers and intervals.
THEOREM CountsCorrect == Spec => []CountsCover
<1>1. HtbtInv => CountsCover
  <2> SUFFICES ASSUME HtbtInv PROVE CountsCover
    OBVIOUS
  <2>1. \A s : {n \in {m \in m_timers : m.heartbeat} : n.htbtIndex = s} = At(s, m_timers)
    BY DEF At
  <2>2. \A n \in m_timers : InSlot(n, m_htbtTimeSpan)
    BY DEF HtbtInv
  <2>3. \A s \in Slots : Cardinality(At(s, m_timers)) <= m_htbtCounts[s]
    BY DEF HtbtInv, Covered
  <2> QED
    BY <2>1, <2>2, <2>3 DEF CountsCover, InSlot, Slot
<1> QED
  BY <1>1, HtbtInvariance, PTL
=============================================================================
