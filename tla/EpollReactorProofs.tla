------------------------- MODULE EpollReactorProofs -------------------------
(***************************************************************************)
(* RegisteredOwnsSocket and RefsExact of module EpollReactor for any       *)
(* number of handlers, sockets, masks and events.                          *)
(***************************************************************************)
EXTENDS EpollReactor, FiniteSetTheorems, TLAPS

Calls(h, H)   == {u \in H : u[2] = h}
Registered(h) == \E s \in Sockets : handler[s] = h
Flag(b)       == IF b THEN 1 ELSE 0

\* What owns a socket is alive, owns it alone, and is not the pipe's reactor.
SocketOwners ==
  /\ \A g, h \in Handlers : sock[g] # None /\ sock[g] = sock[h] => g = h
  /\ \A h \in Handlers : sock[h] # None => sock[h] # m_notifyPipe /\ refs[h] > 0

\* Without a running reactor nothing is registered; upcalls are owed only while
\* the worker makes them.
Quiet ==
  /\ ~m_epfd => m_notifyPipe = None /\ \A s \in Sockets : handler[s] = None
  /\ wpc # "upcall" => handlers = {}
  /\ wpc # "off" => m_epfd
  /\ IsFiniteSet(handlers)

\* RefsExact, with the references of the manager counted as one or none.
Counts ==
  \A h \in Everyone :
    refs[h] = Flag(h \in owned \cup {Reactor}) + Flag(Registered(h))
              + Cardinality(Calls(h, handlers))

IInv == TypeOK /\ RegisteredOwnsSocket /\ SocketOwners /\ Quiet /\ Counts
-----------------------------------------------------------------------------
(***************************************************************************)
(* Counting.                                                               *)
(***************************************************************************)

\* A handler is registered for one socket at most, so RefsExact is Counts.
LEMMA OneRegistration ==
  ASSUME TypeOK, RegisteredOwnsSocket, NEW h \in Everyone
  PROVE  Cardinality({s \in Sockets : handler[s] = h}) = Flag(Registered(h))
<1>1. CASE Registered(h)
  <2>1. PICK s \in Sockets : handler[s] = h
    BY <1>1 DEF Registered
  <2>2. \A t \in Sockets : handler[t] = h => t = s
    BY <2>1 DEF RegisteredOwnsSocket, Everyone
  <2>3. {t \in Sockets : handler[t] = h} = {s}
    BY <2>1, <2>2
  <2> QED
    BY <1>1, <2>3, FS_Singleton DEF Flag
<1>2. CASE ~Registered(h)
  <2>1. {t \in Sockets : handler[t] = h} = {}
    BY <1>2 DEF Registered
  <2> QED
    BY <1>2, <2>1, FS_EmptySet DEF Flag
<1> QED
  BY <1>1, <1>2

LEMMA CallsFinite ==
  ASSUME NEW H, IsFiniteSet(H), NEW h
  PROVE  IsFiniteSet(Calls(h, H)) /\ Cardinality(Calls(h, H)) \in Nat
<1>1. Calls(h, H) \in SUBSET H
  BY DEF Calls
<1> QED
  BY <1>1, FS_Subset, FS_CardinalityType

LEMMA NoCalls ==
  ASSUME NEW h
  PROVE  Cardinality(Calls(h, {})) = 0
<1>1. Calls(h, {}) = {}
  BY DEF Calls
<1> QED
  BY <1>1, FS_EmptySet

\* One upcall is over.
LEMMA CallOver ==
  ASSUME NEW H, IsFiniteSet(H), NEW u \in H, NEW h
  PROVE  /\ IsFiniteSet(H \ {u})
         /\ Cardinality(Calls(h, H)) \in Nat
         /\ u[2] = h => /\ Cardinality(Calls(h, H)) > 0
                        /\ Cardinality(Calls(h, H \ {u})) = Cardinality(Calls(h, H)) - 1
         /\ u[2] # h => Calls(h, H \ {u}) = Calls(h, H)
<1>1. IsFiniteSet(Calls(h, H)) /\ Cardinality(Calls(h, H)) \in Nat
  BY CallsFinite
<1>2. IsFiniteSet(H \ {u})
  BY FS_RemoveElement
<1>3. ASSUME u[2] = h
      PROVE  /\ Cardinality(Calls(h, H)) > 0
             /\ Cardinality(Calls(h, H \ {u})) = Cardinality(Calls(h, H)) - 1
  <2>1. u \in Calls(h, H)
    BY <1>3 DEF Calls
  <2>2. Calls(h, H \ {u}) = Calls(h, H) \ {u}
    BY DEF Calls
  <2>3. Cardinality(Calls(h, H)) # 0
    BY <1>1, <2>1, FS_EmptySet
  <2>4. Cardinality(Calls(h, H) \ {u}) = Cardinality(Calls(h, H)) - 1
    BY <1>1, <2>1, FS_RemoveElement
  <2> QED
    BY <1>1, <2>2, <2>3, <2>4
<1>4. u[2] # h => Calls(h, H \ {u}) = Calls(h, H)
  BY DEF Calls
<1> QED
  BY <1>1, <1>2, <1>3, <1>4

\* The upcalls found for a set of events are finitely many.
LEMMA FoundFinite ==
  ASSUME TypeOK,
         NEW found \in SUBSET Sockets,
         \A s \in found : handler[s] # None
  PROVE  LET calls == UNION {{<<s, handler[s], b>> : b \in Due(events[s])} : s \in found}
         IN  calls \subseteq Upcalls /\ IsFiniteSet(calls)
<1> DEFINE calls == UNION {{<<s, handler[s], b>> : b \in Due(events[s])} : s \in found}
           All   == Bits \cup {"ERROR"}
           f     == [p \in Sockets \X All |-> <<p[1], handler[p[1]], p[2]>>]
           Image == {f[p] : p \in Sockets \X All}
<1>1. \A s \in Sockets : Due(events[s]) \subseteq All
  BY DEF Due, Bits
<1>2. calls \subseteq Upcalls
  <2> SUFFICES ASSUME NEW s \in found, NEW b \in Due(events[s])
               PROVE  <<s, handler[s], b>> \in Upcalls
    OBVIOUS
  <2> QED
    BY <1>1 DEF Upcalls, TypeOK
<1>3. IsFiniteSet(All)
  <2>1. IsFiniteSet({}) /\ IsFiniteSet({"WRITE"}) /\ IsFiniteSet({"WRITE", "READ"})
    <3>1. {"WRITE"} = {} \cup {"WRITE"} /\ {"WRITE", "READ"} = {"WRITE"} \cup {"READ"}
      OBVIOUS
    <3> QED
      BY <3>1, FS_EmptySet, FS_AddElement
  <2>2. IsFiniteSet({"WRITE", "READ"} \cup {"EXCEPTION"})
    BY <2>1, FS_AddElement
  <2>3. IsFiniteSet(({"WRITE", "READ"} \cup {"EXCEPTION"}) \cup {"ERROR"})
    BY <2>2, FS_AddElement
  <2>4. All = ({"WRITE", "READ"} \cup {"EXCEPTION"}) \cup {"ERROR"}
    BY DEF Bits
  <2> QED
    BY <2>3, <2>4
<1>4. IsFiniteSet(Sockets \X All)
  BY <1>3, FS_Product, NamesAssumption
<1>5. f \in Surjection(Sockets \X All, Image)
  BY DEF Surjection
<1>6. IsFiniteSet(Image)
  BY <1>4, <1>5, FS_Surjection
<1>7. calls \subseteq Image
  <2> HIDE DEF Image
  <2> SUFFICES ASSUME NEW s \in found, NEW b \in Due(events[s])
               PROVE  <<s, handler[s], b>> \in Image
    OBVIOUS
  <2>1. <<s, b>> \in Sockets \X All
    BY <1>1
  <2>2. f[<<s, b>>] = <<s, handler[s], b>>
    BY <2>1
  <2> QED
    BY <2>1, <2>2 DEF Image
<1>8. IsFiniteSet(calls)
  BY <1>6, <1>7, FS_Subset
<1> QED
  BY <1>2, <1>8
-----------------------------------------------------------------------------
(***************************************************************************)
(* Every step keeps IInv.                                                  *)
(***************************************************************************)
LEMMA InitIInv == Init => IInv
<1> SUFFICES ASSUME Init PROVE IInv
  OBVIOUS
<1>1. TypeOK
  BY NamesAssumption DEF Init, TypeOK, Everyone, Upcalls
<1>2. RegisteredOwnsSocket
  BY NamesAssumption DEF Init, RegisteredOwnsSocket
<1>3. SocketOwners
  BY DEF Init, SocketOwners
<1>4. Quiet
  BY FS_EmptySet DEF Init, Quiet
<1>5. Counts
  <2> SUFFICES ASSUME NEW h \in Everyone
               PROVE  refs[h] = Flag(h \in owned \cup {Reactor}) + Flag(Registered(h))
                                + Cardinality(Calls(h, handlers))
    BY DEF Counts
  <2>1. ~Registered(h) /\ owned = {} /\ handlers = {}
    BY NamesAssumption DEF Init, Registered, Everyone
  <2>2. refs[h] = IF h = Reactor THEN 1 ELSE 0
    BY DEF Init
  <2> QED
    BY <2>1, <2>2, NoCalls DEF Flag
<1> QED
  BY <1>1, <1>2, <1>3, <1>4, <1>5 DEF IInv

\* The socket a handler owns is registered for that handler or for nobody.
LEMMA OwnSocket ==
  ASSUME IInv, NEW h \in Handlers, sock[h] # None
  PROVE  sock[h] \in Sockets /\ handler[sock[h]] \in {None, h}
<1>1. sock[h] \in Sockets /\ handler[sock[h]] \in Everyone \cup {None}
  BY DEF IInv, TypeOK
<1>2. sock[h] # m_notifyPipe
  BY DEF IInv, SocketOwners
<1>3. handler[sock[h]] # Reactor
  BY <1>1, <1>2 DEF IInv, RegisteredOwnsSocket
<1>4. handler[sock[h]] \in Handlers => sock[handler[sock[h]]] = sock[h]
  BY <1>1 DEF IInv, RegisteredOwnsSocket
<1> QED
  BY <1>1, <1>3, <1>4 DEF IInv, SocketOwners, Everyone

LEMMA InitReactorStep ==
  ASSUME IInv, NEW s \in Sockets, InitReactor(s)
  PROVE  IInv'
<1> USE DEF InitReactor
<1>1. TypeOK'
  BY DEF IInv, TypeOK, Everyone, Bits
<1>2. \A t \in Sockets : handler[t] = None
  BY DEF IInv, Quiet
<1>3. RegisteredOwnsSocket'
  BY <1>2, NamesAssumption DEF IInv, TypeOK, Everyone, RegisteredOwnsSocket
<1>4. SocketOwners'
  <2>1. \A h \in Handlers : refs'[h] = refs[h]
    BY NamesAssumption DEF IInv, TypeOK, Everyone
  <2> QED
    BY <2>1 DEF IInv, SocketOwners, Free
<1>5. handlers = {} /\ Quiet'
  BY DEF IInv, Quiet
<1>6. Counts'
  <2> SUFFICES ASSUME NEW h \in Everyone
               PROVE  (refs[h] = Flag(h \in owned \cup {Reactor}) + Flag(Registered(h))
                                + Cardinality(Calls(h, handlers)))'
    BY DEF Counts
  <2>1. ~Registered(h)
    BY <1>2, NamesAssumption DEF Registered, Everyone
  <2>2. Registered(h)' <=> h = Reactor
    BY <1>2, NamesAssumption DEF IInv, TypeOK, Registered, Everyone
  <2>3. refs[h] = Flag(h \in owned \cup {Reactor}) + Flag(Registered(h))
                  + Cardinality(Calls(h, handlers))
    BY DEF IInv, Counts
  <2>4. Cardinality(Calls(h, handlers)) = 0
    BY <1>5, NoCalls
  <2>5. refs'[h] = IF h = Reactor THEN refs[h] + 1 ELSE refs[h]
    BY DEF IInv, TypeOK
  <2> QED
    BY <2>1, <2>2, <2>3, <2>4, <2>5 DEF Flag
<1> QED
  BY <1>1, <1>3, <1>4, <1>5, <1>6 DEF IInv

LEMMA DeleteReactorStep ==
  ASSUME IInv, DeleteReactor
  PROVE  IInv'
<1>1. /\ handlers = {} /\ wpc = "off" /\ m_epfd' = FALSE /\ m_notifyPipe' = None
      /\ interest' = [s \in Sockets |-> {}]
      /\ handler' = [s \in Sockets |-> None] /\ mask' = [s \in Sockets |-> {}]
      /\ UNCHANGED <<m_wantExit, owned, events, handlers, wpc>>
  BY DEF DeleteReactor, IInv, Quiet, work
<1>2. \A h \in Everyone : refs'[h] = refs[h] - Flag(Registered(h))
  BY OneRegistration DEF DeleteReactor, IInv
<1>3. \A h \in Everyone :
        refs[h] = Flag(h \in owned \cup {Reactor}) + Flag(Registered(h))
  BY <1>1, NoCalls DEF IInv, Counts, Flag
<1>4. \A h \in Everyone : refs'[h] = Flag(h \in owned \cup {Reactor})
  BY <1>2, <1>3 DEF Flag
<1>5. \A h \in Handlers : sock'[h] = sock[h] \/ sock'[h] = None
  BY DEF DeleteReactor
<1>6. TypeOK'
  <2>1. refs' \in [Everyone -> Nat]
    <3>1. refs' = [h \in Everyone |-> refs'[h]]
      BY DEF DeleteReactor
    <3> QED
      BY <3>1, <1>4 DEF Flag
  <2>2. sock' \in [Handlers -> Sockets \cup {None}]
    BY DEF DeleteReactor, IInv, TypeOK
  <2> QED
    BY <1>1, <2>1, <2>2 DEF IInv, TypeOK
<1>7. RegisteredOwnsSocket'
  BY <1>1, NamesAssumption DEF RegisteredOwnsSocket
<1>8. SocketOwners'
  <2>1. \A h \in Handlers : sock'[h] # None => refs'[h] > 0
    <3> SUFFICES ASSUME NEW h \in Handlers, sock'[h] # None
                 PROVE  h \in owned
      BY <1>4 DEF Flag, Everyone
    <3>1. sock[h] # None /\ ~(refs[h] = 1 /\ sock[h] # None /\ handler[sock[h]] = h)
      BY DEF DeleteReactor
    <3>2. refs[h] > 0 /\ handler[sock[h]] \in {None, h}
      BY <3>1, OwnSocket DEF IInv, SocketOwners
    <3>3. CASE handler[sock[h]] = h
      BY <3>1, <3>2, <3>3, <1>3, NamesAssumption DEF Flag, Everyone
    <3>4. CASE handler[sock[h]] = None
      <4>1. ~Registered(h)
        BY <3>4, NamesAssumption DEF IInv, RegisteredOwnsSocket, Registered
      <4> QED
        BY <4>1, <3>2, <1>3, NamesAssumption DEF Flag, Everyone
    <3> QED
      BY <3>2, <3>3, <3>4
  <2> QED
    BY <1>1, <1>5, <2>1 DEF IInv, SocketOwners
<1>9. Quiet'
  BY <1>1 DEF IInv, Quiet
<1>10. Counts'
  <2> SUFFICES ASSUME NEW h \in Everyone
               PROVE  (refs[h] = Flag(h \in owned \cup {Reactor}) + Flag(Registered(h))
                                + Cardinality(Calls(h, handlers)))'
    BY DEF Counts
  <2>1. ~Registered(h)'
    BY <1>1, NamesAssumption DEF Registered, Everyone
  <2> QED
    BY <1>1, <1>4, <2>1, NoCalls DEF Flag
<1> QED
  BY <1>6, <1>7, <1>8, <1>9, <1>10 DEF IInv

LEMMA CreateStep ==
  ASSUME IInv, NEW h \in Handlers, NEW s \in Sockets, Create(h, s)
  PROVE  IInv'
<1>1. /\ refs[h] = 0 /\ Free(s)
      /\ sock' = [sock EXCEPT ![h] = s] /\ owned' = owned \cup {h}
      /\ refs' = [refs EXCEPT ![h] = 1]
      /\ UNCHANGED <<handler, mask, interest, m_epfd, m_wantExit, m_notifyPipe,
                     events, handlers, wpc>>
  BY DEF Create, mgr, life, work
<1>2. TypeOK'
  BY <1>1 DEF IInv, TypeOK, Everyone
<1>3. h \notin owned /\ ~Registered(h) /\ Cardinality(Calls(h, handlers)) = 0
  <2>1. refs[h] = Flag(h \in owned \cup {Reactor}) + Flag(Registered(h))
                  + Cardinality(Calls(h, handlers))
    BY DEF IInv, Counts, Everyone
  <2> QED
    BY <1>1, <2>1, CallsFinite DEF IInv, Quiet, Flag
<1>4. RegisteredOwnsSocket'
  BY <1>1, <1>3 DEF IInv, TypeOK, RegisteredOwnsSocket, Registered, Everyone
<1>5. SocketOwners'
  <2>1. \A g \in Handlers : sock'[g] = IF g = h THEN s ELSE sock[g]
    BY <1>1 DEF IInv, TypeOK
  <2>2. \A g \in Handlers : refs'[g] = IF g = h THEN 1 ELSE refs[g]
    BY <1>1 DEF IInv, TypeOK, Everyone
  <2> QED
    BY <1>1, <2>1, <2>2 DEF IInv, SocketOwners, Free
<1>6. Quiet'
  BY <1>1 DEF IInv, Quiet
<1>7. Counts'
  <2> SUFFICES ASSUME NEW x \in Everyone
               PROVE  (refs[x] = Flag(x \in owned \cup {Reactor}) + Flag(Registered(x))
                                + Cardinality(Calls(x, handlers)))'
    BY DEF Counts
  <2>0. /\ refs[x] = Flag(x \in owned \cup {Reactor}) + Flag(Registered(x))
                     + Cardinality(Calls(x, handlers))
        /\ Cardinality(Calls(x, handlers)) \in Nat
    BY CallsFinite DEF IInv, Counts, Quiet
  <2>1. Registered(x)' <=> Registered(x)
    BY <1>1 DEF Registered
  <2>2. refs'[x] = IF x = h THEN 1 ELSE refs[x]
    BY <1>1 DEF IInv, TypeOK
  <2> QED
    BY <1>1, <1>3, <2>0, <2>1, <2>2, NamesAssumption DEF Flag
<1> QED
  BY <1>2, <1>4, <1>5, <1>6, <1>7 DEF IInv

LEMMA HandOverStep ==
  ASSUME IInv, NEW h \in Handlers, NEW g \in Handlers, HandOver(h, g)
  PROVE  IInv'
<1>1. /\ refs[h] > 0 /\ sock[h] # None /\ handler[sock[h]] # h /\ refs[g] = 0
      /\ sock' = [sock EXCEPT ![h] = None, ![g] = sock[h]]
      /\ owned' = owned \cup {g}
      /\ refs' = [refs EXCEPT ![g] = 1]
      /\ UNCHANGED <<handler, mask, interest, m_epfd, m_wantExit, m_notifyPipe,
                     events, handlers, wpc>>
  BY DEF HandOver, mgr, life, work
<1>2. TypeOK'
  BY <1>1 DEF IInv, TypeOK, Everyone
<1>3. g \notin owned /\ ~Registered(g) /\ Cardinality(Calls(g, handlers)) = 0
  <2>1. refs[g] = Flag(g \in owned \cup {Reactor}) + Flag(Registered(g))
                  + Cardinality(Calls(g, handlers))
    BY DEF IInv, Counts, Everyone
  <2> QED
    BY <1>1, <2>1, CallsFinite DEF IInv, Quiet, Flag
<1>4. ~Registered(h)
  BY <1>1 DEF IInv, RegisteredOwnsSocket, Registered
<1>5. RegisteredOwnsSocket'
  BY <1>1, <1>3, <1>4 DEF IInv, TypeOK, RegisteredOwnsSocket, Registered, Everyone
<1>6. SocketOwners'
  <2>1. \A x \in Handlers : sock'[x] = IF x = g THEN sock[h]
                                       ELSE IF x = h THEN None ELSE sock[x]
    BY <1>1 DEF IInv, TypeOK
  <2>2. \A x \in Handlers : refs'[x] = IF x = g THEN 1 ELSE refs[x]
    BY <1>1 DEF IInv, TypeOK, Everyone
  <2>3. \A x \in Handlers : x # h => sock[x] # sock[h]
    BY <1>1 DEF IInv, SocketOwners
  <2>4. \A x, y \in Handlers : sock'[x] # None /\ sock'[x] = sock'[y] => x = y
    BY <2>1, <2>3 DEF IInv, SocketOwners
  <2>5. ASSUME NEW x \in Handlers, sock'[x] # None
        PROVE  sock'[x] # m_notifyPipe /\ refs'[x] > 0
    <3>1. CASE x = g
      <4>1. sock[h] # m_notifyPipe
        BY <1>1 DEF IInv, SocketOwners
      <4> QED
        BY <2>1, <2>2, <3>1, <4>1
    <3>2. CASE x # g
      <4>1. sock[x] # None /\ sock'[x] = sock[x] /\ refs'[x] = refs[x]
        BY <2>1, <2>2, <2>5, <3>2
      <4> QED
        BY <4>1 DEF IInv, SocketOwners
    <3> QED
      BY <3>1, <3>2
  <2> QED
    BY <1>1, <2>4, <2>5 DEF SocketOwners
<1>7. Quiet'
  BY <1>1 DEF IInv, Quiet
<1>8. Counts'
  <2> SUFFICES ASSUME NEW x \in Everyone
               PROVE  (refs[x] = Flag(x \in owned \cup {Reactor}) + Flag(Registered(x))
                                + Cardinality(Calls(x, handlers)))'
    BY DEF Counts
  <2>0. /\ refs[x] = Flag(x \in owned \cup {Reactor}) + Flag(Registered(x))
                     + Cardinality(Calls(x, handlers))
        /\ Cardinality(Calls(x, handlers)) \in Nat
    BY CallsFinite DEF IInv, Counts, Quiet
  <2>1. Registered(x)' <=> Registered(x)
    BY <1>1 DEF Registered
  <2>2. refs'[x] = IF x = g THEN 1 ELSE refs[x]
    BY <1>1 DEF IInv, TypeOK
  <2> QED
    BY <1>1, <1>3, <2>0, <2>1, <2>2, NamesAssumption DEF Flag
<1> QED
  BY <1>2, <1>5, <1>6, <1>7, <1>8 DEF IInv

\* The socket of a handler that loses its last reference is not registered, so
\* closing it changes nothing in the epoll set.
LEMMA LastReference ==
  ASSUME IInv, NEW h \in Handlers, refs[h] = 1, ~Registered(h)
  PROVE  Closed(h, 1, interest) = interest
<1>1. ASSUME NEW s \in Sockets, sock[h] = s
      PROVE  interest[s] = {}
  <2>1. handler[s] = None
    BY <1>1, OwnSocket, NamesAssumption DEF Registered
  <2> QED
    BY <2>1 DEF IInv, RegisteredOwnsSocket
<1>2. \A s \in Sockets : Closed(h, 1, interest)[s] = interest[s]
  BY <1>1 DEF Closed
<1> QED
  BY <1>2 DEF Closed, IInv, TypeOK

\* Release of one reference when more are left, or when nothing is registered.
LEMMA ReleaseOne ==
  ASSUME IInv, NEW h \in Handlers, Release(h, 1), refs[h] > 0,
         refs[h] = 1 => ~Registered(h)
  PROVE  /\ refs' \in [Everyone -> Nat]
         /\ \A x \in Everyone : refs'[x] = IF x = h THEN refs[x] - 1 ELSE refs[x]
         /\ sock' \in [Handlers -> Sockets \cup {None}]
         /\ \A g \in Handlers : sock'[g] # None => sock'[g] = sock[g] /\ refs'[g] > 0
         /\ \A g \in Handlers : Registered(g) => sock'[g] = sock[g]
         /\ Closed(h, 1, interest) = interest
<1>1. refs \in [Everyone -> Nat] /\ sock \in [Handlers -> Sockets \cup {None}]
  BY DEF IInv, TypeOK
<1>2. refs' = [refs EXCEPT ![h] = refs[h] - 1] /\ refs[h] - 1 \in Nat
  BY <1>1 DEF Release, Everyone
<1>3. /\ refs' \in [Everyone -> Nat]
      /\ \A x \in Everyone : refs'[x] = IF x = h THEN refs[x] - 1 ELSE refs[x]
  BY <1>1, <1>2
<1>4. sock' = [g \in Handlers |-> IF g = h /\ refs[h] = 1 THEN None ELSE sock[g]]
  BY DEF Release
<1>5. \A g \in Handlers : sock'[g] # None => sock'[g] = sock[g] /\ refs'[g] > 0
  BY <1>1, <1>3, <1>4 DEF IInv, SocketOwners, Everyone
<1>6. \A g \in Handlers : Registered(g) => sock'[g] = sock[g]
  BY <1>4
<1>7. Closed(h, 1, interest) = interest
  <2>1. CASE refs[h] = 1
    BY <2>1, LastReference
  <2>2. CASE refs[h] # 1
    BY <2>2 DEF Closed, IInv, TypeOK
  <2> QED
    BY <2>1, <2>2
<1> QED
  BY <1>1, <1>3, <1>4, <1>5, <1>6, <1>7

LEMMA DisownStep ==
  ASSUME IInv, NEW h \in Handlers, Disown(h)
  PROVE  IInv'
<1>1. /\ h \in owned /\ ~Registered(h) /\ owned' = owned \ {h} /\ Release(h, 1)
      /\ interest' = Closed(h, 1, interest)
      /\ UNCHANGED <<handler, mask, m_epfd, m_wantExit, m_notifyPipe, events, handlers, wpc>>
  BY DEF Disown, Registered, mgr, life, work
<1>2. refs[h] > 0
  <2>1. refs[h] = Flag(h \in owned \cup {Reactor}) + Flag(Registered(h))
                  + Cardinality(Calls(h, handlers))
    BY DEF IInv, Counts, Everyone
  <2> QED
    BY <1>1, <2>1, CallsFinite DEF IInv, Quiet, Flag
<1>3. /\ refs' \in [Everyone -> Nat]
      /\ \A x \in Everyone : refs'[x] = IF x = h THEN refs[x] - 1 ELSE refs[x]
      /\ sock' \in [Handlers -> Sockets \cup {None}]
      /\ \A g \in Handlers : sock'[g] # None => sock'[g] = sock[g] /\ refs'[g] > 0
      /\ \A g \in Handlers : Registered(g) => sock'[g] = sock[g]
      /\ interest' = interest
  BY <1>1, <1>2, ReleaseOne
<1>4. TypeOK'
  BY <1>1, <1>3 DEF IInv, TypeOK
<1>5. RegisteredOwnsSocket'
  BY <1>1, <1>3 DEF IInv, RegisteredOwnsSocket, Registered, Everyone
<1>6. SocketOwners'
  BY <1>1, <1>3 DEF IInv, SocketOwners
<1>7. Quiet'
  BY <1>1 DEF IInv, Quiet
<1>8. Counts'
  <2> SUFFICES ASSUME NEW x \in Everyone
               PROVE  (refs[x] = Flag(x \in owned \cup {Reactor}) + Flag(Registered(x))
                                + Cardinality(Calls(x, handlers)))'
    BY DEF Counts
  <2>0. /\ refs[x] = Flag(x \in owned \cup {Reactor}) + Flag(Registered(x))
                     + Cardinality(Calls(x, handlers))
        /\ Cardinality(Calls(x, handlers)) \in Nat
    BY CallsFinite DEF IInv, Counts, Quiet
  <2>1. Registered(x)' <=> Registered(x)
    BY <1>1 DEF Registered
  <2> QED
    BY <1>1, <1>3, <2>0, <2>1, NamesAssumption DEF Flag
<1> QED
  BY <1>4, <1>5, <1>6, <1>7, <1>8 DEF IInv

LEMMA AddHandlerStep ==
  ASSUME IInv, NEW h \in Handlers, NEW m \in Requests, AddHandler(h, m)
  PROVE  IInv'
<1>0. PICK s \in Sockets : s = sock[h] /\ s # None
  BY DEF AddHandler, IInv, TypeOK
<1>1. PICK new \in SUBSET Bits :
        /\ new # {} /\ handler[s] \in {None, h} /\ h \in owned
        /\ interest' = [interest EXCEPT ![s] = mask[s] \cup new]
        /\ handler' = [handler EXCEPT ![s] = h]
        /\ mask' = [mask EXCEPT ![s] = mask[s] \cup new]
        /\ refs' = [refs EXCEPT ![h] = IF handler[s] = None THEN refs[h] + 1 ELSE refs[h]]
        /\ UNCHANGED <<m_epfd, m_wantExit, m_notifyPipe, sock, owned, events, handlers, wpc>>
        /\ m_epfd
  <2>1. Expanded(m) \ mask[s] \in SUBSET Bits
    BY DEF Expanded, Bits
  <2> QED
    BY <1>0, <2>1 DEF AddHandler, life, work
<1>2. TypeOK'
  BY <1>1 DEF IInv, TypeOK, Everyone
<1>3. s # m_notifyPipe /\ refs[h] > 0 /\ \A t \in Sockets : handler[t] = h => t = s
  BY <1>0 DEF IInv, SocketOwners, RegisteredOwnsSocket
<1>4. \A x \in Handlers : refs[x] \in Nat /\ refs'[x] \in Nat /\ refs'[x] >= refs[x]
  BY <1>1 DEF IInv, TypeOK, Everyone
<1>5. RegisteredOwnsSocket'
  <2> SUFFICES ASSUME NEW t \in Sockets
               PROVE  /\ interest'[t] = mask'[t]
                      /\ mask'[t] = {} <=> handler'[t] = None
                      /\ handler'[t] \in Handlers =>
                           sock[handler'[t]] = t /\ refs'[handler'[t]] > 0
                      /\ handler'[t] = Reactor => t = m_notifyPipe
                      /\ m_epfd /\ t = m_notifyPipe => handler'[t] = Reactor /\ "READ" \in mask'[t]
    BY <1>1 DEF RegisteredOwnsSocket
  <2>1. CASE t = s
    <3>1. interest'[t] = mask[s] \cup new /\ mask'[t] = mask[s] \cup new /\ handler'[t] = h
      BY <1>1, <2>1 DEF IInv, TypeOK
    <3>2. refs'[h] > 0
      BY <1>3, <1>4
    <3> QED
      BY <1>0, <1>1, <1>3, <2>1, <3>1, <3>2, NamesAssumption
  <2>2. CASE t # s
    <3>1. interest'[t] = interest[t] /\ mask'[t] = mask[t] /\ handler'[t] = handler[t]
      BY <1>1, <2>2 DEF IInv, TypeOK
    <3>2. handler[t] \in Handlers => refs'[handler[t]] > 0
      BY <1>4 DEF IInv, RegisteredOwnsSocket
    <3> QED
      BY <3>1, <3>2 DEF IInv, RegisteredOwnsSocket
  <2> QED
    BY <2>1, <2>2
<1>6. SocketOwners'
  BY <1>1, <1>4 DEF IInv, SocketOwners
<1>7. Quiet'
  BY <1>1 DEF IInv, Quiet
<1>8. Counts'
  <2> SUFFICES ASSUME NEW x \in Everyone
               PROVE  (refs[x] = Flag(x \in owned \cup {Reactor}) + Flag(Registered(x))
                                + Cardinality(Calls(x, handlers)))'
    BY DEF Counts
  <2>0. /\ refs[x] = Flag(x \in owned \cup {Reactor}) + Flag(Registered(x))
                     + Cardinality(Calls(x, handlers))
        /\ Cardinality(Calls(x, handlers)) \in Nat
    BY CallsFinite DEF IInv, Counts, Quiet
  <2>1. Registered(x)' <=> Registered(x) \/ x = h
    BY <1>1, <1>3, NamesAssumption DEF IInv, TypeOK, Registered, Everyone
  <2>2. Registered(h) <=> handler[s] = h
    BY <1>3 DEF Registered
  <2>3. refs'[x] = IF x = h /\ handler[s] = None THEN refs[x] + 1 ELSE refs[x]
    BY <1>1 DEF IInv, TypeOK
  <2> QED
    BY <1>1, <2>0, <2>1, <2>2, <2>3, NamesAssumption DEF Flag
<1> QED
  BY <1>2, <1>5, <1>6, <1>7, <1>8 DEF IInv

LEMMA RemoveHandlerStep ==
  ASSUME IInv, NEW h \in Handlers, NEW m \in Requests, RemoveHandler(h, m)
  PROVE  IInv'
<1>0. PICK s \in Sockets : s = sock[h] /\ s # None
  BY DEF RemoveHandler, IInv, TypeOK
<1>1. PICK left \in SUBSET Bits :
        /\ handler[s] = h /\ refs[h] > 0
        /\ mask' = [mask EXCEPT ![s] = left]
        /\ handler' = [handler EXCEPT ![s] = IF left = {} THEN None ELSE h]
        /\ IF left = {}
             THEN Release(h, 1) /\ interest' = Closed(h, 1, [interest EXCEPT ![s] = left])
             ELSE interest' = [interest EXCEPT ![s] = left] /\ UNCHANGED <<refs, sock>>
        /\ UNCHANGED <<m_epfd, m_wantExit, m_notifyPipe, owned, events, handlers, wpc>>
  <2>1. mask[s] \ (Expanded(m) \cap mask[s]) \in SUBSET Bits
    BY DEF IInv, TypeOK
  <2> QED
    BY <1>0, <2>1 DEF RemoveHandler, life, work
<1>2. s # m_notifyPipe /\ \A t \in Sockets : handler[t] = h => t = s
  BY <1>0 DEF IInv, SocketOwners, RegisteredOwnsSocket
<1>3. interest' = [interest EXCEPT ![s] = left]
  <2>1. CASE left = {}
    <3>1. \A t \in Sockets :
            Closed(h, 1, [interest EXCEPT ![s] = left])[t] = [interest EXCEPT ![s] = left][t]
      BY <1>0, <2>1 DEF Closed, IInv, TypeOK
    <3> QED
      BY <1>1, <2>1, <3>1 DEF Closed, IInv, TypeOK
  <2> QED
    BY <1>1, <2>1
<1>4. CASE left # {}
  <2>1. TypeOK'
    BY <1>1, <1>4 DEF IInv, TypeOK, Everyone
  <2>2. handler' = handler
    BY <1>1, <1>4 DEF IInv, TypeOK
  <2>3. RegisteredOwnsSocket'
    BY <1>1, <1>2, <1>4, <2>2, NamesAssumption DEF IInv, TypeOK, RegisteredOwnsSocket
  <2>4. SocketOwners' /\ Quiet'
    BY <1>1, <1>4, <2>2 DEF IInv, SocketOwners, Quiet
  <2>5. Counts'
    BY <1>1, <1>4, <2>2 DEF IInv, Counts, Registered, Calls, Flag
  <2> QED
    BY <2>1, <2>3, <2>4, <2>5 DEF IInv
<1>5. CASE left = {}
  <2>1. /\ refs' = [refs EXCEPT ![h] = refs[h] - 1] /\ refs[h] - 1 \in Nat
        /\ sock' = [g \in Handlers |-> IF g = h /\ refs[h] = 1 THEN None ELSE sock[g]]
    BY <1>1, <1>5 DEF Release, IInv, TypeOK, Everyone
  <2>2. handler' = [handler EXCEPT ![s] = None]
    BY <1>1, <1>5
  <2>3. TypeOK'
    BY <1>1, <1>3, <2>1, <2>2 DEF IInv, TypeOK
  <2>4. \A g \in Handlers : g # h => sock'[g] = sock[g] /\ refs'[g] = refs[g]
    BY <2>1 DEF IInv, TypeOK, Everyone
  <2>5. RegisteredOwnsSocket'
    <3> SUFFICES ASSUME NEW t \in Sockets
                 PROVE  /\ interest'[t] = mask'[t]
                        /\ mask'[t] = {} <=> handler'[t] = None
                        /\ handler'[t] \in Handlers =>
                             sock'[handler'[t]] = t /\ refs'[handler'[t]] > 0
                        /\ handler'[t] = Reactor => t = m_notifyPipe
                        /\ m_epfd /\ t = m_notifyPipe =>
                             handler'[t] = Reactor /\ "READ" \in mask'[t]
      BY <1>1 DEF RegisteredOwnsSocket
    <3>1. CASE t = s
      <4>1. interest'[t] = {} /\ mask'[t] = {} /\ handler'[t] = None
        BY <1>1, <1>3, <1>5, <2>2, <3>1 DEF IInv, TypeOK
      <4> QED
        BY <1>2, <3>1, <4>1, NamesAssumption
    <3>2. CASE t # s
      <4>1. interest'[t] = interest[t] /\ mask'[t] = mask[t] /\ handler'[t] = handler[t]
        BY <1>1, <1>3, <2>2, <3>2 DEF IInv, TypeOK
      <4>2. handler[t] # h
        BY <1>2, <3>2
      <4> QED
        BY <2>4, <4>1, <4>2 DEF IInv, RegisteredOwnsSocket
    <3> QED
      BY <3>1, <3>2
  <2>6. SocketOwners'
    <3>1. \A g \in Handlers : sock'[g] # None => sock'[g] = sock[g] /\ refs'[g] > 0
      BY <1>1, <2>1 DEF IInv, TypeOK, SocketOwners, Everyone
    <3> QED
      BY <1>1, <3>1 DEF IInv, SocketOwners
  <2>7. Quiet'
    BY <1>1, <2>2 DEF IInv, TypeOK, Quiet
  <2>8. Counts'
    <3> SUFFICES ASSUME NEW x \in Everyone
                 PROVE  (refs[x] = Flag(x \in owned \cup {Reactor}) + Flag(Registered(x))
                                  + Cardinality(Calls(x, handlers)))'
      BY DEF Counts
    <3>0. /\ refs[x] = Flag(x \in owned \cup {Reactor}) + Flag(Registered(x))
                       + Cardinality(Calls(x, handlers))
          /\ Cardinality(Calls(x, handlers)) \in Nat
      BY CallsFinite DEF IInv, Counts, Quiet
    <3>1. Registered(h)
      BY <1>1 DEF Registered
    <3>2. Registered(x)' <=> Registered(x) /\ x # h
      <4>1. \A t \in Sockets : handler'[t] = IF t = s THEN None ELSE handler[t]
        BY <2>2 DEF IInv, TypeOK
      <4> QED
        BY <1>1, <1>2, <4>1, NamesAssumption DEF Registered, Everyone
    <3>3. refs'[x] = IF x = h THEN refs[x] - 1 ELSE refs[x]
      BY <2>1 DEF IInv, TypeOK
    <3> QED
      BY <1>1, <3>0, <3>1, <3>2, <3>3 DEF Flag
  <2> QED
    BY <2>3, <2>5, <2>6, <2>7, <2>8 DEF IInv
<1> QED
  BY <1>4, <1>5

LEMMA WorkerCollectStep ==
  ASSUME IInv, WorkerCollect
  PROVE  IInv'
<1> DEFINE found == {s \in Sockets : events[s] # {} /\ handler[s] # None}
           calls == UNION {{<<s, handler[s], b>> : b \in Due(events[s])} : s \in found}
<1>1. calls \subseteq Upcalls /\ IsFiniteSet(calls)
  <2>1. found \in SUBSET Sockets /\ \A s \in found : handler[s] # None
    OBVIOUS
  <2> HIDE DEF found
  <2> QED
    BY <2>1, FoundFinite DEF IInv
<1> HIDE DEF calls, found
<1>2. /\ wpc = "collect" /\ m_epfd /\ handlers' = calls
      /\ refs' = [h \in Everyone |-> refs[h] + Cardinality(Calls(h, calls))]
      /\ events' = [s \in Sockets |-> {}]
      /\ wpc' = IF calls = {} THEN "loop" ELSE "upcall"
      /\ UNCHANGED <<handler, mask, m_epfd, m_wantExit, m_notifyPipe, interest, sock, owned>>
  BY DEF WorkerCollect, calls, found, Calls, mgr, life
<1>3. handlers = {}
  BY <1>2 DEF IInv, Quiet
<1>4. \A h \in Everyone : refs[h] \in Nat /\ refs'[h] \in Nat /\ refs'[h] >= refs[h]
  BY <1>1, <1>2, CallsFinite DEF IInv, TypeOK
<1>5. UNCHANGED <<handler, mask, m_epfd, m_notifyPipe, interest, sock>>
  BY <1>2
<1>10. TypeOK'
  <2>1. refs' \in [Everyone -> Nat]
    BY <1>2, <1>4
  <2> QED
    BY <1>1, <1>2, <2>1 DEF IInv, TypeOK
<1>6. RegisteredOwnsSocket'
  BY <1>4, <1>5 DEF IInv, RegisteredOwnsSocket, Everyone
<1>7. SocketOwners'
  BY <1>4, <1>5 DEF IInv, SocketOwners, Everyone
<1>8. Quiet'
  BY <1>1, <1>2 DEF IInv, Quiet
<1>9. Counts'
  <2> SUFFICES ASSUME NEW x \in Everyone
               PROVE  (refs[x] = Flag(x \in owned \cup {Reactor}) + Flag(Registered(x))
                                + Cardinality(Calls(x, handlers)))'
    BY DEF Counts
  <2>0. /\ refs[x] = Flag(x \in owned \cup {Reactor}) + Flag(Registered(x))
                     + Cardinality(Calls(x, handlers))
        /\ Cardinality(Calls(x, handlers)) \in Nat
    BY CallsFinite DEF IInv, Counts, Quiet
  <2>1. Registered(x)' <=> Registered(x)
    BY <1>2 DEF Registered
  <2>2. Cardinality(Calls(x, handlers)) = 0
    BY <1>3, NoCalls
  <2>3. Cardinality(Calls(x, calls)) \in Nat
    BY <1>1, CallsFinite
  <2> QED
    BY <1>2, <2>0, <2>1, <2>2, <2>3 DEF Flag
<1> QED
  BY <1>6, <1>7, <1>8, <1>9, <1>10 DEF IInv

\* The parts of an upcall that do not depend on whose it is.
LEMMA CallDone ==
  ASSUME IInv, NEW u \in handlers, wpc = "upcall", UpcallDone(u)
  PROVE  /\ handlers' \subseteq Upcalls /\ IsFiniteSet(handlers')
         /\ wpc' \in {"loop", "upcall"} /\ (wpc' # "upcall" => handlers' = {})
         /\ m_epfd /\ u[1] \in Sockets /\ u[2] \in Everyone
         /\ refs[u[2]] > 0
         /\ \A x \in Everyone :
              /\ Cardinality(Calls(x, handlers)) \in Nat
              /\ Cardinality(Calls(x, handlers')) =
                   IF x = u[2] THEN Cardinality(Calls(x, handlers)) - 1
                   ELSE Cardinality(Calls(x, handlers))
<1>1. handlers' = handlers \ {u} /\ wpc' = IF handlers = {u} THEN "loop" ELSE "upcall"
  BY DEF UpcallDone
<1>2. u[1] \in Sockets /\ u[2] \in Everyone
  BY DEF IInv, TypeOK, Upcalls
<1>3. /\ IsFiniteSet(handlers')
      /\ \A x \in Everyone :
           /\ Cardinality(Calls(x, handlers)) \in Nat
           /\ Cardinality(Calls(x, handlers')) =
                IF x = u[2] THEN Cardinality(Calls(x, handlers)) - 1
                ELSE Cardinality(Calls(x, handlers))
  BY <1>1, CallOver DEF IInv, Quiet
<1>4. Cardinality(Calls(u[2], handlers)) > 0
  BY CallOver DEF IInv, Quiet
<1>5. refs[u[2]] = Flag(u[2] \in owned \cup {Reactor}) + Flag(Registered(u[2]))
                   + Cardinality(Calls(u[2], handlers))
  BY <1>2 DEF IInv, Counts
<1>6. refs[u[2]] > 0
  BY <1>2, <1>3, <1>4, <1>5 DEF Flag
<1>7. handlers' \subseteq Upcalls /\ m_epfd
  BY <1>1 DEF IInv, TypeOK, Quiet
<1>8. wpc' \in {"loop", "upcall"} /\ (wpc' # "upcall" => handlers' = {})
  BY <1>1
<1> QED
  BY <1>2, <1>3, <1>6, <1>7, <1>8

LEMMA UpcallStep ==
  ASSUME IInv, NEW u \in handlers, Upcall(u)
  PROVE  IInv'
<1>1. /\ wpc = "upcall" /\ u[2] # Reactor /\ UpcallDone(u) /\ Release(u[2], 1)
      /\ interest' = Closed(u[2], 1, interest)
      /\ UNCHANGED <<handler, mask, m_epfd, m_wantExit, m_notifyPipe, owned, events>>
  BY DEF Upcall, mgr, life
<1>2. /\ handlers' \subseteq Upcalls /\ IsFiniteSet(handlers')
      /\ wpc' \in {"loop", "upcall"} /\ (wpc' # "upcall" => handlers' = {}) /\ m_epfd
  BY <1>1, CallDone
<1>3. u[2] \in Handlers /\ refs[u[2]] > 0
  BY <1>1, CallDone DEF Everyone
<1>4. \A x \in Everyone :
        /\ Cardinality(Calls(x, handlers)) \in Nat
        /\ Cardinality(Calls(x, handlers')) =
             IF x = u[2] THEN Cardinality(Calls(x, handlers)) - 1
             ELSE Cardinality(Calls(x, handlers))
  BY <1>1, CallDone
<1>5. refs[u[2]] = 1 => ~Registered(u[2])
  <2>1. refs[u[2]] = Flag(u[2] \in owned \cup {Reactor}) + Flag(Registered(u[2]))
                     + Cardinality(Calls(u[2], handlers))
    BY <1>3 DEF IInv, Counts, Everyone
  <2>2. Cardinality(Calls(u[2], handlers)) > 0 /\ Cardinality(Calls(u[2], handlers)) \in Nat
    BY CallOver DEF IInv, Quiet
  <2> QED
    BY <2>1, <2>2 DEF Flag
<1>6. PICK h \in Handlers : h = u[2]
  BY <1>3
<1>7. /\ refs' \in [Everyone -> Nat]
      /\ \A x \in Everyone : refs'[x] = IF x = h THEN refs[x] - 1 ELSE refs[x]
      /\ sock' \in [Handlers -> Sockets \cup {None}]
      /\ \A g \in Handlers : sock'[g] # None => sock'[g] = sock[g] /\ refs'[g] > 0
      /\ \A g \in Handlers : Registered(g) => sock'[g] = sock[g]
      /\ interest' = interest
  BY <1>1, <1>3, <1>5, <1>6, ReleaseOne
<1>8. TypeOK'
  BY <1>1, <1>2, <1>7 DEF IInv, TypeOK
<1>9. RegisteredOwnsSocket'
  <2>1. \A g \in Handlers : Registered(g) => refs'[g] > 0
    <3> SUFFICES ASSUME NEW g \in Handlers, Registered(g) PROVE refs'[g] > 0
      OBVIOUS
    <3>1. refs[g] > 0 /\ refs[g] \in Nat /\ g \in Everyone
      BY DEF IInv, RegisteredOwnsSocket, Registered, TypeOK, Everyone
    <3> QED
      BY <1>5, <1>6, <1>7, <3>1
  <2> QED
    BY <1>1, <1>7, <2>1 DEF IInv, RegisteredOwnsSocket, Registered, Everyone
<1>10. SocketOwners'
  BY <1>1, <1>7 DEF IInv, SocketOwners
<1>11. Quiet'
  BY <1>1, <1>2 DEF IInv, Quiet
<1>12. Counts'
  <2> SUFFICES ASSUME NEW x \in Everyone
               PROVE  (refs[x] = Flag(x \in owned \cup {Reactor}) + Flag(Registered(x))
                                + Cardinality(Calls(x, handlers)))'
    BY DEF Counts
  <2>0. /\ refs[x] = Flag(x \in owned \cup {Reactor}) + Flag(Registered(x))
                     + Cardinality(Calls(x, handlers))
        /\ Cardinality(Calls(x, handlers)) \in Nat
    BY CallsFinite DEF IInv, Counts, Quiet
  <2>1. Registered(x)' <=> Registered(x)
    BY <1>1 DEF Registered
  <2> QED
    BY <1>1, <1>4, <1>6, <1>7, <2>0, <2>1 DEF Flag
<1> QED
  BY <1>8, <1>9, <1>10, <1>11, <1>12 DEF IInv

LEMMA PipeUpcallStep ==
  ASSUME IInv, NEW u \in handlers, PipeUpcall(u)
  PROVE  IInv'
<1>1. /\ wpc = "upcall" /\ u[2] = Reactor /\ UpcallDone(u)
      /\ refs' = [refs EXCEPT ![Reactor] = refs[Reactor] - 1]
      /\ UNCHANGED <<handler, mask, m_epfd, m_wantExit, m_notifyPipe, interest, sock,
                     owned, events>>
  BY DEF PipeUpcall, mgr, life
<1>2. /\ handlers' \subseteq Upcalls /\ IsFiniteSet(handlers')
      /\ wpc' \in {"loop", "upcall"} /\ (wpc' # "upcall" => handlers' = {}) /\ m_epfd
      /\ refs[Reactor] > 0
  BY <1>1, CallDone
<1>3. \A x \in Everyone :
        /\ Cardinality(Calls(x, handlers)) \in Nat
        /\ Cardinality(Calls(x, handlers')) =
             IF x = Reactor THEN Cardinality(Calls(x, handlers)) - 1
             ELSE Cardinality(Calls(x, handlers))
  BY <1>1, CallDone
<1>4. refs[Reactor] - 1 \in Nat
  BY <1>2 DEF IInv, TypeOK, Everyone
<1>5. /\ refs' \in [Everyone -> Nat]
      /\ \A x \in Everyone : refs'[x] = IF x = Reactor THEN refs[x] - 1 ELSE refs[x]
  BY <1>1, <1>4 DEF IInv, TypeOK
<1>6. \A h \in Handlers : refs'[h] = refs[h]
  BY <1>5, NamesAssumption DEF Everyone
<1>7. TypeOK'
  BY <1>1, <1>2, <1>5 DEF IInv, TypeOK
<1>8. RegisteredOwnsSocket' /\ SocketOwners' /\ Quiet'
  BY <1>1, <1>2, <1>6 DEF IInv, RegisteredOwnsSocket, SocketOwners, Quiet
<1>9. Counts'
  <2> SUFFICES ASSUME NEW x \in Everyone
               PROVE  (refs[x] = Flag(x \in owned \cup {Reactor}) + Flag(Registered(x))
                                + Cardinality(Calls(x, handlers)))'
    BY DEF Counts
  <2>0. /\ refs[x] = Flag(x \in owned \cup {Reactor}) + Flag(Registered(x))
                     + Cardinality(Calls(x, handlers))
        /\ Cardinality(Calls(x, handlers)) \in Nat
    BY CallsFinite DEF IInv, Counts, Quiet
  <2>1. Registered(x)' <=> Registered(x)
    BY <1>1 DEF Registered
  <2> QED
    BY <1>1, <1>3, <1>5, <2>0, <2>1 DEF Flag
<1> QED
  BY <1>7, <1>8, <1>9 DEF IInv

LEMMA PipeRebuildStep ==
  ASSUME IInv, NEW u \in handlers, NEW s \in Sockets, PipeRebuild(u, s)
  PROVE  IInv'
<1>1. /\ wpc = "upcall" /\ u[2] = Reactor /\ u[1] = m_notifyPipe /\ UpcallDone(u)
      /\ m_epfd /\ Free(s) /\ m_notifyPipe' = s
      /\ UNCHANGED <<m_epfd, m_wantExit, sock, owned, events>>
  BY DEF PipeRebuild
<1>2. PICK p \in Sockets : p = m_notifyPipe
  BY <1>1, CallDone
<1>3. /\ interest' = [interest EXCEPT ![s] = {"READ"}, ![p] = {}]
      /\ handler' = [handler EXCEPT ![s] = Reactor, ![p] = None]
      /\ mask' = [mask EXCEPT ![s] = {"READ"}, ![p] = {}]
      /\ refs' = [refs EXCEPT ![Reactor] = refs[Reactor] - 1]
  BY <1>1, <1>2 DEF PipeRebuild
<1>4. /\ handlers' \subseteq Upcalls /\ IsFiniteSet(handlers')
      /\ wpc' \in {"loop", "upcall"} /\ (wpc' # "upcall" => handlers' = {}) /\ m_epfd
      /\ refs[Reactor] > 0
  BY <1>1, CallDone
<1>5. \A x \in Everyone :
        /\ Cardinality(Calls(x, handlers)) \in Nat
        /\ Cardinality(Calls(x, handlers')) =
             IF x = Reactor THEN Cardinality(Calls(x, handlers)) - 1
             ELSE Cardinality(Calls(x, handlers))
  BY <1>1, CallDone
<1>6. refs[Reactor] - 1 \in Nat
  BY <1>4 DEF IInv, TypeOK, Everyone
<1>7. /\ refs' \in [Everyone -> Nat]
      /\ \A x \in Everyone : refs'[x] = IF x = Reactor THEN refs[x] - 1 ELSE refs[x]
  BY <1>3, <1>6 DEF IInv, TypeOK
<1>8. \A h \in Handlers : refs'[h] = refs[h]
  BY <1>7, NamesAssumption DEF Everyone
<1>9. /\ s # p /\ handler[p] = Reactor
      /\ \A h \in Handlers : sock[h] # s
      /\ \A t \in Sockets : handler[t] = Reactor => t = p
  BY <1>1, <1>2 DEF Free, IInv, RegisteredOwnsSocket
<1>10. \A t \in Sockets :
         /\ interest'[t] = IF t = p THEN {} ELSE IF t = s THEN {"READ"} ELSE interest[t]
         /\ handler'[t] = IF t = p THEN None ELSE IF t = s THEN Reactor ELSE handler[t]
         /\ mask'[t] = IF t = p THEN {} ELSE IF t = s THEN {"READ"} ELSE mask[t]
  BY <1>3 DEF IInv, TypeOK
<1>11. TypeOK'
  BY <1>1, <1>3, <1>4, <1>7 DEF IInv, TypeOK, Everyone, Bits
<1>12. RegisteredOwnsSocket'
  <2> SUFFICES ASSUME NEW t \in Sockets
               PROVE  /\ interest'[t] = mask'[t]
                      /\ mask'[t] = {} <=> handler'[t] = None
                      /\ handler'[t] \in Handlers =>
                           sock[handler'[t]] = t /\ refs'[handler'[t]] > 0
                      /\ handler'[t] = Reactor => t = s
                      /\ t = s => handler'[t] = Reactor /\ "READ" \in mask'[t]
    BY <1>1 DEF RegisteredOwnsSocket
  <2>1. CASE t = p \/ t = s
    BY <1>9, <1>10, <2>1, NamesAssumption
  <2>2. CASE t # p /\ t # s
    <3>1. interest'[t] = interest[t] /\ mask'[t] = mask[t] /\ handler'[t] = handler[t]
      BY <1>10, <2>2
    <3>2. handler[t] \in Handlers => refs'[handler[t]] = refs[handler[t]]
      BY <1>8
    <3> QED
      BY <1>9, <2>2, <3>1, <3>2 DEF IInv, RegisteredOwnsSocket
  <2> QED
    BY <2>1, <2>2
<1>13. SocketOwners'
  BY <1>1, <1>8, <1>9 DEF IInv, SocketOwners
<1>14. Quiet'
  BY <1>1, <1>4 DEF IInv, Quiet
<1>15. Counts'
  <2> SUFFICES ASSUME NEW x \in Everyone
               PROVE  (refs[x] = Flag(x \in owned \cup {Reactor}) + Flag(Registered(x))
                                + Cardinality(Calls(x, handlers)))'
    BY DEF Counts
  <2>0. /\ refs[x] = Flag(x \in owned \cup {Reactor}) + Flag(Registered(x))
                     + Cardinality(Calls(x, handlers))
        /\ Cardinality(Calls(x, handlers)) \in Nat
    BY CallsFinite DEF IInv, Counts, Quiet
  <2>1. Registered(x)' <=> Registered(x)
    <3>1. \A t \in Sockets : (handler'[t] = x /\ x # Reactor) <=> (handler[t] = x /\ x # Reactor /\ t # s)
      BY <1>9, <1>10, NamesAssumption DEF Everyone
    <3>2. x # Reactor => handler[s] # x
      BY <1>9, NamesAssumption DEF IInv, RegisteredOwnsSocket, Everyone
    <3> QED
      BY <1>9, <1>10, <3>1, <3>2 DEF Registered
  <2> QED
    BY <1>1, <1>5, <1>7, <2>0, <2>1 DEF Flag
<1> QED
  BY <1>11, <1>12, <1>13, <1>14, <1>15 DEF IInv

\* Steps of the worker and of Fini that touch no handler.
LEMMA QuietStep ==
  ASSUME IInv,
         \/ Fini \/ WorkerLoop \/ WorkerLeave
         \/ \E ev \in [Sockets -> Reports] : EpollWait(ev)
         \/ UNCHANGED vars
  PROVE  IInv'
<1>1. UNCHANGED <<handler, mask, interest, m_epfd, m_notifyPipe, sock, owned, refs, handlers>>
  BY DEF Fini, WorkerLoop, WorkerLeave, EpollWait, vars, mgr, life, objs, work
<1>2. /\ m_wantExit' \in BOOLEAN /\ wpc' \in {"off", "loop", "wait", "collect", "upcall"}
      /\ (wpc' = "upcall" => wpc = "upcall") /\ (wpc' # "upcall" => handlers = {})
      /\ (wpc' # "off" => wpc # "off")
  BY DEF Fini, WorkerLoop, WorkerLeave, EpollWait, vars, life, work, IInv, TypeOK, Quiet
<1>3. events' \in [Sockets -> SUBSET (Bits \cup {"HUP", "ERR"})]
  BY ReportsAssumption
     DEF Fini, WorkerLoop, WorkerLeave, EpollWait, vars, work, IInv, TypeOK, Bits
<1>4. TypeOK'
  BY <1>1, <1>2, <1>3 DEF IInv, TypeOK
<1>5. RegisteredOwnsSocket' /\ SocketOwners'
  BY <1>1 DEF IInv, RegisteredOwnsSocket, SocketOwners
<1>6. Quiet'
  BY <1>1, <1>2 DEF IInv, Quiet
<1>7. Counts'
  BY <1>1 DEF IInv, Counts, Registered, Flag, Calls
<1> QED
  BY <1>4, <1>5, <1>6, <1>7 DEF IInv

\* IInv is an invariant: one lemma for each action.
THEOREM Invariance == Spec => []IInv
<1>1. IInv /\ [Next]_vars => IInv'
  <2> SUFFICES ASSUME IInv, [Next]_vars PROVE IInv'
    OBVIOUS
  <2>1. CASE \/ Fini \/ WorkerLoop \/ WorkerLeave
             \/ \E ev \in [Sockets -> Reports] : EpollWait(ev)
             \/ UNCHANGED vars
    BY <2>1, QuietStep
  <2>2. CASE DeleteReactor
    BY <2>2, DeleteReactorStep
  <2>3. CASE WorkerCollect
    BY <2>3, WorkerCollectStep
  <2>4. CASE \E s \in Sockets : InitReactor(s)
    BY <2>4, InitReactorStep
  <2>5. CASE \E h \in Handlers, s \in Sockets : Create(h, s)
    BY <2>5, CreateStep
  <2>6. CASE \E h, g \in Handlers : HandOver(h, g)
    BY <2>6, HandOverStep
  <2>7. CASE \E h \in Handlers : Disown(h)
    BY <2>7, DisownStep
  <2>8. CASE \E h \in Handlers, m \in Requests : AddHandler(h, m) \/ RemoveHandler(h, m)
    BY <2>8, AddHandlerStep, RemoveHandlerStep
  <2>9. CASE \E u \in handlers : Upcall(u) \/ PipeUpcall(u)
    BY <2>9, UpcallStep, PipeUpcallStep
  <2>10. CASE \E u \in handlers, s \in Sockets : PipeRebuild(u, s)
    BY <2>10, PipeRebuildStep
  <2> QED
    BY <2>1, <2>2, <2>3, <2>4, <2>5, <2>6, <2>7, <2>8, <2>9, <2>10 DEF Next
<1> QED
  BY <1>1, InitIInv, PTL DEF Spec

\* The reactor's state is well typed; in particular no reference count, of which
\* upcalls, RemoveHandler and owners take one at a time, goes below zero.
THEOREM TypeCorrect == Spec => []TypeOK
<1>1. IInv => TypeOK
  BY DEF IInv
<1> QED
  BY <1>1, Invariance, PTL

\* The manager's table, the kernel's epoll set and the handlers agree on who is
\* registered for what, through every reuse of a socket number.
THEOREM RegistrationCorrect == Spec => []RegisteredOwnsSocket
<1>1. IInv => RegisteredOwnsSocket
  BY DEF IInv
<1> QED
  BY <1>1, Invariance, PTL

\* A handler's count is exactly what owner, manager and pending upcalls hold: no
\* upcall is made on a destroyed handler and none is leaked.
THEOREM RefsCorrect == Spec => []RefsExact
<1>1. IInv => RefsExact
  <2> SUFFICES ASSUME IInv, NEW h \in Everyone
               PROVE  refs[h] = (IF h \in owned \cup {Reactor} THEN 1 ELSE 0)
                                + Cardinality({s \in Sockets : handler[s] = h})
                                + Cardinality({u \in handlers : u[2] = h})
    BY DEF RefsExact
  <2> QED
    BY OneRegistration DEF IInv, Counts, Flag, Calls
<1> QED
  BY <1>1, Invariance, PTL
=============================================================================
