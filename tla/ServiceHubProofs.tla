-------------------------- MODULE ServiceHubProofs --------------------------
(***************************************************************************)
(* Proofs about the hub, its pipes and their hosts, for any services,      *)
(* connections and descriptors: PipesAgree, DescriptorsOwned and           *)
(* RightService of module ServiceHub.                                      *)
(***************************************************************************)
EXTENDS ServiceHub, FiniteSetTheorems, SequenceTheorems, WellFoundedInduction, TLAPS

Made    == 1..Len(conns)

\* The sockets that the handshakers of process p, and their upcalls, have.
Busy(p)  == hs[p].shaking \cup hs[p].carried \cup hs[p].out
Apart(p) == /\ hs[p].shaking \cap hs[p].carried = {}
            /\ hs[p].shaking \cap hs[p].out = {}
            /\ hs[p].carried \cap hs[p].out = {}
Hubbed   == Busy(Hub)

-----------------------------------------------------------------------------
(***************************************************************************)
(* Sockets on a pipe.                                                      *)
(***************************************************************************)
Carries(q) == {q[i].sock : i \in DOMAIN q} \ {NoSock}
Once(q)    == \A i, j \in DOMAIN q : q[i].sock = q[j].sock /\ q[i].sock # NoSock => i = j

Stages == {"queued", "sent", "flying", "landed", "acked"}

\* In a host, after the check in OnRecvFd.
Landed(k) == {x \in Socks : \E s \in Services : \E g \in got[s] : g.sock = x /\ g.pipe = k}

\* The sockets that pipe k has, by how far they have got.
Stage(n, k) ==
  CASE n = "queued" -> Carries(m_fdPackets[k])
    [] n = "sent"   -> Carries(sending[k])
    [] n = "flying" -> Carries(down[k])
    [] n = "landed" -> Landed(k)
    [] n = "acked"  -> Carries(acks[k])

\* A socket goes one way, once.
OneJourney ==
  /\ \A k \in Conns : /\ Once(m_fdPackets[k]) /\ Once(sending[k]) /\ Len(sending[k]) <= 1
                      /\ Once(down[k]) /\ Once(acks[k])
  /\ \A n, m \in Stages, k, j \in Conns :
       Stage(n, k) \cap Stage(m, j) # {} => n = m /\ k = j
  /\ \A s, t \in Services : \A g \in got[s], h \in got[t] : g.sock = h.sock => s = t /\ g = h

\* A connection of a client, out of the acceptor's hands, as its socket is named.
Handed(x) ==
  /\ x.conn \in Made \ Hubbed /\ ~conns[x.conn].ipc
  /\ x = [sockId |-> sockId[x.conn], conn |-> x.conn]

IsPipe(k, s) == k \in Made /\ conns[k] = [ipc |-> TRUE, id |-> s]

Travellers ==
  \A n \in Stages, k \in Conns : \A x \in Stage(n, k) :
    Handed(x) /\ k \notin Hubbed /\ IsPipe(k, conns[x.conn].id)

\* The sockets of clients that the hub has still to close.
ToClose == ToSet(m_expireSocks) \cup finiSocks

\* The hub's tables, and what OnTimer and Fini have taken from them.
HubTables ==
  /\ Apart(Hub) /\ Hubbed \subseteq Made
  /\ \A k \in Alive : k \in Made \ Hubbed /\ conns[k].ipc
  /\ IsInjective(m_expireSocks) /\ \A x \in ToClose : Handed(x)
  /\ DOMAIN m_allPipes \cap Forgotten = {} /\ timerPipes \cap finiPipes = {}
  /\ m_acceptor => finiSocks = {} /\ finiPipes = {}
  /\ ~m_acceptor => ToSet(m_expireSocks) = {} /\ DOMAIN m_allPipes = {}

\* Who speaks on a pipe, and what is registered for it.
Speakers ==
  /\ \A s \in Services : /\ m_connector[s] # 0 => IsPipe(m_connector[s], s)
                         /\ m_pipe[s] # 0 => IsPipe(m_pipe[s], s)
  /\ \A k \in Conns : \A i \in DOMAIN acks[k] : IsPipe(k, acks[k][i].id)

Registered ==
  /\ \A s \in DOMAIN m_serviceId2Pipe :
       /\ m_serviceId2Pipe[s] \in DOMAIN m_allPipes
       /\ m_allPipes[m_serviceId2Pipe[s]] = [pending |-> FALSE, serviceId |-> s]
       /\ conns[m_serviceId2Pipe[s]].id = s
  /\ \A k \in DOMAIN m_allPipes :
       \/ m_allPipes[k] = [pending |-> TRUE, serviceId |-> 0]
       \/ \E s \in DOMAIN m_serviceId2Pipe :
            m_serviceId2Pipe[s] = k /\ m_allPipes[k] = [pending |-> FALSE, serviceId |-> s]

\* A number stands for the connection that has been given it last.
Numbered ==
  /\ \A k \in Made : sockId[k] \in Fds
  /\ \A f \in Fds : fd[f] # 0 => fd[f] \in Made /\ sockId[fd[f]] = f

-----------------------------------------------------------------------------
(***************************************************************************)
(* What holds until a number is closed while its packet is under way.      *)
(***************************************************************************)
InHub  == Hubbed \cup Alive \cup {x.conn : x \in ToClose}
GotIn(s) == {g.socket : g \in got[s]}

HubOwns == \A k \in Conns : HubHas(k) <=> k \in InHub

\* What is under way on a pipe has not been acknowledged, and what a pipe that the
\* hub has forgotten can still send has not been closed.
Unpassed == {"queued", "sent"}

Waits ==
  /\ \A n \in Stages, k \in DOMAIN m_allPipes : Stage(n, k) \subseteq ToSet(m_expireSocks)
  /\ \A n \in Unpassed, k \in Forgotten : Stage(n, k) \subseteq ToClose

Passed ==
  /\ \A k \in Conns : \A i \in DOMAIN down[k] : down[k][i].socket = down[k][i].sock.conn
  /\ \A s \in Services : \A g \in got[s] : g.socket = g.sock.conn

HostTables ==
  \A s \in Services :
    /\ Apart(s) /\ GotIn(s) \cap Busy(s) = {}
    /\ open[s] = GotIn(s) \cup Busy(s)
    /\ \A k \in open[s] : k \in Made \ Hubbed /\ conns[k] = [ipc |-> FALSE, id |-> s]

Early == {"queued", "sent", "flying"}

NotYetOpen ==
  \A n \in Early, k \in Conns :
    \A x \in Stage(n, k), s \in Services : x.conn \notin open[s]

OnTime == HubOwns /\ Waits /\ Passed /\ HostTables /\ NotYetOpen

IInv == /\ TypeOK /\ OneJourney /\ Travellers /\ HubTables /\ Speakers
        /\ Registered /\ Numbered
        /\ ~late => OnTime
-----------------------------------------------------------------------------
(***************************************************************************)
(* Sequences of packets.                                                   *)
(***************************************************************************)
LEMMA CarriesAppend ==
  ASSUME NEW T, NEW q \in Seq(T), NEW e \in T, Once(q), e.sock \notin Carries(q)
  PROVE  /\ Append(q, e) \in Seq(T) /\ Once(Append(q, e))
         /\ Carries(Append(q, e)) = Carries(q) \cup ({e.sock} \ {NoSock})
<1>1. PICK r : r = Append(q, e)
    OBVIOUS
<1>2. PICK l \in Nat : l = Len(q)
    BY LenProperties
<1>3. /\ r \in Seq(T) /\ DOMAIN q = 1..l /\ DOMAIN r = 1..(l + 1)
      /\ \A i \in 1..l : r[i] = q[i]
      /\ r[l + 1] = e
    BY <1>1, <1>2, AppendProperties, LenProperties
<1>4. DOMAIN r = DOMAIN q \cup {l + 1} /\ l + 1 \notin DOMAIN q
    BY <1>3
<1>5. Carries(r) = Carries(q) \cup ({e.sock} \ {NoSock})
    BY <1>3, <1>4 DEF Carries
<1>6. Once(r)
  <2> SUFFICES ASSUME NEW i \in DOMAIN r, NEW j \in DOMAIN r,
                      r[i].sock = r[j].sock, r[i].sock # NoSock
               PROVE  i = j
      BY DEF Once
  <2>1. \A m \in DOMAIN q : r[m].sock # NoSock => r[m].sock \in Carries(q)
      BY <1>3 DEF Carries
  <2>2. CASE i \in DOMAIN q /\ j \in DOMAIN q
      BY <1>3, <2>2 DEF Once
  <2>3. CASE i = l + 1 \/ j = l + 1
      BY <1>3, <1>4, <2>1, <2>3
  <2> QED BY <1>4, <2>2, <2>3
<1> QED BY <1>1, <1>3, <1>5, <1>6

LEMMA CarriesTail ==
  ASSUME NEW T, NEW q \in Seq(T), q # <<>>, Once(q)
  PROVE  /\ Tail(q) \in Seq(T) /\ Once(Tail(q)) /\ Head(q) \in T
         /\ Head(q).sock \in Carries(q) \cup {NoSock}
         /\ Carries(Tail(q)) = Carries(q) \ {Head(q).sock}
         /\ 1 \in DOMAIN q /\ Head(q) = q[1]
         /\ {Tail(q)[i] : i \in DOMAIN Tail(q)} \subseteq {q[i] : i \in DOMAIN q}
<1>1. PICK r : r = Tail(q)
    OBVIOUS
<1>2. PICK l \in Nat \ {0} : l = Len(q)
    BY LenProperties, EmptySeq
<1>3. /\ r \in Seq(T) /\ Head(q) \in T /\ DOMAIN q = 1..l /\ Head(q) = q[1]
      /\ DOMAIN r = 1..(l - 1) /\ \A i \in 1..(l - 1) : r[i] = q[i + 1]
    BY <1>1, <1>2, HeadTailProperties, LenProperties
<1>4. /\ 1 \in DOMAIN q /\ \A i \in DOMAIN r : i + 1 \in DOMAIN q /\ i + 1 # 1
      /\ \A j \in DOMAIN q \ {1} : \E i \in DOMAIN r : j = i + 1
  <2>1. \A j \in DOMAIN q \ {1} : j - 1 \in DOMAIN r /\ j = (j - 1) + 1
      BY <1>2, <1>3
  <2> QED BY <1>2, <1>3, <2>1
<1>5. Once(r)
  <2> SUFFICES ASSUME NEW i \in DOMAIN r, NEW j \in DOMAIN r,
                      r[i].sock = r[j].sock, r[i].sock # NoSock
               PROVE  i = j
      BY DEF Once
  <2>1. i + 1 = j + 1
      BY <1>3, <1>4 DEF Once
  <2> QED BY <1>3, <2>1
<1>6. Head(q).sock \in Carries(q) \cup {NoSock}
    BY <1>3, <1>4 DEF Carries
<1>7. ASSUME NEW x PROVE x \in Carries(r) <=> x \in Carries(q) /\ x # Head(q).sock
  <2>1. ASSUME x \in Carries(r) PROVE x \in Carries(q) /\ x # Head(q).sock
    <3>1. PICK i \in DOMAIN r : x = r[i].sock /\ x # NoSock
        BY <2>1 DEF Carries
    <3>2. i + 1 \in DOMAIN q /\ i + 1 # 1 /\ x = q[i + 1].sock
        BY <1>3, <1>4, <3>1
    <3>3. x # q[1].sock
        BY <1>4, <3>1, <3>2 DEF Once
    <3> QED BY <1>3, <3>1, <3>2, <3>3 DEF Carries
  <2>2. ASSUME x \in Carries(q), x # Head(q).sock PROVE x \in Carries(r)
    <3>1. PICK j \in DOMAIN q : x = q[j].sock /\ x # NoSock
        BY <2>2 DEF Carries
    <3>2. PICK i \in DOMAIN r : j = i + 1
        BY <1>3, <1>4, <2>2, <3>1
    <3>3. x = r[i].sock
        BY <1>3, <3>1, <3>2
    <3> QED BY <3>1, <3>3 DEF Carries
  <2> QED BY <2>1, <2>2
<1>8. Carries(r) = Carries(q) \ {Head(q).sock}
    BY <1>7
<1>9. {r[i] : i \in DOMAIN r} \subseteq {q[i] : i \in DOMAIN q}
    BY <1>3, <1>4
<1> QED BY <1>1, <1>3, <1>4, <1>5, <1>6, <1>8, <1>9

LEMMA CarriesFew ==
  ASSUME NEW e
  PROVE  /\ Once(<<>>) /\ Carries(<<>>) = {}
         /\ Once(<<e>>) /\ Carries(<<e>>) = {e.sock} \ {NoSock}
BY DEF Once, Carries
-----------------------------------------------------------------------------
(***************************************************************************)
(* Handshakers.                                                            *)
(***************************************************************************)
Handshakers == [table : SUBSET Conns, shaking : SUBSET Conns,
                carried : SUBSET Conns, out : SUBSET Conns]

LEMMA ConnsType == Conns \subseteq Nat /\ Fds \subseteq Nat /\ 0 \notin Conns /\ 0 \notin Fds
BY HubAssumption DEF Conns, Fds

\* The handshakers of p are now those of h.
HsIs(p, h) == /\ hs' \in [Procs -> Handshakers] /\ hs'[p] = h
              /\ \A q \in Procs \ {p} : hs'[q] = hs[q]

LEMMA DoneHs ==
  ASSUME hs \in [Procs -> Handshakers], NEW p \in Procs, NEW k \in Conns, HandshakeDone(p, k)
  PROVE  HsIs(p, [table |-> hs[p].table, shaking |-> hs[p].shaking \ {k},
                  carried |-> hs[p].carried \cup {k}, out |-> hs[p].out])
BY DEF HandshakeDone, HsIs, Handshakers

LEMMA FailsHs ==
  ASSUME hs \in [Procs -> Handshakers], NEW p \in Procs, NEW k \in Conns, Fails(p, k)
  PROVE  HsIs(p, [table |-> hs[p].table \ {k}, shaking |-> hs[p].shaking \ {k},
                  carried |-> hs[p].carried, out |-> hs[p].out])
BY DEF Fails, HsIs, Handshakers

LEMMA PassesHs ==
  ASSUME hs \in [Procs -> Handshakers], NEW p \in Procs, NEW k \in Conns, NEW good,
         Passes(p, k, good)
  PROVE  HsIs(p, [table |-> IF p \in up THEN hs[p].table \ {k} ELSE hs[p].table,
                  shaking |-> hs[p].shaking, carried |-> hs[p].carried \ {k},
                  out |-> IF p \in up /\ k \in hs[p].table /\ good
                            THEN hs[p].out \cup {k} ELSE hs[p].out])
<1>1. CASE p \in up /\ k \in hs[p].table /\ good
    BY <1>1 DEF Passes, HsIs, Handshakers
<1>2. CASE p \in up /\ ~(k \in hs[p].table /\ good)
    BY <1>2 DEF Passes, HsIs, Handshakers
<1>3. CASE p \notin up
    BY <1>3 DEF Passes, HsIs, Handshakers
<1> QED BY <1>1, <1>2, <1>3

LEMMA FinishesHs ==
  ASSUME hs \in [Procs -> Handshakers], NEW p \in Procs, Finishes(p)
  PROVE  HsIs(p, [table |-> {}, shaking |-> hs[p].shaking \ hs[p].table,
                  carried |-> hs[p].carried, out |-> hs[p].out])
BY DEF Finishes, HsIs, Handshakers

LEMMA ShakesHs ==
  ASSUME hs \in [Procs -> Handshakers], NEW p \in Procs, NEW k \in Conns, hs' = Shakes(p, k)
  PROVE  HsIs(p, [table |-> hs[p].table \cup {k}, shaking |-> hs[p].shaking \cup {k},
                  carried |-> hs[p].carried, out |-> hs[p].out])
BY DEF Shakes, HsIs, Handshakers

LEMMA TakenHs ==
  ASSUME hs \in [Procs -> Handshakers], NEW p \in Procs, NEW k,
         hs' = [hs EXCEPT ![p].out = @ \ {k}]
  PROVE  HsIs(p, [table |-> hs[p].table, shaking |-> hs[p].shaking,
                  carried |-> hs[p].carried, out |-> hs[p].out \ {k}])
BY DEF HsIs, Handshakers
-----------------------------------------------------------------------------
(***************************************************************************)
(* Numbers and lists of sockets.                                           *)
(***************************************************************************)

\* The kernel finds a number if there is one.
LEMMA LeastFd == FreeFds # {} => Min(FreeFds) \in FreeFds
<1> SUFFICES ASSUME FreeFds # {} PROVE Min(FreeFds) \in FreeFds
    OBVIOUS
<1>0. FreeFds \subseteq Nat
    BY ConnsType DEF FreeFds
<1>1. PICK x \in FreeFds : \A y \in FreeFds : <<y, x>> \notin OpToRel(<, Nat)
    BY <1>0, WFMin, NatLessThanWellFounded, Zenon
<1>2. \A y \in FreeFds : y < x => <<y, x>> \in OpToRel(<, Nat)
    BY <1>0 DEF OpToRel
<1>3. \A y \in FreeFds : ~(y < x)
    BY <1>1, <1>2, Zenon
<1>4. \A y \in FreeFds : x =< y
    BY <1>0, <1>3
<1> QED BY <1>4 DEF Min

LEMMA ListAppend ==
  ASSUME NEW T, NEW q \in Seq(T), NEW e \in T, IsInjective(q), e \notin ToSet(q)
  PROVE  /\ Append(q, e) \in Seq(T) /\ IsInjective(Append(q, e))
         /\ ToSet(Append(q, e)) = ToSet(q) \cup {e}
<1>1. PICK r : r = Append(q, e)
    OBVIOUS
<1>2. PICK l \in Nat : l = Len(q)
    BY LenProperties
<1>3. /\ r \in Seq(T) /\ DOMAIN q = 1..l /\ DOMAIN r = 1..(l + 1)
      /\ \A i \in 1..l : r[i] = q[i]
      /\ r[l + 1] = e
    BY <1>1, <1>2, AppendProperties, LenProperties
<1>4. DOMAIN r = DOMAIN q \cup {l + 1} /\ l + 1 \notin DOMAIN q
    BY <1>3
<1>5. ToSet(r) = ToSet(q) \cup {e}
    BY <1>3, <1>4 DEF ToSet
<1>6. \A i \in DOMAIN q : q[i] # e
    BY DEF ToSet
<1>7. IsInjective(r)
  <2> SUFFICES ASSUME NEW i \in DOMAIN r, NEW j \in DOMAIN r, r[i] = r[j] PROVE i = j
      BY DEF IsInjective
  <2>1. CASE i \in DOMAIN q /\ j \in DOMAIN q
      BY <1>3, <2>1 DEF IsInjective
  <2>2. CASE i = l + 1 \/ j = l + 1
      BY <1>3, <1>4, <1>6, <2>2
  <2> QED BY <1>4, <2>1, <2>2
<1> QED BY <1>1, <1>3, <1>5, <1>7

\* The first n elements, and the rest.
LEMMA ListSplit ==
  ASSUME NEW T, NEW q \in Seq(T), IsInjective(q), NEW n \in 0..Len(q)
  PROVE  /\ SubSeq(q, n + 1, Len(q)) \in Seq(T) /\ IsInjective(SubSeq(q, n + 1, Len(q)))
         /\ ToSet(SubSeq(q, n + 1, Len(q))) = ToSet(q) \ ToSet(SubSeq(q, 1, n))
         /\ ToSet(SubSeq(q, 1, n)) \subseteq ToSet(q)
<1>1. PICK l \in Nat : l = Len(q) /\ DOMAIN q = 1..l /\ \A i \in 1..l : q[i] \in T
    BY LenProperties, ElementOfSeq
<1>2. PICK a : a = SubSeq(q, 1, n)
    OBVIOUS
<1>3. PICK b : b = SubSeq(q, n + 1, l)
    OBVIOUS
<1>4. n \in Nat /\ n <= l
    BY <1>1
<1>5. a \in Seq(T) /\ Len(a) = n /\ \A i \in 1..n : a[i] = q[i]
  <2>1. 1 \in Int /\ n \in Int /\ \A i \in 1..n : q[i] \in T
      BY <1>1, <1>4
  <2>2. /\ a \in Seq(T) /\ Len(a) = (IF 1 <= n THEN n - 1 + 1 ELSE 0)
        /\ \A i \in 1..(n - 1 + 1) : a[i] = q[1 + i - 1]
      BY <1>2, <2>1, SubSeqProperties
  <2>3. \A i \in 1..n : i \in 1..(n - 1 + 1) /\ 1 + i - 1 = i
      BY <1>4
  <2>4. Len(a) = n
      BY <1>4, <2>2
  <2> QED BY <2>2, <2>3, <2>4
<1>6. b \in Seq(T) /\ Len(b) = l - n /\ \A i \in 1..(l - n) : b[i] = q[n + i]
  <2>1. n + 1 \in Int /\ l \in Int /\ \A i \in (n + 1)..l : q[i] \in T
      BY <1>1, <1>4
  <2>2. /\ b \in Seq(T) /\ Len(b) = (IF n + 1 <= l THEN l - (n + 1) + 1 ELSE 0)
        /\ \A i \in 1..(l - (n + 1) + 1) : b[i] = q[n + 1 + i - 1]
      BY <1>3, <2>1, SubSeqProperties
  <2>3. \A i \in 1..(l - n) : i \in 1..(l - (n + 1) + 1) /\ n + 1 + i - 1 = n + i
      BY <1>1, <1>4
  <2>4. Len(b) = l - n
      BY <1>1, <1>4, <2>2
  <2> QED BY <2>2, <2>3, <2>4
<1>7. DOMAIN a = 1..n /\ DOMAIN b = 1..(l - n)
    BY <1>5, <1>6, LenProperties
<1>8. IsInjective(b)
  <2> SUFFICES ASSUME NEW i \in DOMAIN b, NEW j \in DOMAIN b, b[i] = b[j] PROVE i = j
      BY DEF IsInjective
  <2>1. n + i \in DOMAIN q /\ n + j \in DOMAIN q /\ q[n + i] = q[n + j]
      BY <1>1, <1>4, <1>6, <1>7
  <2>2. n + i = n + j
      BY <2>1 DEF IsInjective
  <2> QED BY <1>4, <1>7, <2>2
<1>9. ASSUME NEW x PROVE x \in ToSet(b) <=> x \in ToSet(q) /\ x \notin ToSet(a)
  <2>1. ASSUME x \in ToSet(b) PROVE x \in ToSet(q) /\ x \notin ToSet(a)
    <3>1. PICK i \in DOMAIN b : x = b[i]
        BY <2>1 DEF ToSet
    <3>2. n + i \in DOMAIN q /\ x = q[n + i] /\ n + i > n
        BY <1>1, <1>4, <1>6, <1>7, <3>1
    <3>3. ASSUME NEW j \in DOMAIN a, x = a[j] PROVE FALSE
      <4>1. j \in DOMAIN q /\ q[j] = x /\ j <= n /\ j \in Nat
          BY <1>1, <1>4, <1>5, <1>7, <3>3
      <4>2. j = n + i
          BY <3>2, <4>1 DEF IsInjective
      <4> QED BY <1>4, <3>2, <4>1, <4>2
    <3> QED BY <3>2, <3>3 DEF ToSet
  <2>2. ASSUME x \in ToSet(q), x \notin ToSet(a) PROVE x \in ToSet(b)
    <3>1. PICK j \in DOMAIN q : x = q[j]
        BY <2>2 DEF ToSet
    <3>2. ~(j \in 1..n)
        BY <1>5, <1>7, <2>2, <3>1 DEF ToSet
    <3>3. j - n \in DOMAIN b /\ n + (j - n) = j /\ j - n \in 1..(l - n)
        BY <1>1, <1>4, <1>7, <3>1, <3>2
    <3>4. b[j - n] = x
        BY <1>6, <3>1, <3>3
    <3> QED BY <3>3, <3>4 DEF ToSet
  <2> QED BY <2>1, <2>2
<1>10. ToSet(a) \subseteq ToSet(q)
    BY <1>1, <1>4, <1>5, <1>7 DEF ToSet
<1>11. ToSet(b) = ToSet(q) \ ToSet(a)
    BY <1>9
<1> QED BY <1>1, <1>2, <1>3, <1>6, <1>8, <1>10, <1>11

LEMMA ListRemove ==
  ASSUME NEW T, NEW q \in Seq(T), IsInjective(q), NEW i \in DOMAIN q
  PROVE  /\ RemoveAt(q, i) \in Seq(T) /\ IsInjective(RemoveAt(q, i))
         /\ ToSet(RemoveAt(q, i)) = ToSet(q) \ {q[i]}
<1>1. PICK l \in Nat : l = Len(q) /\ DOMAIN q = 1..l /\ \A j \in 1..l : q[j] \in T
    BY LenProperties, ElementOfSeq
<1>2. i \in Nat /\ 1 <= i /\ i <= l
    BY <1>1
<1>3. PICK a : a = SubSeq(q, 1, i - 1)
    OBVIOUS
<1>4. PICK b : b = SubSeq(q, i + 1, l)
    OBVIOUS
<1>5. a \in Seq(T) /\ Len(a) = i - 1 /\ \A j \in 1..(i - 1) : a[j] = q[j]
  <2>1. 1 \in Int /\ i - 1 \in Int /\ \A j \in 1..(i - 1) : q[j] \in T
      BY <1>1, <1>2
  <2>2. /\ a \in Seq(T) /\ Len(a) = (IF 1 <= i - 1 THEN (i - 1) - 1 + 1 ELSE 0)
        /\ \A j \in 1..((i - 1) - 1 + 1) : a[j] = q[1 + j - 1]
      BY <1>3, <2>1, SubSeqProperties
  <2>3. \A j \in 1..(i - 1) : j \in 1..((i - 1) - 1 + 1) /\ 1 + j - 1 = j
      BY <1>2
  <2>4. Len(a) = i - 1
      BY <1>2, <2>2
  <2> QED BY <2>2, <2>3, <2>4
<1>6. b \in Seq(T) /\ Len(b) = l - i /\ \A j \in 1..(l - i) : b[j] = q[i + j]
  <2>1. i + 1 \in Int /\ l \in Int /\ \A j \in (i + 1)..l : q[j] \in T
      BY <1>1, <1>2
  <2>2. /\ b \in Seq(T) /\ Len(b) = (IF i + 1 <= l THEN l - (i + 1) + 1 ELSE 0)
        /\ \A j \in 1..(l - (i + 1) + 1) : b[j] = q[i + 1 + j - 1]
      BY <1>4, <2>1, SubSeqProperties
  <2>3. \A j \in 1..(l - i) : j \in 1..(l - (i + 1) + 1) /\ i + 1 + j - 1 = i + j
      BY <1>1, <1>2
  <2>4. Len(b) = l - i
      BY <1>1, <1>2, <2>2
  <2> QED BY <2>2, <2>3, <2>4
<1>7. PICK r : r = a \o b
    OBVIOUS
<1>8. /\ r \in Seq(T) /\ Len(r) = (i - 1) + (l - i)
      /\ \A j \in 1..((i - 1) + (l - i)) :
           r[j] = IF j <= i - 1 THEN a[j] ELSE b[j - (i - 1)]
    BY <1>5, <1>6, <1>7, ConcatProperties
<1>9. DOMAIN r = 1..(l - 1)
    BY <1>1, <1>2, <1>8, LenProperties
<1>10. \A j \in 1..(l - 1) : r[j] = IF j < i THEN q[j] ELSE q[j + 1]
  <2> SUFFICES ASSUME NEW j \in 1..(l - 1) PROVE r[j] = IF j < i THEN q[j] ELSE q[j + 1]
      OBVIOUS
  <2>0. j \in 1..((i - 1) + (l - i))
      BY <1>1, <1>2
  <2>1. r[j] = IF j <= i - 1 THEN a[j] ELSE b[j - (i - 1)]
      BY <1>8, <2>0
  <2>2. CASE j < i
      BY <1>1, <1>2, <1>5, <2>1, <2>2
  <2>3. CASE ~(j < i)
    <3>1. j - (i - 1) \in 1..(l - i) /\ i + (j - (i - 1)) = j + 1 /\ ~(j <= i - 1)
        BY <1>1, <1>2, <2>3
    <3>2. b[j - (i - 1)] = q[i + (j - (i - 1))]
        BY <1>6, <3>1
    <3> QED BY <2>1, <2>3, <3>1, <3>2
  <2> QED BY <2>2, <2>3
<1>11. IsInjective(r)
  <2> SUFFICES ASSUME NEW j \in DOMAIN r, NEW m \in DOMAIN r, r[j] = r[m] PROVE j = m
      BY DEF IsInjective
  <2>1. PICK j1 \in DOMAIN q : r[j] = q[j1] /\ j1 = IF j < i THEN j ELSE j + 1
      BY <1>1, <1>2, <1>9, <1>10
  <2>2. PICK m1 \in DOMAIN q : r[m] = q[m1] /\ m1 = IF m < i THEN m ELSE m + 1
      BY <1>1, <1>2, <1>9, <1>10
  <2>3. j1 = m1
      BY <2>1, <2>2 DEF IsInjective
  <2> QED BY <1>1, <1>2, <1>9, <2>1, <2>2, <2>3
<1>12. ASSUME NEW x PROVE x \in ToSet(r) <=> x \in ToSet(q) /\ x # q[i]
  <2>1. ASSUME x \in ToSet(r) PROVE x \in ToSet(q) /\ x # q[i]
    <3>1. PICK j \in DOMAIN r : x = r[j]
        BY <2>1 DEF ToSet
    <3>2. PICK j1 \in DOMAIN q : x = q[j1] /\ j1 # i
        BY <1>1, <1>2, <1>9, <1>10, <3>1
    <3> QED BY <3>2 DEF ToSet, IsInjective
  <2>2. ASSUME x \in ToSet(q), x # q[i] PROVE x \in ToSet(r)
    <3>1. PICK j \in DOMAIN q : x = q[j] /\ j # i
        BY <2>2 DEF ToSet
    <3>2. CASE j < i
      <4>1. j \in DOMAIN r /\ r[j] = x
          BY <1>1, <1>2, <1>9, <1>10, <3>1, <3>2
      <4> QED BY <4>1 DEF ToSet
    <3>3. CASE ~(j < i)
      <4>1. j - 1 \in DOMAIN r /\ ~(j - 1 < i) /\ (j - 1) + 1 = j
          BY <1>1, <1>2, <1>9, <3>1, <3>3
      <4>2. r[j - 1] = x
          BY <1>9, <1>10, <3>1, <4>1
      <4> QED BY <4>1, <4>2 DEF ToSet
    <3> QED BY <3>2, <3>3
  <2> QED BY <2>1, <2>2
<1>13. ToSet(r) = ToSet(q) \ {q[i]}
    BY <1>12
<1>14. RemoveAt(q, i) = r
    BY <1>1, <1>3, <1>4, <1>7 DEF RemoveAt
<1> QED BY <1>8, <1>11, <1>13, <1>14
-----------------------------------------------------------------------------
(***************************************************************************)
(* The steps, grouped by what they do to the sockets.                      *)
(***************************************************************************)

\* A step of the handshakers of process p closes the sockets in C.
LetsGo(p, C) ==
  /\ UNCHANGED <<conns, sockId, hubVars, pipeVars, hostVars, late>>
  /\ hs' \in [Procs -> Handshakers] /\ \A q \in Procs \ {p} : hs'[q] = hs[q]
  /\ up' \subseteq up /\ CloseAt(p, C)
  /\ Apart(p) => C \subseteq Busy(p) /\ Apart(p)' /\ Busy(p)' = Busy(p) \ C

Lets == \E p \in Procs, C \in SUBSET Conns : LetsGo(p, C)

\* The hub forgets the pipes in K, deletes those in D and closes the sockets in S.
Drop(K, D, S) ==
  /\ D \subseteq Alive /\ S \subseteq ToClose
  /\ DOMAIN m_allPipes' = DOMAIN m_allPipes \ K
  /\ \A k \in DOMAIN m_allPipes' : m_allPipes'[k] = m_allPipes[k]
  /\ DOMAIN m_serviceId2Pipe' = {s \in DOMAIN m_serviceId2Pipe : m_serviceId2Pipe[s] \notin K}
  /\ \A s \in DOMAIN m_serviceId2Pipe' : m_serviceId2Pipe'[s] = m_serviceId2Pipe[s]
  /\ acks' = [k \in Conns |-> IF k \in K THEN <<>> ELSE acks[k]]
  /\ m_fdPackets' = [k \in Conns |-> IF k \in D THEN <<>> ELSE m_fdPackets[k]]
  /\ sending' = [k \in Conns |-> IF k \in D THEN <<>> ELSE sending[k]]
  /\ Alive' = Alive \ D /\ ToClose' = ToClose \ S
  /\ DOMAIN m_allPipes' # {} => ToSet(m_expireSocks') = ToSet(m_expireSocks) \ S
  /\ CloseFds(Numbers(D) \cup {x.sockId : x \in S})
  /\ ~late' => /\ ~late
               /\ \A x \in S : /\ \A k \in DOMAIN m_allPipes \ K : ~InPipe(k, x)
                               /\ \A k \in Forgotten' : ~Unsent(k, x)
  /\ UNCHANGED <<conns, sockId, open, hs, up, down, hostVars>>

\* What OnTimer and Fini leave for later is in order.
LeftInOrder ==
  /\ m_expireSocks \in Seq(Socks) /\ IsInjective(m_expireSocks)
  /\ timerPipes \subseteq Conns /\ finiSocks \subseteq Socks /\ finiPipes \subseteq Conns
  /\ DOMAIN m_allPipes \cap Forgotten = {} /\ timerPipes \cap finiPipes = {}
  /\ m_acceptor => finiSocks = {} /\ finiPipes = {}
  /\ ~m_acceptor => ToSet(m_expireSocks) = {} /\ DOMAIN m_allPipes = {}
  /\ m_acceptor \in BOOLEAN /\ late \in BOOLEAN

Drops ==
  /\ LeftInOrder'
  /\ \E K \in SUBSET DOMAIN m_allPipes, D \in SUBSET Alive, S \in SUBSET ToClose :
       Drop(K, D, S)

\* A host connects, says something on its pipe, or nothing comes of its connector.
Talks(s) ==
  \/ OnConnectOk(s) \/ OnConnectError(s) \/ Heartbeat(s)

\* A host leaves its pipe.
Leaves(s) == HostOnClose(s) \/ HostFini(s)

Enters ==
  \E x \in [ipc : BOOLEAN, id : Services], ok \in BOOLEAN :
    /\ OnInput(x, ok) /\ UNCHANGED <<m_host, m_pipe, got>>
    /\ \/ UNCHANGED m_connector
       \/ /\ Accepts(ok) /\ x.ipc
          /\ m_connector' = [m_connector EXCEPT ![x.id] = Len(conns) + 1]

LEMMA CloseNone ==
  ASSUME TypeOK, NEW p \in Procs, UNCHANGED <<fd, open>>
  PROVE  CloseAt(p, {})
<1>1. fd = [f \in Fds |-> IF f \in Numbers({}) THEN 0 ELSE fd[f]]
    BY DEF TypeOK, Numbers
<1>2. p # Hub => p \in Services
    BY DEF Procs
<1>3. p # Hub => open = [open EXCEPT ![p] = @ \ {}]
    BY <1>2 DEF TypeOK
<1> QED BY <1>1, <1>3 DEF CloseAt, CloseFds

LEMMA HandshakeSteps ==
  ASSUME TypeOK, NEW p \in Procs, NEW k \in Conns, NEW good \in BOOLEAN,
         HandshakeDone(p, k) \/ Fails(p, k) \/ Passes(p, k, good)
  PROVE  Lets
<1>0. hs \in [Procs -> Handshakers]
    BY DEF TypeOK, Handshakers
<1>1. CASE HandshakeDone(p, k)
  <2>1. HsIs(p, [table |-> hs[p].table, shaking |-> hs[p].shaking \ {k},
                 carried |-> hs[p].carried \cup {k}, out |-> hs[p].out])
      BY <1>0, <1>1, DoneHs
  <2>2. k \in hs[p].shaking
      BY <1>1 DEF HandshakeDone
  <2>3. Apart(p) => {} \subseteq Busy(p) /\ Apart(p)' /\ Busy(p)' = Busy(p) \ {}
      BY <2>1, <2>2 DEF HsIs, Apart, Busy
  <2>4. CloseAt(p, {})
      BY <1>1, CloseNone DEF HandshakeDone, sockVars
  <2>5. /\ UNCHANGED <<conns, sockId, hubVars, pipeVars, hostVars, late>>
        /\ up' \subseteq up
      BY <1>1 DEF HandshakeDone, sockVars
  <2>6. LetsGo(p, {})
      BY <2>1, <2>3, <2>4, <2>5 DEF LetsGo, HsIs
  <2> QED BY <2>6 DEF Lets
<1>2. CASE Fails(p, k)
  <2>1. HsIs(p, [table |-> hs[p].table \ {k}, shaking |-> hs[p].shaking \ {k},
                 carried |-> hs[p].carried, out |-> hs[p].out])
      BY <1>0, <1>2, FailsHs
  <2>2. k \in hs[p].shaking
      BY <1>2 DEF Fails
  <2>3. Apart(p) => {k} \subseteq Busy(p) /\ Apart(p)' /\ Busy(p)' = Busy(p) \ {k}
      BY <2>1, <2>2 DEF HsIs, Apart, Busy
  <2>5. /\ UNCHANGED <<conns, sockId, hubVars, pipeVars, hostVars, late>>
        /\ up' \subseteq up /\ CloseAt(p, {k})
      BY <1>2 DEF Fails
  <2>6. LetsGo(p, {k})
      BY <2>1, <2>3, <2>5 DEF LetsGo, HsIs
  <2> QED BY <2>6 DEF Lets
<1>3. CASE Passes(p, k, good)
  <2> DEFINE ok == p \in up /\ k \in hs[p].table /\ good
  <2>1. HsIs(p, [table |-> IF p \in up THEN hs[p].table \ {k} ELSE hs[p].table,
                 shaking |-> hs[p].shaking, carried |-> hs[p].carried \ {k},
                 out |-> IF ok THEN hs[p].out \cup {k} ELSE hs[p].out])
      BY <1>0, <1>3, PassesHs
  <2>2. k \in hs[p].carried
      BY <1>3 DEF Passes
  <2>3. CASE ok
    <3>1. Apart(p) => {} \subseteq Busy(p) /\ Apart(p)' /\ Busy(p)' = Busy(p) \ {}
        BY <2>1, <2>2, <2>3 DEF HsIs, Apart, Busy
    <3>2. CloseAt(p, {})
        BY <1>3, <2>3, CloseNone DEF Passes
    <3>3. /\ UNCHANGED <<conns, sockId, hubVars, pipeVars, hostVars, late>>
          /\ up' \subseteq up
        BY <1>3 DEF Passes
    <3>4. LetsGo(p, {})
        BY <2>1, <3>1, <3>2, <3>3 DEF LetsGo, HsIs
    <3> QED BY <3>4 DEF Lets
  <2>4. CASE ~ok
    <3>1. Apart(p) => {k} \subseteq Busy(p) /\ Apart(p)' /\ Busy(p)' = Busy(p) \ {k}
        BY <2>1, <2>2, <2>4 DEF HsIs, Apart, Busy
    <3>2. CloseAt(p, {k})
        BY <1>3, <2>4 DEF Passes
    <3>3. /\ UNCHANGED <<conns, sockId, hubVars, pipeVars, hostVars, late>>
          /\ up' \subseteq up
        BY <1>3 DEF Passes
    <3>4. LetsGo(p, {k})
        BY <2>1, <3>1, <3>2, <3>3 DEF LetsGo, HsIs
    <3> QED BY <3>4 DEF Lets
  <2> QED BY <2>3, <2>4
<1> QED BY <1>1, <1>2, <1>3

LEMMA FinishSteps ==
  ASSUME TypeOK, NEW p \in Procs, Finishes(p),
         UNCHANGED <<conns, sockId, hubVars, pipeVars, hostVars, late>>
  PROVE  Lets
<1>0. hs \in [Procs -> Handshakers]
    BY DEF TypeOK, Handshakers
<1>1. HsIs(p, [table |-> {}, shaking |-> hs[p].shaking \ hs[p].table,
               carried |-> hs[p].carried, out |-> hs[p].out])
    BY <1>0, FinishesHs
<1>2. PICK C \in SUBSET Conns : C = hs[p].table \cap hs[p].shaking
    BY <1>0 DEF Handshakers
<1>3. Apart(p) => C \subseteq Busy(p) /\ Apart(p)' /\ Busy(p)' = Busy(p) \ C
    BY <1>1, <1>2 DEF HsIs, Apart, Busy
<1>4. up' \subseteq up /\ CloseAt(p, C)
    BY <1>2 DEF Finishes
<1>5. LetsGo(p, C)
    BY <1>1, <1>3, <1>4 DEF LetsGo, HsIs
<1> QED BY <1>5 DEF Lets

LEMMA ForgetsStep ==
  ASSUME NEW K, Forgets(K)
  PROVE  /\ DOMAIN m_allPipes' = DOMAIN m_allPipes \ K
         /\ \A k \in DOMAIN m_allPipes' : m_allPipes'[k] = m_allPipes[k]
         /\ DOMAIN m_serviceId2Pipe' =
              {s \in DOMAIN m_serviceId2Pipe : m_serviceId2Pipe[s] \notin K}
         /\ \A s \in DOMAIN m_serviceId2Pipe' : m_serviceId2Pipe'[s] = m_serviceId2Pipe[s]
         /\ acks' = [k \in Conns |-> IF k \in K THEN <<>> ELSE acks[k]]
BY DEF Forgets, Without

LEMMA DeleteStep ==
  ASSUME TypeOK, NEW k \in Conns, DeletePipe(k)
  PROVE  /\ m_fdPackets' = [j \in Conns |-> IF j \in {k} THEN <<>> ELSE m_fdPackets[j]]
         /\ sending' = [j \in Conns |-> IF j \in {k} THEN <<>> ELSE sending[j]]
         /\ CloseFds(Numbers({k}) \cup {x.sockId : x \in {}})
<1>1. Numbers({k}) \cup {x.sockId : x \in {}} = {sockId[k]}
    BY DEF Numbers
<1>2. /\ m_fdPackets' = [j \in Conns |-> IF j \in {k} THEN <<>> ELSE m_fdPackets[j]]
      /\ sending' = [j \in Conns |-> IF j \in {k} THEN <<>> ELSE sending[j]]
    BY DEF DeletePipe, TypeOK
<1> QED BY <1>1, <1>2 DEF DeletePipe

\* Nothing is forgotten, or nothing deleted or closed.
LEMMA NoneForgotten ==
  ASSUME TypeOK, UNCHANGED <<m_allPipes, m_serviceId2Pipe, acks>>
  PROVE  /\ DOMAIN m_allPipes' = DOMAIN m_allPipes \ {}
         /\ \A k \in DOMAIN m_allPipes' : m_allPipes'[k] = m_allPipes[k]
         /\ DOMAIN m_serviceId2Pipe' =
              {s \in DOMAIN m_serviceId2Pipe : m_serviceId2Pipe[s] \notin {}}
         /\ \A s \in DOMAIN m_serviceId2Pipe' : m_serviceId2Pipe'[s] = m_serviceId2Pipe[s]
         /\ acks' = [k \in Conns |-> IF k \in {} THEN <<>> ELSE acks[k]]
BY DEF TypeOK

LEMMA NoneDeleted ==
  ASSUME TypeOK, UNCHANGED <<m_fdPackets, sending>>
  PROVE  /\ m_fdPackets' = [j \in Conns |-> IF j \in {} THEN <<>> ELSE m_fdPackets[j]]
         /\ sending' = [j \in Conns |-> IF j \in {} THEN <<>> ELSE sending[j]]
BY DEF TypeOK

\* OnClose, and what OnTimer and Fini do after the unlock.
LEMMA DeleteSteps ==
  ASSUME TypeOK, HubTables, NEW k \in Conns, OnClose(k) \/ TimerDeletes(k) \/ FiniDeletes(k)
  PROVE  Drops
<1>0. /\ m_expireSocks \in Seq(Socks) /\ IsInjective(m_expireSocks) /\ m_acceptor \in BOOLEAN
      /\ late \in BOOLEAN
      /\ timerPipes \subseteq Conns /\ finiSocks \subseteq Socks /\ finiPipes \subseteq Conns
      /\ DOMAIN m_allPipes \cap Forgotten = {} /\ timerPipes \cap finiPipes = {}
      /\ m_acceptor => finiSocks = {} /\ finiPipes = {}
      /\ ~m_acceptor => ToSet(m_expireSocks) = {} /\ DOMAIN m_allPipes = {}
    BY DEF TypeOK, HubTables
<1>1. /\ m_expireSocks' = m_expireSocks /\ finiSocks' = finiSocks /\ late' = late
      /\ m_acceptor' = m_acceptor
      /\ UNCHANGED <<conns, sockId, open, hs, up, down, hostVars>>
    BY DEF OnClose, TimerDeletes, FiniDeletes, leftVars
<1>2. DeletePipe(k)
    BY DEF OnClose, TimerDeletes, FiniDeletes
<1>3. /\ m_fdPackets' = [j \in Conns |-> IF j \in {k} THEN <<>> ELSE m_fdPackets[j]]
      /\ sending' = [j \in Conns |-> IF j \in {k} THEN <<>> ELSE sending[j]]
      /\ CloseFds(Numbers({k}) \cup {x.sockId : x \in {}})
    BY <1>2, DeleteStep
<1>4. ToClose' = ToClose \ {} /\ ToSet(m_expireSocks') = ToSet(m_expireSocks) \ {}
    BY <1>1 DEF ToClose
<1>5. CASE OnClose(k)
  <2>1. k \in DOMAIN m_allPipes /\ Forgets({k}) /\ UNCHANGED leftVars
      BY <1>5 DEF OnClose
  <2>2. /\ DOMAIN m_allPipes' = DOMAIN m_allPipes \ {k}
        /\ \A j \in DOMAIN m_allPipes' : m_allPipes'[j] = m_allPipes[j]
        /\ DOMAIN m_serviceId2Pipe' =
             {s \in DOMAIN m_serviceId2Pipe : m_serviceId2Pipe[s] \notin {k}}
        /\ \A s \in DOMAIN m_serviceId2Pipe' : m_serviceId2Pipe'[s] = m_serviceId2Pipe[s]
        /\ acks' = [j \in Conns |-> IF j \in {k} THEN <<>> ELSE acks[j]]
      BY <2>1, ForgetsStep
  <2>3. Alive' = Alive \ {k} /\ {k} \subseteq Alive /\ Forgotten' = Forgotten
      BY <1>0, <2>1, <2>2 DEF Alive, Forgotten, leftVars
  <2>4. Drop({k}, {k}, {})
      BY <1>1, <1>3, <1>4, <2>2, <2>3 DEF Drop
  <2>5. LeftInOrder'
      BY <1>0, <1>1, <2>1, <2>2, <2>3 DEF LeftInOrder, leftVars
  <2> QED BY <2>1, <2>3, <2>4, <2>5 DEF Drops
<1>6. CASE TimerDeletes(k) \/ FiniDeletes(k)
  <2>1. /\ UNCHANGED <<m_allPipes, m_serviceId2Pipe, acks>> /\ k \in Forgotten
        /\ timerPipes' \subseteq timerPipes /\ finiPipes' \subseteq finiPipes
        /\ Forgotten' = Forgotten \ {k}
      BY <1>0, <1>6 DEF TimerDeletes, FiniDeletes, Forgotten
  <2>2. /\ DOMAIN m_allPipes' = DOMAIN m_allPipes \ {}
        /\ \A j \in DOMAIN m_allPipes' : m_allPipes'[j] = m_allPipes[j]
        /\ DOMAIN m_serviceId2Pipe' =
             {s \in DOMAIN m_serviceId2Pipe : m_serviceId2Pipe[s] \notin {}}
        /\ \A s \in DOMAIN m_serviceId2Pipe' : m_serviceId2Pipe'[s] = m_serviceId2Pipe[s]
        /\ acks' = [j \in Conns |-> IF j \in {} THEN <<>> ELSE acks[j]]
      BY <2>1, NoneForgotten
  <2>3. Alive' = Alive \ {k} /\ {k} \subseteq Alive
      BY <1>0, <2>1 DEF Alive
  <2>4. Drop({}, {k}, {})
      BY <1>1, <1>3, <1>4, <2>2, <2>3 DEF Drop
  <2>5. LeftInOrder'
      BY <1>0, <1>1, <2>1 DEF LeftInOrder
  <2> QED BY <2>3, <2>4, <2>5 DEF Drops
<1> QED BY <1>5, <1>6

\* OnTimer and Fini up to the unlock, and the sockets that Fini closes.
LEMMA DropSteps ==
  ASSUME TypeOK, HubTables, NEW n, NEW K \in SUBSET DOMAIN m_allPipes, NEW y,
         OnTimer(n, K) \/ HubFini \/ FiniCloses(y)
  PROVE  Drops
<1>0. /\ m_expireSocks \in Seq(Socks) /\ IsInjective(m_expireSocks) /\ m_acceptor \in BOOLEAN
      /\ late \in BOOLEAN /\ DOMAIN m_allPipes \subseteq Conns
      /\ timerPipes \subseteq Conns /\ finiSocks \subseteq Socks /\ finiPipes \subseteq Conns
      /\ DOMAIN m_allPipes \cap Forgotten = {} /\ timerPipes \cap finiPipes = {}
      /\ m_acceptor => finiSocks = {} /\ finiPipes = {}
      /\ ~m_acceptor => ToSet(m_expireSocks) = {} /\ DOMAIN m_allPipes = {}
    BY DEF TypeOK, HubTables
<1>1. /\ UNCHANGED <<conns, sockId, open, hs, up, down, hostVars, m_fdPackets, sending>>
    BY DEF OnTimer, HubFini, FiniCloses, sockVars, pipeVars
<1>2. /\ m_fdPackets' = [j \in Conns |-> IF j \in {} THEN <<>> ELSE m_fdPackets[j]]
      /\ sending' = [j \in Conns |-> IF j \in {} THEN <<>> ELSE sending[j]]
    BY <1>1, NoneDeleted
<1>3. \A S : Numbers({}) \cup {x.sockId : x \in S} = {x.sockId : x \in S}
    BY DEF Numbers
<1>4. CASE OnTimer(n, K)
  <2>1. PICK S : S = ToSet(SubSeq(m_expireSocks, 1, n))
      OBVIOUS
  <2>2. /\ n \in 0..Len(m_expireSocks) /\ m_acceptor /\ m_acceptor' = m_acceptor
        /\ m_expireSocks' = SubSeq(m_expireSocks, n + 1, Len(m_expireSocks))
        /\ timerPipes = {} /\ timerPipes' = K /\ UNCHANGED <<finiSocks, finiPipes>>
        /\ Forgets(K)
      BY <1>4 DEF OnTimer
  <2>3. /\ m_expireSocks' \in Seq(Socks) /\ IsInjective(m_expireSocks')
        /\ ToSet(m_expireSocks') = ToSet(m_expireSocks) \ S
        /\ S \subseteq ToSet(m_expireSocks)
      BY <1>0, <2>1, <2>2, ListSplit
  <2>4. /\ DOMAIN m_allPipes' = DOMAIN m_allPipes \ K
        /\ \A k \in DOMAIN m_allPipes' : m_allPipes'[k] = m_allPipes[k]
        /\ DOMAIN m_serviceId2Pipe' =
             {s \in DOMAIN m_serviceId2Pipe : m_serviceId2Pipe[s] \notin K}
        /\ \A s \in DOMAIN m_serviceId2Pipe' : m_serviceId2Pipe'[s] = m_serviceId2Pipe[s]
        /\ acks' = [k \in Conns |-> IF k \in K THEN <<>> ELSE acks[k]]
      BY <2>2, ForgetsStep
  <2>5. finiSocks = {} /\ finiPipes = {} /\ Forgotten = {} /\ Forgotten' = K
      BY <1>0, <2>2 DEF Forgotten
  <2>6. /\ Alive' = Alive \ {} /\ ToClose' = ToClose \ S /\ S \subseteq ToClose
      BY <2>2, <2>3, <2>4, <2>5 DEF Alive, ToClose
  <2>7. CloseFds(Numbers({}) \cup {x.sockId : x \in S})
    <3>1. CloseFds({x.sockId : x \in S})
        BY <1>4, <2>1 DEF OnTimer
    <3> QED BY <1>3, <3>1
  <2>8. late' = (late \/ \E x \in S : \/ \E k \in K : Unsent(k, x)
                                      \/ \E k \in DOMAIN m_allPipes \ K : InPipe(k, x))
      BY <1>4, <2>1 DEF OnTimer
  <2>9. /\ late' \in BOOLEAN
        /\ ~late' => /\ ~late
                     /\ \A x \in S : /\ \A k \in DOMAIN m_allPipes \ K : ~InPipe(k, x)
                                     /\ \A k \in K : ~Unsent(k, x)
      BY <2>8, Zenon
  <2>10. Drop(K, {}, S)
      BY <1>1, <1>2, <2>3, <2>4, <2>5, <2>6, <2>7, <2>9 DEF Drop
  <2>11. LeftInOrder'
      BY <1>0, <2>2, <2>3, <2>4, <2>5, <2>9 DEF LeftInOrder
  <2> QED BY <2>6, <2>10, <2>11 DEF Drops
<1>5. CASE HubFini
  <2>1. PICK D : D = DOMAIN m_allPipes
      OBVIOUS
  <2>2. /\ m_acceptor /\ m_acceptor' = FALSE /\ late' = late
        /\ finiSocks' = ToSet(m_expireSocks) /\ m_expireSocks' = <<>>
        /\ finiPipes' = D /\ Forgets(D) /\ UNCHANGED <<timerPipes, fd>>
      BY <1>5, <2>1 DEF HubFini, sockVars
  <2>3. /\ DOMAIN m_allPipes' = DOMAIN m_allPipes \ D
        /\ \A k \in DOMAIN m_allPipes' : m_allPipes'[k] = m_allPipes[k]
        /\ DOMAIN m_serviceId2Pipe' =
             {s \in DOMAIN m_serviceId2Pipe : m_serviceId2Pipe[s] \notin D}
        /\ \A s \in DOMAIN m_serviceId2Pipe' : m_serviceId2Pipe'[s] = m_serviceId2Pipe[s]
        /\ acks' = [k \in Conns |-> IF k \in D THEN <<>> ELSE acks[k]]
      BY <2>2, ForgetsStep
  <2>4. /\ m_expireSocks' \in Seq(Socks) /\ IsInjective(m_expireSocks')
        /\ ToSet(m_expireSocks') = {}
      BY <2>2 DEF IsInjective, ToSet
  <2>5. ToSet(m_expireSocks) \subseteq Socks
      BY <1>0, ElementOfSeq, LenProperties DEF ToSet
  <2>6. /\ Forgotten' = timerPipes \cup D /\ Alive' = Alive \ {} /\ ToClose' = ToClose \ {}
        /\ DOMAIN m_allPipes' = {}
      BY <1>0, <2>1, <2>2, <2>3, <2>4 DEF Alive, Forgotten, ToClose
  <2>7. CloseFds(Numbers({}) \cup {x.sockId : x \in {}})
      BY <2>2 DEF CloseFds, Numbers, TypeOK
  <2>8. Drop(D, {}, {})
      BY <1>1, <1>2, <2>2, <2>3, <2>6, <2>7 DEF Drop
  <2>9. timerPipes \cap D = {}
      BY <1>0, <2>1 DEF Forgotten
  <2>10. LeftInOrder'
      BY <1>0, <2>1, <2>2, <2>4, <2>5, <2>6, <2>9 DEF LeftInOrder
  <2> QED BY <2>1, <2>8, <2>10 DEF Drops
<1>6. CASE FiniCloses(y)
  <2>1. /\ y \in finiSocks /\ finiSocks' = finiSocks \ {y}
        /\ UNCHANGED <<m_acceptor, m_expireSocks, m_allPipes, m_serviceId2Pipe, timerPipes,
                       finiPipes, acks>>
      BY <1>6 DEF FiniCloses, pipeVars
  <2>2. /\ DOMAIN m_allPipes' = DOMAIN m_allPipes \ {}
        /\ \A k \in DOMAIN m_allPipes' : m_allPipes'[k] = m_allPipes[k]
        /\ DOMAIN m_serviceId2Pipe' =
             {s \in DOMAIN m_serviceId2Pipe : m_serviceId2Pipe[s] \notin {}}
        /\ \A s \in DOMAIN m_serviceId2Pipe' : m_serviceId2Pipe'[s] = m_serviceId2Pipe[s]
        /\ acks' = [k \in Conns |-> IF k \in {} THEN <<>> ELSE acks[k]]
      BY <2>1, NoneForgotten
  <2>3. ~m_acceptor /\ ToSet(m_expireSocks) = {} /\ DOMAIN m_allPipes = {}
      BY <1>0, <2>1
  <2>4. /\ Forgotten' = Forgotten /\ Alive' = Alive \ {} /\ ToClose' = ToClose \ {y}
        /\ {y} \subseteq ToClose
      BY <2>1, <2>3 DEF Alive, Forgotten, ToClose
  <2>5. CloseFds(Numbers({}) \cup {x.sockId : x \in {y}})
    <3>1. {x.sockId : x \in {y}} = {y.sockId}
        OBVIOUS
    <3>2. CloseFds({x.sockId : x \in {y}})
        BY <1>6, <3>1 DEF FiniCloses
    <3> QED BY <1>3, <3>2
  <2>6. late' = (late \/ \E k \in Forgotten : Unsent(k, y))
      BY <1>6 DEF FiniCloses
  <2>7. late' \in BOOLEAN /\ (~late' => ~late /\ \A k \in Forgotten : ~Unsent(k, y))
      BY <2>6, Zenon
  <2>8. Drop({}, {}, {y})
      BY <1>1, <1>2, <2>1, <2>2, <2>3, <2>4, <2>5, <2>7 DEF Drop
  <2>9. LeftInOrder'
      BY <1>0, <2>1, <2>4, <2>7 DEF LeftInOrder
  <2> QED BY <2>4, <2>8, <2>9 DEF Drops
<1> QED BY <1>4, <1>5, <1>6

LEMMA EnterSteps ==
  ASSUME TypeOK, NEW s \in Services, NEW ok \in BOOLEAN,
         ClientConnects(s, ok) \/ HostConnects(s, ok)
  PROVE  Enters
<1>1. CASE ClientConnects(s, ok)
    BY <1>1 DEF ClientConnects, Enters, hostVars
<1>2. CASE HostConnects(s, ok)
  <2>1. PICK x \in [ipc : BOOLEAN, id : Services] : x = [ipc |-> TRUE, id |-> s]
      OBVIOUS
  <2>2. /\ OnInput(x, ok) /\ UNCHANGED <<m_host, m_pipe, got>> /\ m_connector[s] = 0
        /\ m_connector' = [m_connector EXCEPT ![s] = IF Accepts(ok) THEN Len(conns) + 1 ELSE 0]
      BY <1>2, <2>1 DEF HostConnects
  <2>3. x.ipc /\ x.id = s
      BY <2>1
  <2>4. CASE Accepts(ok)
      BY <2>2, <2>3, <2>4 DEF Enters
  <2>5. CASE ~Accepts(ok)
    <3>1. m_connector' = m_connector
        BY <2>2, <2>5 DEF TypeOK
    <3> QED BY <2>2, <3>1 DEF Enters
  <2> QED BY <2>4, <2>5
<1> QED BY <1>1, <1>2

LEMMA NextCases ==
  ASSUME TypeOK, HubTables, Next
  PROVE  \/ Lets \/ Drops \/ Enters
         \/ \E k \in Conns, ok \in BOOLEAN : OnAcceptIpc(k, ok)
         \/ \E k \in Conns : \/ OnAcceptOther(k) \/ OnRecv(k)
                             \/ PipeSendsFd(k) \/ PipeOnSend(k)
         \/ \E s \in Services : Talks(s) \/ Leaves(s)
         \/ \E s \in Services, good \in BOOLEAN : OnRecvFd(s, good)
         \/ \E s \in Services : \E g \in got[s], ok \in BOOLEAN : OnServiceAccept(s, g, ok)
<1>0. Hub \in Procs /\ Services \subseteq Procs /\ TRUE \in BOOLEAN /\ 0 \in 0..MaxConns
      /\ {} \in SUBSET DOMAIN m_allPipes
    BY HubAssumption DEF Procs
<1>1. CASE AcceptorNext
    BY <1>0, <1>1, EnterSteps, HandshakeSteps, FinishSteps
    DEF AcceptorNext, OnHandshakeError, OnHandshakeOk, AcceptorFini
<1>2. CASE HubNext
  <2>1. ASSUME NEW k \in Conns, OnClose(k) \/ TimerDeletes(k) \/ FiniDeletes(k) PROVE Drops
      BY <2>1, DeleteSteps
  <2>2. ASSUME NEW n \in 0..MaxConns, NEW K \in SUBSET DOMAIN m_allPipes, OnTimer(n, K)
        PROVE  Drops
      BY <2>2, DropSteps
  <2>3. ASSUME HubFini PROVE Drops
      BY <2>3, DropSteps
  <2>4. ASSUME NEW x \in finiSocks, FiniCloses(x) PROVE Drops
      BY <2>4, DropSteps
  <2> QED BY <1>2, <2>1, <2>2, <2>3, <2>4 DEF HubNext
<1>3. CASE HostNext
    BY <1>3, EnterSteps DEF HostNext, Talks, Leaves
<1>4. CASE RtpNext
    BY <1>0, <1>4, HandshakeSteps, FinishSteps
    DEF RtpNext, RtpOnHandshakeOk, RtpOnHandshakeError, RtpFini
<1> QED BY <1>1, <1>2, <1>3, <1>4 DEF Next
-----------------------------------------------------------------------------
(***************************************************************************)
(* What every step leaves as it is.                                        *)
(***************************************************************************)
Grows ==
  /\ Made \subseteq Made'
  /\ \A k \in Made : /\ conns'[k] = conns[k] /\ sockId'[k] = sockId[k]
                     /\ k \in Hubbed' => k \in Hubbed

LEMMA Stable ==
  ASSUME Grows
  PROVE  /\ \A x : Handed(x) => Handed(x)'
         /\ \A k, s : IsPipe(k, s) => IsPipe(k, s)'
         /\ \A k \in Made \ Hubbed : k \in Made' \ Hubbed'
<1>1. ASSUME NEW x, Handed(x) PROVE Handed(x)'
  <2>1. x.conn \in Made' /\ x.conn \notin Hubbed' /\ conns'[x.conn] = conns[x.conn]
        /\ sockId'[x.conn] = sockId[x.conn]
      BY <1>1 DEF Grows, Handed
  <2> QED BY <1>1, <2>1 DEF Handed
<1>2. ASSUME NEW k, NEW s, IsPipe(k, s) PROVE IsPipe(k, s)'
    BY <1>2 DEF Grows, IsPipe
<1> QED BY <1>1, <1>2 DEF Grows

\* IsPipe in the next state, of what is known in this one.
PipeThen(k, s) == k \in Made' /\ conns'[k] = [ipc |-> TRUE, id |-> s]

LEMMA PipeStays ==
  ASSUME Grows, NEW k, NEW s, IsPipe(k, s)
  PROVE  PipeThen(k, s)
BY DEF Grows, IsPipe, PipeThen

LEMMA SpeakersStep ==
  ASSUME \A s \in Services : /\ m_connector'[s] # 0 => PipeThen(m_connector'[s], s)
                             /\ m_pipe'[s] # 0 => PipeThen(m_pipe'[s], s),
         \A k \in Conns : \A i \in DOMAIN acks'[k] : PipeThen(k, acks'[k][i].id)
  PROVE  Speakers'
BY DEF Speakers, PipeThen, IsPipe

LEMMA FiveStages ==
  ASSUME NEW k
  PROVE  /\ Stage("queued", k) = Carries(m_fdPackets[k])
         /\ Stage("sent", k) = Carries(sending[k])
         /\ Stage("flying", k) = Carries(down[k])
         /\ Stage("landed", k) = Landed(k)
         /\ Stage("acked", k) = Carries(acks[k])
         /\ Stage("queued", k)' = Carries(m_fdPackets'[k])
         /\ Stage("sent", k)' = Carries(sending'[k])
         /\ Stage("flying", k)' = Carries(down'[k])
         /\ Stage("landed", k)' = Landed(k)'
         /\ Stage("acked", k)' = Carries(acks'[k])
BY DEF Stage

AllOnce ==
  \A k \in Conns : /\ Once(m_fdPackets[k]) /\ Once(sending[k]) /\ Len(sending[k]) <= 1
                   /\ Once(down[k]) /\ Once(acks[k])
GotOnce ==
  \A s, t \in Services : \A g \in got[s], h \in got[t] : g.sock = h.sock => s = t /\ g = h

\* A socket stays where it is, or is in one place afterwards.
Moves(x) ==
  \/ \A n \in Stages, k \in Conns : x \in Stage(n, k)' => x \in Stage(n, k)
  \/ \E m \in Stages, j \in Conns : \A n \in Stages, k \in Conns :
       x \in Stage(n, k)' => n = m /\ k = j

LEMMA JourneyStep ==
  ASSUME OneJourney, AllOnce', GotOnce', \A x : Moves(x)
  PROVE  OneJourney'
<1> SUFFICES ASSUME NEW n \in Stages, NEW m \in Stages, NEW k \in Conns, NEW j \in Conns,
                    Stage(n, k)' \cap Stage(m, j)' # {}
             PROVE  n = m /\ k = j
    BY DEF OneJourney, AllOnce, GotOnce
<1>1. PICK x : x \in Stage(n, k)' /\ x \in Stage(m, j)'
    OBVIOUS
<1>2. Moves(x)
    OBVIOUS
<1>3. CASE \A o \in Stages, i \in Conns : x \in Stage(o, i)' => x \in Stage(o, i)
  <2>1. x \in Stage(n, k) /\ x \in Stage(m, j)
      BY <1>1, <1>3
  <2>2. Stage(n, k) \cap Stage(m, j) # {}
      BY <2>1
  <2> QED BY <2>2 DEF OneJourney
<1>4. CASE \E o \in Stages, i \in Conns : \A n1 \in Stages, k1 \in Conns :
             x \in Stage(n1, k1)' => n1 = o /\ k1 = i
    BY <1>1, <1>4
<1> QED BY <1>2, <1>3, <1>4 DEF Moves

\* Nothing enters a pipe from elsewhere.
NoneJoins == \A n \in Stages, k \in Conns : \A x \in Stage(n, k)' :
               \E m \in Stages : x \in Stage(m, k)

LEMMA TravelStep ==
  ASSUME Travellers, Grows, NoneJoins
  PROVE  Travellers'
<1> SUFFICES ASSUME NEW n \in Stages, NEW k \in Conns, NEW x \in Stage(n, k)'
             PROVE  (Handed(x) /\ k \notin Hubbed /\ IsPipe(k, conns[x.conn].id))'
    BY DEF Travellers
<1>1. PICK m \in Stages : x \in Stage(m, k)
    BY DEF NoneJoins
<1>2. PICK c : c = conns[x.conn].id /\ Handed(x) /\ k \notin Hubbed /\ IsPipe(k, c)
    BY <1>1 DEF Travellers
<1>3. conns'[x.conn].id = c /\ k \in Made
    BY <1>2 DEF Grows, Handed, IsPipe
<1>4. Handed(x)' /\ IsPipe(k, c)'
    BY <1>2, Stable
<1>5. k \notin Hubbed'
    BY <1>2, <1>3 DEF Grows
<1> QED BY <1>3, <1>4, <1>5 DEF IsPipe

\* The pipes are left alone.
LEMMA PipesRest ==
  ASSUME UNCHANGED <<pipeVars, got>>, OneJourney, Travellers, Grows
  PROVE  /\ OneJourney' /\ Travellers' /\ NoneJoins
         /\ \A n \in Stages, k \in Conns : Stage(n, k)' = Stage(n, k)
<1>1. \A n \in Stages, k \in Conns : Stage(n, k)' = Stage(n, k)
    BY DEF Stage, pipeVars, Landed
<1>2. NoneJoins
    BY <1>1 DEF NoneJoins
<1>3. Travellers'
    BY <1>2, TravelStep
<1>4. OneJourney'
    BY <1>1 DEF OneJourney, pipeVars
<1> QED BY <1>1, <1>2, <1>3, <1>4

NoneReturns == \A n \in Early, k \in Conns : \A x \in Stage(n, k)' :
                 \E m \in Early : x \in Stage(m, k)

LEMMA NotYetOpenStep ==
  ASSUME NotYetOpen, NoneReturns, \A s \in Services : open'[s] \subseteq open[s]
  PROVE  NotYetOpen'
BY DEF NotYetOpen, NoneReturns

LEMMA WaitRests ==
  ASSUME TypeOK, Waits, Passed, UNCHANGED <<m_allPipes, m_expireSocks, leftVars, down, got>>,
         \A n \in Stages, k \in Conns : Stage(n, k)' = Stage(n, k)
  PROVE  Waits' /\ Passed'
<1>1. DOMAIN m_allPipes \subseteq Conns /\ Forgotten \subseteq Conns /\ Unpassed \subseteq Stages
    BY DEF TypeOK, Forgotten, Unpassed, Stages
<1>2. Waits'
  <2>1. Forgotten' = Forgotten /\ ToClose' = ToClose
      BY DEF Forgotten, ToClose, leftVars
  <2> QED BY <1>1, <2>1 DEF Waits
<1>3. Passed'
    BY DEF Passed
<1> QED BY <1>2, <1>3

LEMMA HostsRest ==
  ASSUME HostTables, Grows, UNCHANGED <<open, got>>, \A s \in Services : hs'[s] = hs[s]
  PROVE  HostTables'
<1> SUFFICES ASSUME NEW s \in Services
             PROVE  /\ Apart(s)' /\ GotIn(s)' \cap Busy(s)' = {}
                    /\ open'[s] = GotIn(s)' \cup Busy(s)'
                    /\ \A k \in open'[s] : k \in Made' \ Hubbed'
                                           /\ conns'[k] = [ipc |-> FALSE, id |-> s]
    BY DEF HostTables
<1>1. Apart(s)' = Apart(s) /\ GotIn(s)' = GotIn(s) /\ Busy(s)' = Busy(s)
    BY DEF Apart, GotIn, Busy
<1>2. \A k \in open[s] : k \in Made \ Hubbed /\ conns[k] = [ipc |-> FALSE, id |-> s]
    BY DEF HostTables
<1>3. \A k \in open'[s] : k \in Made' \ Hubbed' /\ conns'[k] = [ipc |-> FALSE, id |-> s]
    BY <1>2 DEF Grows
<1> QED BY <1>1, <1>3 DEF HostTables

\* Descriptors are closed; F are their numbers.
LEMMA CloseFdsStep ==
  ASSUME TypeOK, Numbered, NEW F, CloseFds(F), UNCHANGED <<conns, sockId>>
  PROVE  Numbered' /\ fd' \in [Fds -> 0..MaxConns]
<1>1. \A f \in Fds : fd'[f] = IF f \in F THEN 0 ELSE fd[f]
    BY DEF CloseFds
<1>2. Made' = Made
    BY DEF Made
<1>3. fd' \in [Fds -> 0..MaxConns]
    BY HubAssumption DEF CloseFds, TypeOK
<1> QED BY <1>1, <1>2, <1>3 DEF Numbered

LEMMA CloseOwned ==
  ASSUME TypeOK, Numbered, HubOwns, NEW C, C \subseteq InHub, C \subseteq Conns,
         CloseFds(Numbers(C))
  PROVE  \A k \in Conns : HubHas(k)' <=> HubHas(k) /\ k \notin C
<1>1. \A f \in Fds : fd'[f] = IF f \in Numbers(C) THEN 0 ELSE fd[f]
    BY DEF CloseFds
<1>2. ASSUME NEW k \in Conns, HubHas(k)' PROVE HubHas(k) /\ k \notin C
  <2>1. PICK f \in Fds : fd'[f] = k /\ k # 0
      BY <1>2, ConnsType DEF HubHas
  <2>2. f \notin Numbers(C) /\ fd[f] = k
      BY <1>1, <2>1
  <2>3. sockId[k] = f
      BY <2>1, <2>2 DEF Numbered
  <2> QED BY <2>2, <2>3 DEF Numbers, HubHas
<1>3. ASSUME NEW k \in Conns, HubHas(k), k \notin C PROVE HubHas(k)'
  <2>1. PICK f \in Fds : fd[f] = k /\ k # 0
      BY <1>3, ConnsType DEF HubHas
  <2>2. ASSUME f \in Numbers(C) PROVE FALSE
    <3>1. PICK c \in C : sockId[c] = f
        BY <2>2 DEF Numbers
    <3>2. PICK g \in Fds : fd[g] = c /\ c # 0
        BY ConnsType DEF HubOwns, HubHas
    <3>3. g = f
        BY <3>1, <3>2 DEF Numbered
    <3> QED BY <1>3, <2>1, <3>2, <3>3
  <2> QED BY <1>1, <2>1, <2>2 DEF HubHas
<1> QED BY <1>2, <1>3

\* The hub's tables, and what OnTimer and Fini have taken from them, are left alone.
LEMMA TablesRest ==
  ASSUME HubTables, Grows, Apart(Hub)', Hubbed' \subseteq Made',
         UNCHANGED <<m_acceptor, m_allPipes, m_expireSocks, leftVars>>
  PROVE  /\ HubTables' /\ Alive' = Alive /\ Forgotten' = Forgotten /\ ToClose' = ToClose
<1>1. Alive' = Alive /\ Forgotten' = Forgotten /\ ToClose' = ToClose
    BY DEF Alive, Forgotten, ToClose, leftVars
<1>2. \A k \in Alive : k \in Made' \ Hubbed' /\ conns'[k].ipc
    BY Stable DEF HubTables, Grows
<1>3. \A x \in ToClose : Handed(x)'
    BY Stable DEF HubTables
<1> QED BY <1>1, <1>2, <1>3 DEF HubTables, leftVars
-----------------------------------------------------------------------------
(***************************************************************************)
(* Handshakers: their sockets go on, or are closed.                        *)
(***************************************************************************)
LEMMA LetsKeeps ==
  ASSUME IInv, NEW p \in Procs, NEW C \in SUBSET Conns, LetsGo(p, C)
  PROVE  IInv'
<1>0. /\ TypeOK /\ OneJourney /\ Travellers /\ HubTables /\ Speakers /\ Registered /\ Numbered
      /\ UNCHANGED <<conns, sockId, hubVars, pipeVars, hostVars, late>>
      /\ hs' \in [Procs -> Handshakers] /\ \A q \in Procs \ {p} : hs'[q] = hs[q]
      /\ up' \subseteq up /\ Hub \in Procs /\ Services \subseteq Procs
      /\ \A s \in Services : s # Hub
    BY HubAssumption DEF IInv, LetsGo, Procs
<1>1. CASE p = Hub
  <2>1. /\ CloseFds(Numbers(C)) /\ UNCHANGED open /\ C \subseteq Busy(Hub) /\ Apart(Hub)'
        /\ Busy(Hub)' = Busy(Hub) \ C
      BY <1>0, <1>1 DEF LetsGo, CloseAt, HubTables
  <2>2. Grows
      BY <1>0, <2>1 DEF Grows, Made, Hubbed
  <2>3. Numbered' /\ fd' \in [Fds -> 0..MaxConns]
      BY <1>0, <2>1, CloseFdsStep
  <2>4. TypeOK'
      BY <1>0, <2>1, <2>3
      DEF TypeOK, hubVars, leftVars, pipeVars, hostVars, Handshakers
  <2>5. OneJourney' /\ Travellers' /\ NoneJoins
        /\ \A n \in Stages, k \in Conns : Stage(n, k)' = Stage(n, k)
      BY <1>0, <2>2, PipesRest DEF hostVars
  <2>6. HubTables'
    <3>1. Hubbed' \subseteq Made'
        BY <1>0, <2>1 DEF Made, Hubbed, HubTables
    <3> QED BY <1>0, <2>1, <2>2, <3>1, TablesRest DEF hubVars
  <2>7. Speakers' /\ Registered'
      BY <1>0 DEF Speakers, Registered, IsPipe, Made, hubVars, leftVars, hostVars, pipeVars
  <2>8. ASSUME ~late' PROVE OnTime'
    <3>0. OnTime
        BY <1>0, <2>8 DEF IInv
    <3>1. Waits' /\ Passed'
        BY <1>0, <2>5, <3>0, WaitRests DEF OnTime, hubVars, leftVars, pipeVars, hostVars
    <3>2. HostTables'
        BY <1>0, <1>1, <2>1, <2>2, <3>0, HostsRest DEF OnTime, hostVars
    <3>3. NotYetOpen'
        BY <2>1, <2>5, <3>0 DEF OnTime, NotYetOpen, Early, Stages
    <3>4. \A k \in Conns : HubHas(k)' <=> HubHas(k) /\ k \notin C
        BY <1>0, <2>1, <3>0, CloseOwned DEF OnTime, InHub, Hubbed
    <3>5. /\ InHub' = Hubbed' \cup Alive \cup {x.conn : x \in ToClose}
          /\ \A k \in Alive : k \notin C
          /\ \A x \in ToClose : x.conn \notin C
      <4>1. Hubbed' \subseteq Made'
          BY <2>6 DEF HubTables
      <4>2. Alive' = Alive /\ ToClose' = ToClose
          BY <1>0, <2>1, <2>2, <4>1, TablesRest DEF hubVars
      <4> QED BY <1>0, <2>1, <4>2 DEF InHub, HubTables, Hubbed, Handed
    <3>6. InHub' = InHub \ C
        BY <2>1, <3>5 DEF InHub, Hubbed
    <3>7. HubOwns'
        BY <3>0, <3>4, <3>6 DEF OnTime, HubOwns
    <3> QED BY <3>1, <3>2, <3>3, <3>7 DEF OnTime
  <2> QED BY <2>3, <2>4, <2>5, <2>6, <2>7, <2>8 DEF IInv
<1>2. CASE p # Hub
  <2>1. /\ p \in Services /\ open' = [open EXCEPT ![p] = @ \ C] /\ UNCHANGED fd
        /\ hs'[Hub] = hs[Hub]
      BY <1>0, <1>2 DEF LetsGo, CloseAt, Procs
  <2>2. Hubbed' = Hubbed /\ Made' = Made /\ Apart(Hub)' = Apart(Hub) /\ Grows
      BY <1>0, <2>1 DEF Grows, Made, Hubbed, Busy, Apart
  <2>3. TypeOK'
      BY <1>0, <2>1 DEF TypeOK, hubVars, leftVars, pipeVars, hostVars, Handshakers
  <2>4. OneJourney' /\ Travellers' /\ NoneJoins
        /\ \A n \in Stages, k \in Conns : Stage(n, k)' = Stage(n, k)
      BY <1>0, <2>2, PipesRest DEF hostVars
  <2>5. /\ HubTables' /\ Speakers' /\ Registered' /\ Numbered'
        /\ Alive' = Alive /\ ToClose' = ToClose
    <3>1. Apart(Hub)' /\ Hubbed' \subseteq Made'
        BY <1>0, <2>2 DEF HubTables
    <3>2. HubTables' /\ Alive' = Alive /\ ToClose' = ToClose
        BY <1>0, <2>2, <3>1, TablesRest DEF hubVars
    <3> QED BY <1>0, <2>1, <2>2, <3>2
        DEF Speakers, Registered, Numbered, IsPipe, hubVars, hostVars, pipeVars
  <2>6. ASSUME ~late' PROVE OnTime'
    <3>0. OnTime
        BY <1>0, <2>6 DEF IInv
    <3>1. HubOwns' /\ Waits' /\ Passed'
      <4>1. HubOwns'
          BY <2>1, <2>2, <2>5, <3>0 DEF OnTime, HubOwns, HubHas, InHub
      <4>2. Waits' /\ Passed'
          BY <1>0, <2>4, <3>0, WaitRests DEF OnTime, hubVars, leftVars, pipeVars, hostVars
      <4> QED BY <4>1, <4>2
    <3>2. /\ open'[p] = open[p] \ C
          /\ \A s \in Services \ {p} : open'[s] = open[s]
        BY <1>0, <2>1 DEF TypeOK
    <3>3. NotYetOpen'
        BY <2>4, <3>0, <3>2 DEF OnTime, NotYetOpen, Early, Stages
    <3>4. C \subseteq Busy(p) /\ Apart(p)' /\ Busy(p)' = Busy(p) \ C
        BY <2>1, <3>0 DEF LetsGo, OnTime, HostTables
    <3>5. ASSUME NEW s \in Services
          PROVE  /\ Apart(s)' /\ GotIn(s)' \cap Busy(s)' = {}
                 /\ open'[s] = GotIn(s)' \cup Busy(s)'
                 /\ open'[s] \subseteq open[s]
      <4>1. GotIn(s)' = GotIn(s)
          BY <1>0 DEF GotIn, hostVars
      <4>2. CASE s = p
        <5>1. Apart(s)' /\ Busy(s)' = Busy(s) \ C
            BY <3>4, <4>2 DEF Apart, Busy
        <5>2. GotIn(s) \cap Busy(s) = {} /\ open[s] = GotIn(s) \cup Busy(s)
            BY <3>0 DEF OnTime, HostTables
        <5>3. open'[s] = open[s] \ C /\ C \subseteq Busy(s)
            BY <3>2, <3>4, <4>2
        <5> QED BY <4>1, <5>1, <5>2, <5>3
      <4>3. CASE s # p
        <5>1. Apart(s)' = Apart(s) /\ Busy(s)' = Busy(s)
            BY <1>0, <4>3 DEF Apart, Busy
        <5> QED BY <3>0, <3>2, <4>1, <4>3, <5>1 DEF OnTime, HostTables
      <4> QED BY <4>2, <4>3
    <3>6. HostTables'
        BY <1>0, <2>2, <3>0, <3>5 DEF OnTime, HostTables
    <3> QED BY <3>1, <3>3, <3>6 DEF OnTime
  <2> QED BY <2>3, <2>4, <2>5, <2>6 DEF IInv
<1> QED BY <1>1, <1>2

LEMMA Stutters ==
  ASSUME IInv, UNCHANGED vars
  PROVE  IInv'
<1> USE DEF vars, sockVars, hubVars, leftVars, pipeVars, hostVars
<1>1. TypeOK'
    BY DEF IInv, TypeOK
<1>2. /\ Hubbed' = Hubbed /\ Made' = Made
      /\ Apart(Hub)' = Apart(Hub) /\ Grows
    BY DEF Grows, Made, Hubbed, Busy, Apart
<1>3. OneJourney' /\ Travellers' /\ NoneJoins
      /\ \A n \in Stages, k \in Conns : Stage(n, k)' = Stage(n, k)
    BY <1>2, PipesRest DEF IInv
<1>4. /\ HubTables' /\ Speakers' /\ Registered' /\ Numbered'
      /\ Alive' = Alive /\ ToClose' = ToClose
  <2>1. HubTables /\ Apart(Hub)' /\ Hubbed' \subseteq Made'
      BY <1>2 DEF IInv, HubTables
  <2>2. HubTables' /\ Alive' = Alive /\ ToClose' = ToClose
      BY <1>2, <2>1, TablesRest
  <2> QED BY <1>2, <2>2 DEF IInv, Speakers, Registered, Numbered, IsPipe
<1>5. ASSUME ~late' PROVE OnTime'
  <2>0. OnTime
      BY <1>5 DEF IInv
  <2>1. HubOwns'
      BY <1>2, <1>4, <2>0 DEF OnTime, HubOwns, HubHas, InHub
  <2>2. Waits' /\ Passed'
      BY <1>3, <2>0, WaitRests DEF OnTime, IInv
  <2>3. HostTables'
      BY <1>2, <2>0, HostsRest DEF OnTime
  <2>4. NotYetOpen'
      BY <1>3, <2>0 DEF OnTime, NotYetOpen, Early, Stages
  <2> QED BY <2>1, <2>2, <2>3, <2>4 DEF OnTime
<1> QED BY <1>1, <1>3, <1>4, <1>5 DEF IInv
-----------------------------------------------------------------------------
(***************************************************************************)
(* A connection is accepted: it gets a number that no socket has.          *)
(***************************************************************************)
LEMMA EntersKeeps ==
  ASSUME IInv, Enters
  PROVE  IInv'
<1>0. /\ TypeOK /\ OneJourney /\ Travellers /\ HubTables /\ Speakers /\ Registered /\ Numbered
      /\ Hub \in Procs /\ Services \subseteq Procs /\ \A s \in Services : s # Hub
    BY HubAssumption DEF IInv, Procs
<1>1. PICK x \in [ipc : BOOLEAN, id : Services], ok \in BOOLEAN :
        /\ OnInput(x, ok) /\ UNCHANGED <<m_host, m_pipe, got>>
        /\ \/ UNCHANGED m_connector
           \/ /\ Accepts(ok) /\ x.ipc
              /\ m_connector' = [m_connector EXCEPT ![x.id] = Len(conns) + 1]
    BY DEF Enters
<1>2. CASE ~Accepts(ok)
  <2>1. UNCHANGED vars
      BY <1>1, <1>2 DEF OnInput, vars, sockVars, hostVars
  <2> QED BY <2>1, Stutters
<1>3. CASE Accepts(ok)
  <2>1. PICK l \in Nat : l = Len(conns) /\ l < MaxConns
      BY <1>0, <1>1, LenProperties DEF OnInput, TypeOK
  <2>2. PICK k \in Conns : k = l + 1
      BY <2>1, HubAssumption DEF Conns
  <2>3. PICK f \in Fds : f = Min(FreeFds) /\ fd[f] = 0
      BY <1>3, LeastFd DEF Accepts, FreeFds
  <2>4. /\ conns' = Append(conns, x) /\ fd' = [fd EXCEPT ![f] = k]
        /\ sockId' = [sockId EXCEPT ![k] = f] /\ hs' = Shakes(Hub, k)
        /\ UNCHANGED <<open, up, hubVars, pipeVars, late>>
      BY <1>1, <1>3, <2>1, <2>2, <2>3 DEF OnInput
  <2>5. /\ conns' \in Seq([ipc : BOOLEAN, id : Services]) /\ Len(conns') = l + 1
        /\ \A i \in 1..l : conns'[i] = conns[i]
        /\ conns'[k] = x
      BY <1>0, <2>1, <2>2, <2>4, AppendProperties DEF TypeOK
  <2>6. Made = 1..l /\ Made' = Made \cup {k} /\ k \notin Made
      BY <2>1, <2>2, <2>5 DEF Made
  <2>7. HsIs(Hub, [table |-> hs[Hub].table \cup {k}, shaking |-> hs[Hub].shaking \cup {k},
                   carried |-> hs[Hub].carried, out |-> hs[Hub].out])
    <3>1. hs \in [Procs -> Handshakers]
        BY <1>0 DEF TypeOK, Handshakers
    <3> QED BY <1>0, <2>4, <3>1, ShakesHs
  <2>8. /\ Hubbed' = Hubbed \cup {k} /\ Apart(Hub)' /\ k \notin Hubbed
      BY <1>0, <2>6, <2>7 DEF HsIs, Hubbed, Busy, Apart, HubTables
  <2>9. /\ sockId' \in [Conns -> 0..MaxFds] /\ sockId'[k] = f
        /\ \A i \in Conns \ {k} : sockId'[i] = sockId[i]
        /\ fd' \in [Fds -> 0..MaxConns] /\ fd'[f] = k
        /\ \A i \in Fds \ {f} : fd'[i] = fd[i]
    <3>1. f \in 0..MaxFds /\ k \in 0..MaxConns
        BY HubAssumption DEF Fds, Conns
    <3> QED BY <1>0, <2>4, <3>1 DEF TypeOK
  <2>10. Made \subseteq Conns
      BY <2>1, <2>6, HubAssumption DEF Conns
  <2>11. Grows
      BY <2>5, <2>6, <2>8, <2>9, <2>10 DEF Grows
  <2>12. TypeOK'
    <3>1. m_connector' \in [Services -> 0..MaxConns]
      <4>1. Len(conns) + 1 \in 0..MaxConns
          BY <2>1, HubAssumption
      <4> QED BY <1>0, <1>1, <4>1 DEF TypeOK
    <3>2. Len(conns') <= MaxConns
        BY <2>1, <2>5, HubAssumption
    <3> QED BY <1>0, <1>1, <2>4, <2>5, <2>7, <2>9, <3>1, <3>2
        DEF TypeOK, hubVars, leftVars, pipeVars, HsIs, Handshakers
  <2>13. OneJourney' /\ Travellers' /\ NoneJoins
         /\ \A n \in Stages, j \in Conns : Stage(n, j)' = Stage(n, j)
      BY <1>0, <1>1, <2>4, <2>11, PipesRest
  <2>14. HubTables' /\ Alive' = Alive /\ ToClose' = ToClose
    <3>1. Hubbed' \subseteq Made'
        BY <1>0, <2>6, <2>8 DEF HubTables
    <3> QED BY <1>0, <2>4, <2>8, <2>11, <3>1, TablesRest DEF hubVars
  <2>15. Speakers'
    <3>1. \A s \in Services : m_pipe[s] # 0 => PipeThen(m_pipe[s], s)
        BY <1>0, <2>11, PipeStays DEF Speakers
    <3>2. ASSUME NEW s \in Services, m_connector'[s] # 0
          PROVE  PipeThen(m_connector'[s], s)
      <4>1. CASE m_connector'[s] = m_connector[s]
          BY <1>0, <2>11, <3>2, <4>1, PipeStays DEF Speakers
      <4>2. CASE m_connector'[s] # m_connector[s]
        <5>1. x.ipc /\ x.id = s /\ m_connector'[s] = k
            BY <1>0, <1>1, <2>1, <2>2, <4>2 DEF TypeOK
        <5>2. x = [ipc |-> TRUE, id |-> s]
            BY <5>1
        <5> QED BY <2>5, <2>6, <5>1, <5>2 DEF PipeThen
      <4> QED BY <4>1, <4>2
    <3>3. \A j \in Conns : \A i \in DOMAIN acks[j] : PipeThen(j, acks[j][i].id)
        BY <1>0, <2>11, PipeStays DEF Speakers
    <3>4. m_pipe' = m_pipe /\ acks' = acks
        BY <1>1, <2>4 DEF pipeVars
    <3> QED BY <3>1, <3>2, <3>3, <3>4, SpeakersStep
  <2>16. Registered'
    <3>1. \A j \in DOMAIN m_allPipes : conns'[j] = conns[j]
        BY <1>0, <2>11 DEF HubTables, Grows, Alive
    <3>2. m_allPipes' = m_allPipes /\ m_serviceId2Pipe' = m_serviceId2Pipe
        BY <2>4 DEF hubVars, leftVars
    <3> QED BY <1>0, <3>1, <3>2 DEF Registered
  <2>17. Numbered'
      BY <1>0, <2>3, <2>6, <2>9, <2>10 DEF Numbered
  <2>18. ASSUME ~late' PROVE OnTime'
    <3>0. OnTime
        BY <2>4, <2>18 DEF IInv
    <3>1. ASSUME NEW j \in Conns PROVE HubHas(j)' <=> HubHas(j) \/ j = k
      <4>1. j # 0
          BY ConnsType
      <4> QED BY <2>3, <2>9, <4>1 DEF HubHas
    <3>2. InHub' = InHub \cup {k}
        BY <2>8, <2>14 DEF InHub
    <3>3. HubOwns'
        BY <3>0, <3>1, <3>2 DEF OnTime, HubOwns
    <3>4. Waits' /\ Passed'
        BY <1>0, <1>1, <2>4, <2>13, <3>0, WaitRests DEF OnTime, hubVars, leftVars, pipeVars
    <3>5. HostTables'
      <4>1. \A s \in Services : hs'[s] = hs[s]
          BY <1>0, <2>7 DEF HsIs
      <4> QED BY <1>1, <2>4, <2>11, <3>0, <4>1, HostsRest DEF OnTime
    <3>6. NotYetOpen'
        BY <2>4, <2>13, <3>0 DEF OnTime, NotYetOpen, Early, Stages
    <3> QED BY <3>3, <3>4, <3>5, <3>6 DEF OnTime
  <2> QED BY <2>12, <2>13, <2>14, <2>15, <2>16, <2>17, <2>18 DEF IInv
<1> QED BY <1>2, <1>3
-----------------------------------------------------------------------------
(***************************************************************************)
(* The hub takes a socket from the acceptor.                               *)
(***************************************************************************)
LEMMA TakeStep ==
  ASSUME IInv, NEW k \in Conns, k \in hs[Hub].out,
         hs' = [hs EXCEPT ![Hub].out = @ \ {k}], UNCHANGED <<conns, sockId>>
  PROVE  /\ hs' \in [Procs -> Handshakers] /\ \A s \in Services : hs'[s] = hs[s]
         /\ Made' = Made /\ Hubbed' = Hubbed \ {k} /\ k \in Hubbed /\ k \in Made
         /\ Apart(Hub)' /\ Hubbed' \subseteq Made /\ Grows
         /\ \A j \in Alive : j # k
         /\ \A x \in ToClose : x.conn # k
<1>0. /\ Hub \in Procs /\ Services \subseteq Procs /\ \A s \in Services : s # Hub
      /\ HubTables /\ hs \in [Procs -> Handshakers]
    BY HubAssumption DEF IInv, Procs, TypeOK, Handshakers
<1>1. HsIs(Hub, [table |-> hs[Hub].table, shaking |-> hs[Hub].shaking,
                 carried |-> hs[Hub].carried, out |-> hs[Hub].out \ {k}])
    BY <1>0, TakenHs
<1>2. Hubbed' = Hubbed \ {k} /\ k \in Hubbed /\ Apart(Hub)'
    BY <1>0, <1>1 DEF HsIs, Hubbed, Busy, Apart, HubTables
<1>3. Made' = Made
    BY DEF Made
<1>4. \A s \in Services : hs'[s] = hs[s]
    BY <1>0, <1>1 DEF HsIs
<1> QED BY <1>0, <1>1, <1>2, <1>3, <1>4 DEF HsIs, Grows, HubTables, Handed

LEMMA AcceptIpcKeeps ==
  ASSUME IInv, NEW k \in Conns, NEW ok \in BOOLEAN, OnAcceptIpc(k, ok)
  PROVE  IInv'
<1>0. /\ TypeOK /\ OneJourney /\ Travellers /\ HubTables /\ Speakers /\ Registered /\ Numbered
      /\ UNCHANGED <<conns, sockId, open, up, m_acceptor, m_expireSocks, m_serviceId2Pipe,
                     leftVars, pipeVars, hostVars, late>>
      /\ conns[k].ipc /\ k # 0
    BY ConnsType DEF IInv, OnAcceptIpc
<1>1. /\ hs' \in [Procs -> Handshakers] /\ \A s \in Services : hs'[s] = hs[s]
      /\ Made' = Made /\ Hubbed' = Hubbed \ {k} /\ k \in Hubbed /\ k \in Made
      /\ Apart(Hub)' /\ Hubbed' \subseteq Made /\ Grows
      /\ \A j \in Alive : j # k
      /\ \A x \in ToClose : x.conn # k
    BY TakeStep DEF OnAcceptIpc
<1>2. OneJourney' /\ Travellers'
      /\ \A n \in Stages, j \in Conns : Stage(n, j)' = Stage(n, j)
    BY <1>0, <1>1, PipesRest DEF hostVars
<1>3. Speakers'
    BY <1>0, <1>1 DEF Speakers, IsPipe, hostVars, pipeVars
<1>4. \A x \in ToClose : Handed(x)'
    BY <1>0, <1>1, Stable DEF HubTables
<1>5. \A n \in Stages : Stage(n, k) = {}
    BY <1>0, <1>1 DEF Travellers
<1>6. CASE m_acceptor /\ ok
  <2>1. /\ m_allPipes' = With(m_allPipes, k, [pending |-> TRUE, serviceId |-> 0])
        /\ UNCHANGED fd
      BY <1>6 DEF OnAcceptIpc
  <2>2. /\ DOMAIN m_allPipes' = DOMAIN m_allPipes \cup {k}
        /\ m_allPipes'[k] = [pending |-> TRUE, serviceId |-> 0]
        /\ \A j \in DOMAIN m_allPipes : m_allPipes'[j] = m_allPipes[j]
      BY <1>1, <2>1 DEF With, Alive
  <2>3. TypeOK'
      BY <1>0, <1>1, <2>1, <2>2 DEF TypeOK, leftVars, pipeVars, hostVars, Handshakers
  <2>4. HubTables' /\ Alive' = Alive \cup {k} /\ Forgotten' = Forgotten /\ ToClose' = ToClose
    <3>1. Alive' = Alive \cup {k} /\ Forgotten' = Forgotten /\ ToClose' = ToClose
        BY <1>0, <2>2 DEF Alive, Forgotten, ToClose, leftVars
    <3>2. \A j \in Alive' : j \in Made' \ Hubbed' /\ conns'[j].ipc
        BY <1>0, <1>1, <3>1 DEF HubTables
    <3>3. DOMAIN m_allPipes' \cap Forgotten = {}
        BY <1>0, <1>1, <2>2 DEF HubTables, Alive
    <3> QED BY <1>0, <1>1, <1>4, <1>6, <3>1, <3>2, <3>3 DEF HubTables, leftVars
  <2>5. Registered'
    <3>1. \A s \in DOMAIN m_serviceId2Pipe : m_serviceId2Pipe[s] \in DOMAIN m_allPipes
        BY <1>0 DEF Registered
    <3>2. ASSUME NEW s \in DOMAIN m_serviceId2Pipe
          PROVE  /\ m_serviceId2Pipe[s] \in DOMAIN m_allPipes'
                 /\ m_allPipes'[m_serviceId2Pipe[s]] = [pending |-> FALSE, serviceId |-> s]
                 /\ conns'[m_serviceId2Pipe[s]].id = s
        BY <1>0, <2>2, <3>1 DEF Registered
    <3>3. ASSUME NEW j \in DOMAIN m_allPipes'
          PROVE  \/ m_allPipes'[j] = [pending |-> TRUE, serviceId |-> 0]
                 \/ \E s \in DOMAIN m_serviceId2Pipe :
                      /\ m_serviceId2Pipe[s] = j
                      /\ m_allPipes'[j] = [pending |-> FALSE, serviceId |-> s]
      <4>1. CASE j = k
          BY <2>2, <4>1
      <4>2. CASE j \in DOMAIN m_allPipes
          BY <1>0, <2>2, <4>2 DEF Registered
      <4> QED BY <2>2, <4>1, <4>2
    <3>4. m_serviceId2Pipe' = m_serviceId2Pipe
        BY <1>0
    <3> QED BY <3>2, <3>3, <3>4 DEF Registered
  <2>6. Numbered'
      BY <1>0, <1>1, <2>1 DEF Numbered
  <2>7. ASSUME ~late' PROVE OnTime'
    <3>0. OnTime
        BY <1>0, <2>7 DEF IInv
    <3>1. HubOwns'
      <4>1. InHub' = InHub
          BY <1>1, <2>4 DEF InHub
      <4> QED BY <2>1, <3>0, <4>1 DEF OnTime, HubOwns, HubHas
    <3>2. Waits'
      <4>1. /\ DOMAIN m_allPipes \subseteq Conns /\ Forgotten \subseteq Conns
            /\ Unpassed \subseteq Stages
          BY <1>0 DEF TypeOK, Forgotten, Unpassed, Stages
      <4> QED BY <1>0, <1>2, <1>5, <2>2, <2>4, <3>0, <4>1 DEF OnTime, Waits
    <3>3. Passed'
        BY <1>0, <3>0 DEF OnTime, Passed, pipeVars, hostVars
    <3>4. HostTables'
        BY <1>0, <1>1, <3>0, HostsRest DEF OnTime, hostVars
    <3>5. NotYetOpen'
        BY <1>0, <1>2, <3>0 DEF OnTime, NotYetOpen, Early, Stages
    <3> QED BY <3>1, <3>2, <3>3, <3>4, <3>5 DEF OnTime
  <2> QED BY <1>2, <1>3, <2>3, <2>4, <2>5, <2>6, <2>7 DEF IInv
<1>7. CASE ~(m_acceptor /\ ok)
  <2>1. /\ UNCHANGED m_allPipes /\ CloseFds({sockId[k]}) /\ {sockId[k]} = Numbers({k})
      BY <1>7 DEF OnAcceptIpc, Numbers
  <2>2. Numbered' /\ fd' \in [Fds -> 0..MaxConns]
      BY <1>0, <2>1, CloseFdsStep
  <2>3. TypeOK'
      BY <1>0, <1>1, <2>1, <2>2 DEF TypeOK, leftVars, pipeVars, hostVars, Handshakers
  <2>4. HubTables' /\ Registered' /\ Alive' = Alive /\ ToClose' = ToClose
      BY <1>0, <1>1, <2>1, TablesRest DEF Registered
  <2>5. ASSUME ~late' PROVE OnTime'
    <3>0. OnTime
        BY <1>0, <2>5 DEF IInv
    <3>1. \A j \in Conns : HubHas(j)' <=> HubHas(j) /\ j \notin {k}
        BY <1>0, <1>1, <2>1, <3>0, CloseOwned DEF OnTime, InHub
    <3>2. InHub' = InHub \ {k}
        BY <1>1, <2>4 DEF InHub
    <3>3. HubOwns'
        BY <3>0, <3>1, <3>2 DEF OnTime, HubOwns
    <3>4. Waits' /\ Passed'
        BY <1>0, <1>2, <2>1, <3>0, WaitRests DEF OnTime, pipeVars, hostVars
    <3>5. HostTables'
        BY <1>0, <1>1, <3>0, HostsRest DEF OnTime, hostVars
    <3>6. NotYetOpen'
        BY <1>0, <1>2, <3>0 DEF OnTime, NotYetOpen, Early, Stages
    <3> QED BY <3>3, <3>4, <3>5, <3>6 DEF OnTime
  <2> QED BY <1>2, <1>3, <2>2, <2>3, <2>4, <2>5 DEF IInv
<1> QED BY <1>6, <1>7
-----------------------------------------------------------------------------
(***************************************************************************)
(* The hub's end of a pipe.                                                *)
(***************************************************************************)
Waiters(k) == Carries(m_fdPackets[k]) \cup Carries(sending[k])

LEMMA QueuedStep ==
  ASSUME TypeOK, NEW k \in Conns, NEW q \in Seq(Packets), NEW t \in Seq(Packets \cup {Copy}),
         Once(q), Once(t), Len(t) <= 1, Carries(q) \cap Carries(t) = {}, Queued(k, q, t)
  PROVE  /\ m_fdPackets' \in [Conns -> Seq(Packets)]
         /\ sending' \in [Conns -> Seq(Packets \cup {Copy})]
         /\ \A j \in Conns \ {k} : m_fdPackets'[j] = m_fdPackets[j] /\ sending'[j] = sending[j]
         /\ Once(m_fdPackets'[k]) /\ Once(sending'[k]) /\ Len(sending'[k]) <= 1
         /\ Waiters(k)' = Carries(q) \cup Carries(t)
         /\ Carries(m_fdPackets'[k]) \cap Carries(sending'[k]) = {}
<1>1. CASE t = <<>> /\ q # <<>>
  <2>1. /\ sending' = [sending EXCEPT ![k] = <<Head(q)>>]
        /\ m_fdPackets' = [m_fdPackets EXCEPT ![k] = Tail(q)]
      BY <1>1 DEF Queued
  <2>2. /\ Tail(q) \in Seq(Packets) /\ Once(Tail(q)) /\ Head(q) \in Packets
        /\ Head(q).sock \in Carries(q) \cup {NoSock}
        /\ Carries(Tail(q)) = Carries(q) \ {Head(q).sock}
      BY <1>1, CarriesTail
  <2>3. <<Head(q)>> \in Seq(Packets \cup {Copy}) /\ Len(<<Head(q)>>) <= 1
      BY <2>2
  <2>4. Once(<<Head(q)>>) /\ Carries(<<Head(q)>>) = {Head(q).sock} \ {NoSock}
        /\ Carries(t) = {}
      BY <1>1, CarriesFew
  <2>5. sending'[k] = <<Head(q)>> /\ m_fdPackets'[k] = Tail(q)
      BY <2>1 DEF TypeOK
  <2>6. Waiters(k)' = Carries(q) \cup Carries(t)
    <3>1. NoSock \notin Carries(q)
        BY DEF Carries
    <3> QED BY <2>2, <2>4, <2>5, <3>1 DEF Waiters
  <2>7. Carries(m_fdPackets'[k]) \cap Carries(sending'[k]) = {}
      BY <2>2, <2>4, <2>5
  <2> QED BY <2>1, <2>2, <2>3, <2>4, <2>5, <2>6, <2>7 DEF TypeOK
<1>2. CASE ~(t = <<>> /\ q # <<>>)
  <2>1. /\ sending' = [sending EXCEPT ![k] = t]
        /\ m_fdPackets' = [m_fdPackets EXCEPT ![k] = q]
      BY <1>2 DEF Queued
  <2> QED BY <2>1 DEF TypeOK, Waiters
<1> QED BY <1>1, <1>2

\* Only the hub's end of pipe k is touched, and W has what is there.
LEMMA QueueMoves ==
  ASSUME TypeOK, OneJourney, NEW k \in Conns, NEW W, Waiters(k)' \subseteq W,
         \A j \in Conns \ {k} : m_fdPackets'[j] = m_fdPackets[j] /\ sending'[j] = sending[j],
         Carries(m_fdPackets'[k]) \cap Carries(sending'[k]) = {},
         Once(m_fdPackets'[k]), Once(sending'[k]), Len(sending'[k]) <= 1,
         UNCHANGED <<down, acks, got>>,
         \A x \in W, n \in Stages, j \in Conns :
           x \in Stage(n, j) => n \in {"queued", "sent"} /\ j = k
  PROVE  OneJourney'
<1>1. ASSUME NEW n \in Stages, NEW j \in Conns, ~(n \in {"queued", "sent"} /\ j = k)
      PROVE  Stage(n, j)' = Stage(n, j)
    BY <1>1 DEF Stage, Stages, Landed
<1>2. ASSUME NEW x PROVE Moves(x)
  <2>1. CASE x \notin W
    <3>1. x \notin Stage("queued", k)' /\ x \notin Stage("sent", k)'
        BY <2>1, FiveStages DEF Waiters
    <3> QED BY <1>1, <3>1 DEF Moves
  <2>2. CASE x \in W
    <3>1. ASSUME NEW n \in Stages, NEW j \in Conns, ~(n \in {"queued", "sent"} /\ j = k)
          PROVE  x \notin Stage(n, j)'
        BY <1>1, <2>2, <3>1
    <3>2. ~(x \in Stage("queued", k)' /\ x \in Stage("sent", k)')
        BY FiveStages
    <3>3. CASE x \in Stage("queued", k)'
      <4>1. \A n \in Stages, j \in Conns : x \in Stage(n, j)' => n = "queued" /\ j = k
          BY <3>1, <3>2, <3>3
      <4> QED BY <4>1 DEF Moves, Stages
    <3>4. CASE x \notin Stage("queued", k)'
      <4>1. \A n \in Stages, j \in Conns : x \in Stage(n, j)' => n = "sent" /\ j = k
          BY <3>1, <3>4
      <4> QED BY <4>1 DEF Moves, Stages
    <3> QED BY <3>3, <3>4
  <2> QED BY <2>1, <2>2
<1>3. AllOnce'
    BY DEF AllOnce, OneJourney
<1>4. GotOnce'
    BY DEF GotOnce, OneJourney
<1> QED BY <1>2, <1>3, <1>4, JourneyStep

\* Socket y joins pipe p.
LEMMA TravelJoin ==
  ASSUME Travellers, Grows, NEW y, NEW p, Handed(y)', p \notin Hubbed',
         PipeThen(p, conns'[y.conn].id),
         \A n \in Stages, k \in Conns : \A x \in Stage(n, k)' :
           (\E m \in Stages : x \in Stage(m, k)) \/ (x = y /\ k = p)
  PROVE  Travellers'
<1> SUFFICES ASSUME NEW n \in Stages, NEW k \in Conns, NEW x \in Stage(n, k)'
             PROVE  (Handed(x) /\ k \notin Hubbed /\ IsPipe(k, conns[x.conn].id))'
    BY DEF Travellers
<1>1. CASE x = y /\ k = p
    BY <1>1 DEF PipeThen, IsPipe, Handed
<1>2. CASE \E m \in Stages : x \in Stage(m, k)
  <2>1. PICK m \in Stages : x \in Stage(m, k)
      BY <1>2
  <2>2. PICK c : c = conns[x.conn].id /\ Handed(x) /\ k \notin Hubbed /\ IsPipe(k, c)
      BY <2>1 DEF Travellers
  <2>3. conns'[x.conn].id = c /\ k \in Made
      BY <2>2 DEF Grows, Handed, IsPipe
  <2>4. Handed(x)' /\ IsPipe(k, c)'
      BY <2>2, Stable
  <2>5. k \notin Hubbed'
      BY <2>2, <2>3 DEF Grows
  <2> QED BY <2>3, <2>4, <2>5 DEF IsPipe
<1> QED BY <1>1, <1>2

LEMMA AcceptOtherKeeps ==
  ASSUME IInv, NEW k \in Conns, OnAcceptOther(k)
  PROVE  IInv'
<1>0. /\ TypeOK /\ OneJourney /\ Travellers /\ HubTables /\ Speakers /\ Registered /\ Numbered
      /\ UNCHANGED <<conns, sockId, open, up, m_acceptor, m_allPipes, m_serviceId2Pipe,
                     leftVars, hostVars, late>>
      /\ ~conns[k].ipc /\ k # 0
    BY ConnsType DEF IInv, OnAcceptOther
<1>1. /\ hs' \in [Procs -> Handshakers] /\ \A s \in Services : hs'[s] = hs[s]
      /\ Made' = Made /\ Hubbed' = Hubbed \ {k} /\ k \in Hubbed /\ k \in Made
      /\ Apart(Hub)' /\ Hubbed' \subseteq Made /\ Grows
      /\ \A j \in Alive : j # k
      /\ \A x \in ToClose : x.conn # k
    BY TakeStep DEF OnAcceptOther
<1>2. Registered'
    BY <1>0 DEF Registered
<1>3. \A x \in ToClose : Handed(x)'
    BY <1>0, <1>1, Stable DEF HubTables
<1>4. CASE m_acceptor /\ conns[k].id \in DOMAIN m_serviceId2Pipe
  <2>1. PICK s : s = conns[k].id /\ s \in DOMAIN m_serviceId2Pipe /\ s \in Services
      BY <1>0, <1>4 DEF TypeOK
  <2>2. PICK sock \in Socks : sock = [sockId |-> sockId[k], conn |-> k]
      BY <1>0, <1>1 DEF Numbered, Socks
  <2>3. PICK p \in Conns : p = m_serviceId2Pipe[s]
      BY <1>0, <2>1 DEF Registered, TypeOK
  <2>4. p \in DOMAIN m_allPipes /\ conns[p].id = s /\ p \in Made \ Hubbed /\ conns[p].ipc
      BY <1>0, <2>1, <2>3 DEF Registered, HubTables, Alive
  <2>5. conns[p] = [ipc |-> TRUE, id |-> s]
    <3>1. conns[p] \in [ipc : BOOLEAN, id : Services]
        BY <1>0, <2>4, ElementOfSeq DEF TypeOK, Made
    <3> QED BY <2>4, <3>1
  <2>6. PICK packet \in Packets : packet = [sock |-> sock, id |-> s]
      BY <2>1, <2>2 DEF Packets
  <2>7. /\ SendFd(p, packet) /\ m_expireSocks' = Append(m_expireSocks, sock) /\ UNCHANGED fd
      BY <1>4, <2>1, <2>2, <2>3, <2>6 DEF OnAcceptOther
  <2>8. /\ Queued(p, Append(m_fdPackets[p], packet), sending[p]) /\ UNCHANGED <<down, acks>>
      BY <2>7 DEF SendFd
  <2>9. \A n \in Stages, j \in Conns : sock \notin Stage(n, j)
    <3>1. ~Handed(sock)
        BY <1>1, <2>2 DEF Handed
    <3> QED BY <1>0, <3>1 DEF Travellers
  <2>10. sock # NoSock /\ packet.sock = sock /\ sock.conn = k
      BY <1>0, <2>2, <2>6 DEF NoSock
  <2>11. PICK q : q = Append(m_fdPackets[p], packet)
      OBVIOUS
  <2>12. /\ Once(m_fdPackets[p]) /\ Once(sending[p]) /\ Len(sending[p]) <= 1
         /\ m_fdPackets[p] \in Seq(Packets)
         /\ sending[p] \in Seq(Packets \cup {Copy})
      BY <1>0 DEF OneJourney, TypeOK
  <2>13. /\ Carries(m_fdPackets[p]) \cap Carries(sending[p]) = {}
         /\ sock \notin Carries(m_fdPackets[p]) /\ sock \notin Carries(sending[p])
    <3>1. Stage("queued", p) \cap Stage("sent", p) = {}
        BY <1>0 DEF OneJourney, Stages
    <3> QED BY <2>9, <3>1, FiveStages DEF Stages
  <2>14. /\ q \in Seq(Packets) /\ Once(q)
         /\ Carries(q) = Carries(m_fdPackets[p]) \cup {sock}
      BY <2>10, <2>11, <2>12, <2>13, CarriesAppend
  <2>15. /\ m_fdPackets' \in [Conns -> Seq(Packets)]
         /\ sending' \in [Conns -> Seq(Packets \cup {Copy})]
         /\ \A j \in Conns \ {p} : m_fdPackets'[j] = m_fdPackets[j] /\ sending'[j] = sending[j]
         /\ Once(m_fdPackets'[p]) /\ Once(sending'[p]) /\ Len(sending'[p]) <= 1
         /\ Waiters(p)' = Waiters(p) \cup {sock}
         /\ Carries(m_fdPackets'[p]) \cap Carries(sending'[p]) = {}
    <3>1. Carries(q) \cap Carries(sending[p]) = {} /\ Queued(p, q, sending[p])
        BY <2>8, <2>11, <2>13, <2>14
    <3>2. /\ m_fdPackets' \in [Conns -> Seq(Packets)]
          /\ sending' \in [Conns -> Seq(Packets \cup {Copy})]
          /\ \A j \in Conns \ {p} : m_fdPackets'[j] = m_fdPackets[j] /\ sending'[j] = sending[j]
          /\ Once(m_fdPackets'[p]) /\ Once(sending'[p]) /\ Len(sending'[p]) <= 1
          /\ Waiters(p)' = Carries(q) \cup Carries(sending[p])
          /\ Carries(m_fdPackets'[p]) \cap Carries(sending'[p]) = {}
        BY <1>0, <2>12, <2>14, <3>1, QueuedStep
    <3>3. Carries(q) \cup Carries(sending[p]) = Waiters(p) \cup {sock}
        BY <2>14 DEF Waiters
    <3> QED BY <3>2, <3>3
  <2>16. OneJourney'
    <3>1. PICK W : W = Waiters(p) \cup {sock}
        OBVIOUS
    <3>2. ASSUME NEW x \in W, NEW n \in Stages, NEW j \in Conns, x \in Stage(n, j)
          PROVE  n \in {"queued", "sent"} /\ j = p
      <4>1. x \in Stage("queued", p) \/ x \in Stage("sent", p)
          BY <2>9, <3>1, <3>2, FiveStages DEF Waiters
      <4> QED BY <1>0, <3>2, <4>1 DEF OneJourney, Stages
    <3>3. Waiters(p)' \subseteq W /\ UNCHANGED <<down, acks, got>>
        BY <1>0, <2>8, <2>15, <3>1 DEF hostVars
    <3> QED BY <1>0, <2>15, <3>2, <3>3, QueueMoves
  <2>17. ASSUME NEW n \in Stages, NEW j \in Conns, NEW x \in Stage(n, j)'
         PROVE  \/ \E m \in Unpassed : n \in Unpassed /\ x \in Stage(m, j)
                \/ n \notin Unpassed /\ x \in Stage(n, j)
                \/ x = sock /\ j = p
    <3>1. CASE n \in {"queued", "sent"} /\ j = p
      <4>1. x \in Waiters(p)'
          BY <2>17, <3>1, FiveStages DEF Waiters
      <4>2. x \in Waiters(p) \/ x = sock
          BY <2>15, <4>1
      <4> QED BY <3>1, <4>2, FiveStages DEF Waiters, Unpassed
    <3>2. CASE ~(n \in {"queued", "sent"} /\ j = p)
      <4>1. x \in Stage(n, j)
          BY <1>0, <2>8, <2>15, <2>17, <3>2 DEF Stage, Stages, Landed, hostVars
      <4> QED BY <4>1
    <3> QED BY <3>1, <3>2
  <2>18. Travellers'
    <3>1. Handed(sock)'
        BY <1>0, <1>1, <2>2, <2>10 DEF Handed
    <3>2. p \notin Hubbed' /\ PipeThen(p, conns'[sock.conn].id)
        BY <1>0, <1>1, <2>1, <2>4, <2>5, <2>10 DEF PipeThen
    <3>3. Unpassed \subseteq Stages
        BY DEF Unpassed, Stages
    <3>4. \A n \in Stages, j \in Conns : \A x \in Stage(n, j)' :
            (\E m \in Stages : x \in Stage(m, j)) \/ (x = sock /\ j = p)
        BY <2>17, <3>3
    <3> QED BY <1>0, <1>1, <3>1, <3>2, <3>4, TravelJoin
  <2>19. /\ m_expireSocks' \in Seq(Socks) /\ IsInjective(m_expireSocks')
         /\ ToSet(m_expireSocks') = ToSet(m_expireSocks) \cup {sock}
    <3>1. m_expireSocks \in Seq(Socks) /\ IsInjective(m_expireSocks)
          /\ sock \notin ToSet(m_expireSocks)
        BY <1>0, <1>1, <2>10 DEF TypeOK, HubTables, ToClose
    <3> QED BY <2>7, <3>1, ListAppend
  <2>20. TypeOK'
      BY <1>0, <1>1, <2>7, <2>8, <2>15, <2>19 DEF TypeOK, leftVars, hostVars, Handshakers
  <2>21. HubTables' /\ Alive' = Alive /\ Forgotten' = Forgotten
         /\ ToClose' = ToClose \cup {sock}
    <3>1. Handed(sock)'
        BY <1>0, <1>1, <2>2, <2>10 DEF Handed
    <3>2. /\ Alive' = Alive /\ Forgotten' = Forgotten /\ ToClose' = ToClose \cup {sock}
        BY <1>0, <2>19 DEF Alive, Forgotten, ToClose, leftVars
    <3>3. \A j \in Alive : j \in Made' \ Hubbed' /\ conns'[j].ipc
        BY <1>0, <1>1 DEF HubTables
    <3> QED BY <1>0, <1>1, <1>3, <1>4, <2>19, <3>1, <3>2, <3>3 DEF HubTables, leftVars
  <2>22. Speakers'
      BY <1>0, <1>1, <2>8 DEF Speakers, IsPipe, hostVars
  <2>23. Numbered'
      BY <1>0, <1>1, <2>7 DEF Numbered
  <2>24. ASSUME ~late' PROVE OnTime'
    <3>0. OnTime
        BY <1>0, <2>24 DEF IInv
    <3>1. HubOwns'
      <4>1. InHub' = InHub
          BY <1>1, <2>10, <2>21 DEF InHub
      <4> QED BY <2>7, <3>0, <4>1 DEF OnTime, HubOwns, HubHas
    <3>2. Waits'
      <4>1. ASSUME NEW n \in Stages, NEW j \in DOMAIN m_allPipes, NEW x \in Stage(n, j)'
            PROVE  x \in ToSet(m_expireSocks')
        <5>1. j \in Conns /\ Unpassed \subseteq Stages
            BY <1>0 DEF TypeOK, Unpassed, Stages
        <5>2. (\E m \in Stages : x \in Stage(m, j)) \/ x = sock
            BY <2>17, <4>1, <5>1
        <5> QED BY <2>19, <3>0, <5>2 DEF OnTime, Waits
      <4>2. ASSUME NEW n \in Unpassed, NEW j \in Forgotten, NEW x \in Stage(n, j)'
            PROVE  x \in ToClose'
        <5>1. j \in Conns /\ n \in Stages
            BY <1>0 DEF TypeOK, Forgotten, Unpassed, Stages
        <5>2. (\E m \in Unpassed : x \in Stage(m, j)) \/ x = sock
            BY <2>17, <4>2, <5>1
        <5> QED BY <2>21, <3>0, <5>2 DEF OnTime, Waits
      <4> QED BY <1>0, <2>21, <4>1, <4>2 DEF Waits
    <3>3. Passed'
        BY <1>0, <2>8, <3>0 DEF OnTime, Passed, hostVars
    <3>4. HostTables'
        BY <1>0, <1>1, <3>0, HostsRest DEF OnTime, hostVars
    <3>5. NotYetOpen'
      <4>1. ASSUME NEW n \in Early, NEW j \in Conns, NEW x \in Stage(n, j)', NEW t \in Services
            PROVE  x.conn \notin open[t]
        <5>1. n \in Stages /\ Unpassed \subseteq Early
            BY DEF Unpassed, Early, Stages
        <5>2. (\E m \in Early : x \in Stage(m, j)) \/ x = sock
            BY <2>17, <4>1, <5>1
        <5>3. k \notin open[t]
            BY <1>1, <3>0 DEF OnTime, HostTables
        <5> QED BY <2>10, <3>0, <5>2, <5>3 DEF OnTime, NotYetOpen
      <4> QED BY <1>0, <4>1 DEF NotYetOpen
    <3> QED BY <3>1, <3>2, <3>3, <3>4, <3>5 DEF OnTime
  <2> QED BY <1>2, <2>16, <2>18, <2>20, <2>21, <2>22, <2>23, <2>24 DEF IInv
<1>5. CASE ~(m_acceptor /\ conns[k].id \in DOMAIN m_serviceId2Pipe)
  <2>1. /\ UNCHANGED <<m_expireSocks, pipeVars>> /\ CloseFds({sockId[k]})
        /\ {sockId[k]} = Numbers({k})
      BY <1>5 DEF OnAcceptOther, Numbers
  <2>2. OneJourney' /\ Travellers'
        /\ \A n \in Stages, j \in Conns : Stage(n, j)' = Stage(n, j)
      BY <1>0, <1>1, <2>1, PipesRest DEF hostVars
  <2>3. Numbered' /\ fd' \in [Fds -> 0..MaxConns]
      BY <1>0, <2>1, CloseFdsStep
  <2>4. TypeOK'
      BY <1>0, <1>1, <2>1, <2>3 DEF TypeOK, leftVars, pipeVars, hostVars, Handshakers
  <2>5. HubTables' /\ Alive' = Alive /\ ToClose' = ToClose
      BY <1>0, <1>1, <2>1, TablesRest
  <2>6. Speakers'
      BY <1>0, <1>1, <2>1 DEF Speakers, IsPipe, hostVars, pipeVars
  <2>7. ASSUME ~late' PROVE OnTime'
    <3>0. OnTime
        BY <1>0, <2>7 DEF IInv
    <3>1. \A j \in Conns : HubHas(j)' <=> HubHas(j) /\ j \notin {k}
        BY <1>0, <1>1, <2>1, <3>0, CloseOwned DEF OnTime, InHub
    <3>2. InHub' = InHub \ {k}
        BY <1>1, <2>5 DEF InHub
    <3>3. HubOwns'
        BY <3>0, <3>1, <3>2 DEF OnTime, HubOwns
    <3>4. Waits' /\ Passed'
        BY <1>0, <2>1, <2>2, <3>0, WaitRests DEF OnTime, pipeVars, hostVars
    <3>5. HostTables'
        BY <1>0, <1>1, <3>0, HostsRest DEF OnTime, hostVars
    <3>6. NotYetOpen'
        BY <1>0, <2>2, <3>0 DEF OnTime, NotYetOpen, Early, Stages
    <3> QED BY <3>3, <3>4, <3>5, <3>6 DEF OnTime
  <2> QED BY <1>2, <2>2, <2>3, <2>4, <2>5, <2>6, <2>7 DEF IInv
<1> QED BY <1>4, <1>5

\* The hub's own tables are left alone.
LEMMA HubRests ==
  ASSUME HubTables, Registered, Numbered, UNCHANGED <<conns, fd, sockId, hubVars>>,
         hs'[Hub] = hs[Hub]
  PROVE  /\ Grows /\ Made' = Made /\ Hubbed' = Hubbed
         /\ HubTables' /\ Registered' /\ Numbered' /\ (HubOwns => HubOwns')
<1>1. Hubbed' = Hubbed /\ Made' = Made /\ Apart(Hub)' = Apart(Hub) /\ Grows
    BY DEF Grows, Made, Hubbed, Busy, Apart
<1>2. HubTables' /\ Alive' = Alive /\ ToClose' = ToClose
  <2>1. Apart(Hub)' /\ Hubbed' \subseteq Made'
      BY <1>1 DEF HubTables
  <2> QED BY <1>1, <2>1, TablesRest DEF hubVars
<1>3. Registered' /\ Numbered'
    BY <1>1 DEF Registered, Numbered, hubVars
<1>4. HubOwns => HubOwns'
    BY <1>1, <1>2 DEF HubOwns, HubHas, InHub
<1> QED BY <1>1, <1>2, <1>3, <1>4

\* Nothing goes back to the hub's end of a pipe.
NoneRequeued == \A n \in Unpassed, k \in Conns : \A x \in Stage(n, k)' :
                  \E m \in Unpassed : x \in Stage(m, k)

LEMMA WaitsStep ==
  ASSUME TypeOK, Waits, NoneJoins, NoneRequeued, UNCHANGED leftVars,
         DOMAIN m_allPipes' \subseteq DOMAIN m_allPipes,
         ToSet(m_expireSocks) \subseteq ToSet(m_expireSocks')
  PROVE  Waits'
<1>0. Forgotten' = Forgotten /\ ToClose \subseteq ToClose' /\ Forgotten \subseteq Conns
    BY DEF Forgotten, ToClose, leftVars, TypeOK
<1>1. ASSUME NEW n \in Stages, NEW k \in DOMAIN m_allPipes', NEW x \in Stage(n, k)'
      PROVE  x \in ToSet(m_expireSocks')
  <2>1. k \in Conns /\ k \in DOMAIN m_allPipes
      BY <1>1 DEF TypeOK
  <2>2. PICK m \in Stages : x \in Stage(m, k)
      BY <1>1, <2>1 DEF NoneJoins
  <2> QED BY <2>1, <2>2 DEF Waits
<1>2. ASSUME NEW n \in Unpassed, NEW k \in Forgotten, NEW x \in Stage(n, k)'
      PROVE  x \in ToClose'
  <2>1. PICK m \in Unpassed : x \in Stage(m, k)
      BY <1>0, <1>2 DEF NoneRequeued
  <2> QED BY <1>0, <2>1 DEF Waits
<1> QED BY <1>0, <1>1, <1>2 DEF Waits

LEMMA SenderRests ==
  ASSUME UNCHANGED <<m_fdPackets, sending>>
  PROVE  NoneRequeued
<1>1. \A n \in Unpassed, k \in Conns : Stage(n, k)' = Stage(n, k)
    BY DEF Stage, Unpassed
<1> QED BY <1>1 DEF NoneRequeued

LEMMA OnSendKeeps ==
  ASSUME IInv, NEW k \in Conns, PipeOnSend(k)
  PROVE  IInv'
<1>0. /\ TypeOK /\ OneJourney /\ Travellers /\ HubTables /\ Speakers /\ Registered /\ Numbered
      /\ UNCHANGED <<sockVars, hs, up, hubVars, down, acks, hostVars, late>>
      /\ sending[k] = <<Copy>> /\ Queued(k, m_fdPackets[k], <<>>)
    BY DEF IInv, PipeOnSend
<1>1. /\ Grows /\ Made' = Made /\ Hubbed' = Hubbed
      /\ HubTables' /\ Registered' /\ Numbered' /\ (HubOwns => HubOwns')
    BY <1>0, HubRests DEF sockVars
<1>2. Waiters(k) = Carries(m_fdPackets[k])
  <2>1. Carries(<<Copy>>) = {}
      BY CarriesFew DEF Copy
  <2> QED BY <1>0, <2>1 DEF Waiters
<1>3. /\ m_fdPackets' \in [Conns -> Seq(Packets)]
      /\ sending' \in [Conns -> Seq(Packets \cup {Copy})]
      /\ \A j \in Conns \ {k} : m_fdPackets'[j] = m_fdPackets[j] /\ sending'[j] = sending[j]
      /\ Once(m_fdPackets'[k]) /\ Once(sending'[k]) /\ Len(sending'[k]) <= 1
      /\ Waiters(k)' = Waiters(k)
      /\ Carries(m_fdPackets'[k]) \cap Carries(sending'[k]) = {}
  <2>0. Once(<<>>) /\ Carries(<<>>) = {}
      BY CarriesFew
  <2>1. PICK t \in Seq(Packets \cup {Copy}) : t = <<>> /\ Len(t) <= 1
    <3>1. <<>> \in Seq(Packets \cup {Copy})
        BY EmptySeq
    <3>2. Len(<<>>) = 0
        BY <3>1, EmptySeq
    <3>3. Len(<<>>) <= 1
        BY <3>2
    <3> QED BY <3>1, <3>3
  <2>2. m_fdPackets[k] \in Seq(Packets) /\ Once(m_fdPackets[k])
      BY <1>0 DEF TypeOK, OneJourney
  <2>3. Once(t) /\ Carries(t) = {} /\ Queued(k, m_fdPackets[k], t)
      BY <1>0, <2>0, <2>1
  <2>4. Carries(m_fdPackets[k]) \cap Carries(t) = {}
        /\ Carries(m_fdPackets[k]) \cup Carries(t) = Waiters(k)
      BY <1>2, <2>3
  <2> QED BY <1>0, <2>1, <2>2, <2>3, <2>4, QueuedStep
<1>4. OneJourney'
  <2>1. PICK W : W = Waiters(k)
      OBVIOUS
  <2>2. ASSUME NEW x \in W, NEW n \in Stages, NEW j \in Conns, x \in Stage(n, j)
        PROVE  n \in {"queued", "sent"} /\ j = k
    <3>1. x \in Stage("queued", k) \/ x \in Stage("sent", k)
        BY <2>1, <2>2, FiveStages DEF Waiters
    <3> QED BY <1>0, <2>2, <3>1 DEF OneJourney, Stages
  <2>3. Waiters(k)' \subseteq W /\ UNCHANGED <<down, acks, got>>
      BY <1>0, <1>3, <2>1 DEF hostVars
  <2> QED BY <1>0, <1>3, <2>2, <2>3, QueueMoves
<1>5. ASSUME NEW n \in Stages, NEW j \in Conns, NEW x \in Stage(n, j)'
      PROVE  \E m \in Stages : x \in Stage(m, j) /\ (n \in Early => m \in Early)
                                /\ (n \in Unpassed => m \in Unpassed)
  <2>1. CASE n \in {"queued", "sent"} /\ j = k
    <3>1. x \in Waiters(k)
        BY <1>3, <1>5, <2>1, FiveStages DEF Waiters
    <3>2. x \in Stage("queued", k) \/ x \in Stage("sent", k)
        BY <3>1, FiveStages DEF Waiters
    <3> QED BY <2>1, <3>2 DEF Early, Stages, Unpassed
  <2>2. CASE ~(n \in {"queued", "sent"} /\ j = k)
    <3>1. x \in Stage(n, j)
        BY <1>0, <1>3, <1>5, <2>2 DEF Stage, Stages, Landed, hostVars
    <3> QED BY <3>1
  <2> QED BY <2>1, <2>2
<1>6. NoneJoins /\ NoneReturns /\ NoneRequeued
  <2>1. Early \subseteq Stages /\ Unpassed \subseteq Stages
      BY DEF Early, Stages, Unpassed
  <2> QED BY <1>5, <2>1 DEF NoneJoins, NoneReturns, NoneRequeued
<1>7. Travellers'
    BY <1>0, <1>1, <1>6, TravelStep
<1>8. TypeOK'
    BY <1>0, <1>3 DEF TypeOK, sockVars, hubVars, leftVars, hostVars
<1>9. Speakers'
    BY <1>0, <1>1 DEF Speakers, IsPipe, hostVars, sockVars
<1>10. ASSUME ~late' PROVE OnTime'
  <2>0. OnTime
      BY <1>0, <1>10 DEF IInv
  <2>1. Waits'
      BY <1>0, <1>6, <2>0, WaitsStep DEF OnTime, hubVars, leftVars
  <2>2. Passed'
      BY <1>0, <2>0 DEF OnTime, Passed, hostVars
  <2>3. HostTables'
      BY <1>0, <1>1, <2>0, HostsRest DEF OnTime, hostVars, sockVars
  <2>4. NotYetOpen'
      BY <1>0, <1>6, <2>0, NotYetOpenStep DEF OnTime, sockVars
  <2> QED BY <1>1, <2>0, <2>1, <2>2, <2>3, <2>4 DEF OnTime
<1> QED BY <1>1, <1>4, <1>7, <1>8, <1>9, <1>10 DEF IInv

LEMMA SendsFdKeeps ==
  ASSUME IInv, NEW k \in Conns, PipeSendsFd(k)
  PROVE  IInv'
<1>0. /\ TypeOK /\ OneJourney /\ Travellers /\ HubTables /\ Speakers /\ Registered /\ Numbered
      /\ UNCHANGED <<sockVars, hs, up, hubVars, m_fdPackets, acks, hostVars, late>>
      /\ k \in Alive
    BY DEF IInv, PipeSendsFd
<1>1. /\ Grows /\ Made' = Made /\ Hubbed' = Hubbed
      /\ HubTables' /\ Registered' /\ Numbered' /\ (HubOwns => HubOwns')
    BY <1>0, HubRests DEF sockVars
<1>2. PICK packet \in Packets : sending[k] = <<packet>>
  <2>1. /\ sending[k] \in Seq(Packets \cup {Copy}) /\ sending[k] # <<>> /\ sending[k] # <<Copy>>
        /\ Len(sending[k]) <= 1
      BY <1>0 DEF TypeOK, PipeSendsFd, OneJourney
  <2>2. PICK l \in Nat : l = Len(sending[k]) /\ l # 0 /\ l <= 1
      BY <2>1, LenProperties, EmptySeq
  <2>3. Len(sending[k]) = 1 /\ sending[k][1] \in Packets \cup {Copy}
    <3>0. l = 1
      <4>1. l # 0 /\ l <= 1
          BY <2>2
      <4>2. \A i \in Nat : i # 0 /\ i <= 1 => i = 1
          OBVIOUS
      <4> QED BY <4>1, <4>2, Zenon
    <3>1. Len(sending[k]) = 1
        BY <2>2, <3>0
    <3>2. 1 \in 1..Len(sending[k])
        BY <3>1
    <3> QED BY <2>1, <3>1, <3>2, ElementOfSeq
  <2>4. sending[k] = <<sending[k][1]>>
      BY <2>1, <2>3
  <2> QED BY <2>1, <2>3, <2>4
<1>3. PICK sock \in Socks : sock = packet.sock /\ packet.id \in Services
    BY DEF Packets
<1>4. PICK socket \in Conns : socket = fd[sock.sockId]
  <2>1. fd[sock.sockId] # 0 /\ sock.sockId \in Fds
      BY <1>2, <1>3 DEF PipeSendsFd, Socks
  <2>2. fd[sock.sockId] \in 0..MaxConns
      BY <1>0, <2>1 DEF TypeOK
  <2> QED BY <2>1, <2>2, HubAssumption DEF Conns
<1>5. PICK e \in [sock : Socks, id : Services, socket : Conns] :
        e = [sock |-> sock, id |-> packet.id, socket |-> socket]
    BY <1>3
<1>6. /\ down' = [down EXCEPT ![k] = Append(@, e)]
      /\ sending' = [sending EXCEPT ![k] = <<Copy>>]
    BY <1>2, <1>3, <1>4, <1>5 DEF PipeSendsFd
<1>7. /\ sock # NoSock /\ e.sock = sock /\ e.socket = socket
      /\ sock \in Stage("sent", k)
  <2>1. sock # NoSock
      BY ConnsType DEF NoSock, Socks
  <2>2. Carries(sending[k]) = {sock}
      BY <1>2, <1>3, <2>1, CarriesFew
  <2> QED BY <1>5, <2>1, <2>2, FiveStages
<1>8. sock \notin Carries(down[k]) /\ Once(down[k])
  <2>1. Stage("sent", k) \cap Stage("flying", k) = {}
      BY <1>0 DEF OneJourney, Stages
  <2>2. sock \notin Carries(down[k])
      BY <1>7, <2>1, FiveStages
  <2> QED BY <1>0, <2>2 DEF OneJourney
<1>9. PICK d : d = Append(down[k], e)
    OBVIOUS
<1>10. /\ d \in Seq([sock : Socks, id : Services, socket : Conns]) /\ Once(d)
       /\ Carries(d) = Carries(down[k]) \cup {sock}
  <2>1. PICK T : T = [sock : Socks, id : Services, socket : Conns]
      OBVIOUS
  <2>2. down[k] \in Seq(T) /\ e \in T
      BY <1>0, <2>1 DEF TypeOK
  <2>3. d \in Seq(T) /\ Once(d) /\ Carries(d) = Carries(down[k]) \cup ({sock} \ {NoSock})
      BY <1>7, <1>8, <1>9, <2>2, CarriesAppend
  <2> QED BY <1>7, <2>1, <2>3
<1>11. /\ down'[k] = d /\ sending'[k] = <<Copy>>
       /\ \A j \in Conns \ {k} : down'[j] = down[j] /\ sending'[j] = sending[j]
    BY <1>0, <1>6, <1>9 DEF TypeOK
<1>12. Once(<<Copy>>) /\ Carries(<<Copy>>) = {} /\ Len(<<Copy>>) <= 1
       /\ <<Copy>> \in Seq(Packets \cup {Copy})
    BY CarriesFew DEF Copy
<1>13. TypeOK'
  <2>1. /\ down' \in [Conns -> Seq([sock : Socks, id : Services, socket : Conns])]
        /\ sending' \in [Conns -> Seq(Packets \cup {Copy})]
      BY <1>0, <1>6, <1>9, <1>10, <1>12 DEF TypeOK
  <2> QED BY <1>0, <2>1 DEF TypeOK, sockVars, hubVars, leftVars, hostVars
<1>14. ASSUME NEW n \in Stages, NEW j \in Conns
       PROVE  /\ ~(n \in {"sent", "flying"} /\ j = k) => Stage(n, j)' = Stage(n, j)
              /\ n = "sent" /\ j = k => Stage(n, j)' = {}
              /\ n = "flying" /\ j = k => Stage(n, j)' = Stage(n, j) \cup {sock}
  <2>1. CASE n \in {"sent", "flying"} /\ j = k
      BY <1>10, <1>11, <1>12, <2>1, FiveStages
  <2>2. CASE ~(n \in {"sent", "flying"} /\ j = k)
      BY <1>0, <1>11, <2>2 DEF Stage, Stages, Landed, hostVars
  <2> QED BY <2>1, <2>2
<1>15. ASSUME NEW x PROVE Moves(x)
  <2>1. CASE x = sock
    <3>1. \A n \in Stages, j \in Conns : x \in Stage(n, j) => n = "sent" /\ j = k
        BY <1>0, <1>7, <2>1 DEF OneJourney, Stages
    <3>2. \A n \in Stages, j \in Conns : x \in Stage(n, j)' => n = "flying" /\ j = k
        BY <1>14, <3>1
    <3> QED BY <3>2 DEF Moves, Stages
  <2>2. CASE x # sock
    <3>1. \A n \in Stages, j \in Conns : x \in Stage(n, j)' => x \in Stage(n, j)
        BY <1>14, <2>2
    <3> QED BY <3>1 DEF Moves
  <2> QED BY <2>1, <2>2
<1>16. OneJourney'
  <2>1. AllOnce'
      BY <1>0, <1>10, <1>11, <1>12 DEF AllOnce, OneJourney
  <2>2. GotOnce'
      BY <1>0 DEF GotOnce, OneJourney, hostVars
  <2> QED BY <1>0, <1>15, <2>1, <2>2, JourneyStep
<1>17. NoneJoins /\ NoneReturns /\ NoneRequeued
  <2>1. ASSUME NEW n \in Stages, NEW j \in Conns, NEW x \in Stage(n, j)'
        PROVE  \E m \in Stages : x \in Stage(m, j) /\ (n \in Early => m \in Early)
                                  /\ (n \in Unpassed => m \in Unpassed)
    <3>1. CASE x \in Stage(n, j)
        BY <3>1
    <3>2. CASE x \notin Stage(n, j)
      <4>1. n = "flying" /\ j = k /\ x = sock
          BY <1>14, <2>1, <3>2
      <4> QED BY <1>7, <4>1 DEF Stages, Early, Unpassed
    <3> QED BY <3>1, <3>2
  <2>2. Early \subseteq Stages /\ Unpassed \subseteq Stages
      BY DEF Early, Stages, Unpassed
  <2> QED BY <2>1, <2>2 DEF NoneJoins, NoneReturns, NoneRequeued
<1>18. Travellers'
    BY <1>0, <1>1, <1>17, TravelStep
<1>19. Speakers'
    BY <1>0, <1>1 DEF Speakers, IsPipe, hostVars, sockVars
<1>20. ASSUME ~late' PROVE OnTime'
  <2>0. OnTime
      BY <1>0, <1>20 DEF IInv
  <2>1. Waits'
      BY <1>0, <1>17, <2>0, WaitsStep DEF OnTime, hubVars, leftVars
  <2>2. Passed'
    <3>1. sock \in ToClose /\ Handed(sock)
        BY <1>0, <1>7, <2>0
        DEF OnTime, Waits, Travellers, Stages, Alive, ToClose, Unpassed
    <3>2. sock.conn \in InHub /\ sock.conn \in Conns /\ sock.conn # 0
        BY <3>1, ConnsType DEF InHub, Socks
    <3>3. PICK f \in Fds : fd[f] = sock.conn
        BY <2>0, <3>2 DEF OnTime, HubOwns, HubHas
    <3>4. f = sock.sockId
        BY <1>0, <3>1, <3>2, <3>3 DEF Numbered, Handed
    <3>5. e.socket = e.sock.conn
        BY <1>4, <1>7, <3>3, <3>4
    <3>6. ASSUME NEW j \in Conns, NEW i \in DOMAIN down'[j]
          PROVE  down'[j][i].socket = down'[j][i].sock.conn
      <4>1. CASE j # k
          BY <1>11, <2>0, <3>6, <4>1 DEF OnTime, Passed
      <4>2. CASE j = k
        <5>0. PICK T : down[k] \in Seq(T) /\ e \in T
            BY <1>0 DEF TypeOK
        <5>1. PICK l \in Nat : /\ l = Len(down[k]) /\ DOMAIN down[k] = 1..l
                               /\ DOMAIN d = 1..(l + 1)
                               /\ \A m \in 1..l : d[m] = down[k][m]
                               /\ d[l + 1] = e
            BY <1>9, <5>0, AppendProperties, LenProperties
        <5>2. i \in 1..l \/ i = l + 1
            BY <1>11, <4>2, <5>1
        <5> QED BY <1>11, <2>0, <3>5, <4>2, <5>1, <5>2 DEF OnTime, Passed
      <4> QED BY <4>1, <4>2
    <3>7. \A s \in Services : \A g \in got'[s] : g.socket = g.sock.conn
        BY <1>0, <2>0 DEF OnTime, Passed, hostVars
    <3> QED BY <3>6, <3>7 DEF Passed
  <2>3. HostTables'
      BY <1>0, <1>1, <2>0, HostsRest DEF OnTime, hostVars, sockVars
  <2>4. NotYetOpen'
      BY <1>0, <1>17, <2>0, NotYetOpenStep DEF OnTime, sockVars
  <2> QED BY <1>1, <2>0, <2>1, <2>2, <2>3, <2>4 DEF OnTime
<1> QED BY <1>1, <1>13, <1>16, <1>18, <1>19, <1>20 DEF IInv
-----------------------------------------------------------------------------
(***************************************************************************)
(* The hub is told something.                                              *)
(***************************************************************************)
LEMMA EraseStep ==
  ASSUME TypeOK, HubTables, NEW sock, Erase(sock)
  PROVE  /\ m_expireSocks' \in Seq(Socks) /\ IsInjective(m_expireSocks')
         /\ ToSet(m_expireSocks') = ToSet(m_expireSocks) \ {sock}
<1>0. m_expireSocks \in Seq(Socks) /\ IsInjective(m_expireSocks)
    BY DEF TypeOK, HubTables
<1>1. CASE sock \notin ToSet(m_expireSocks) /\ UNCHANGED m_expireSocks
    BY <1>0, <1>1
<1>2. ASSUME NEW i \in DOMAIN m_expireSocks, m_expireSocks[i] = sock,
             m_expireSocks' = RemoveAt(m_expireSocks, i)
      PROVE  /\ m_expireSocks' \in Seq(Socks) /\ IsInjective(m_expireSocks')
             /\ ToSet(m_expireSocks') = ToSet(m_expireSocks) \ {sock}
    BY <1>0, <1>2, ListRemove
<1> QED BY <1>1, <1>2 DEF Erase

\* Sockets of connections that the hub waits for are told apart by the connection.
LEMMA OneSockEach ==
  ASSUME NEW x, NEW y, Handed(x), Handed(y), x.conn = y.conn
  PROVE  x = y
BY DEF Handed

LEMMA OnRecvKeeps ==
  ASSUME IInv, NEW k \in Conns, OnRecv(k)
  PROVE  IInv'
<1>0. /\ TypeOK /\ OneJourney /\ Travellers /\ HubTables /\ Speakers /\ Registered /\ Numbered
      /\ UNCHANGED <<conns, sockId, open, hs, up, m_acceptor, leftVars, m_fdPackets, sending,
                     down, hostVars, late>>
      /\ k \in DOMAIN m_allPipes /\ acks[k] # <<>> /\ m_acceptor
      /\ acks' = [acks EXCEPT ![k] = Tail(@)]
    BY DEF IInv, OnRecv
<1>1. Hubbed' = Hubbed /\ Made' = Made /\ Apart(Hub)' = Apart(Hub) /\ Grows
    BY <1>0 DEF Grows, Made, Hubbed, Busy, Apart
<1>2. PICK T : T = [id : Services, sock : Socks \cup {NoSock}]
    OBVIOUS
<1>3. /\ acks \in [Conns -> Seq(T)] /\ acks[k] \in Seq(T) /\ Once(acks[k])
    BY <1>0, <1>2 DEF TypeOK, OneJourney
<1>4. PICK m : m = Head(acks[k])
    OBVIOUS
<1>5. /\ Tail(acks[k]) \in Seq(T) /\ Once(Tail(acks[k])) /\ m \in T
      /\ m.sock \in Carries(acks[k]) \cup {NoSock}
      /\ Carries(Tail(acks[k])) = Carries(acks[k]) \ {m.sock}
      /\ 1 \in DOMAIN acks[k] /\ m = acks[k][1]
      /\ {Tail(acks[k])[i] : i \in DOMAIN Tail(acks[k])} \subseteq
           {acks[k][i] : i \in DOMAIN acks[k]}
    BY <1>0, <1>3, <1>4, CarriesTail
<1>6. /\ acks'[k] = Tail(acks[k]) /\ \A j \in Conns \ {k} : acks'[j] = acks[j]
      /\ acks' \in [Conns -> Seq(T)]
    BY <1>0, <1>3, <1>5
<1>7. ASSUME NEW n \in Stages, NEW j \in Conns
      PROVE  /\ Stage(n, j)' \subseteq Stage(n, j)
             /\ n = "acked" /\ j = k => m.sock \notin Stage(n, j)'
  <2>1. CASE n = "acked" /\ j = k
    <3>1. /\ Stage("acked", k)' = Carries(Tail(acks[k]))
          /\ Stage("acked", k) = Carries(acks[k])
        BY <1>6, FiveStages
    <3> QED BY <1>5, <2>1, <3>1
  <2>2. CASE ~(n = "acked" /\ j = k)
      BY <1>0, <1>6, <2>2 DEF Stage, Stages, Landed, hostVars
  <2> QED BY <2>1, <2>2
<1>8. OneJourney'
  <2>1. \A x : Moves(x)
      BY <1>7 DEF Moves
  <2>2. AllOnce'
      BY <1>0, <1>5, <1>6 DEF AllOnce, OneJourney
  <2>3. GotOnce'
      BY <1>0 DEF GotOnce, OneJourney, hostVars
  <2> QED BY <1>0, <2>1, <2>2, <2>3, JourneyStep
<1>9. NoneJoins /\ NoneReturns
  <2>1. Early \subseteq Stages
      BY DEF Early, Stages
  <2> QED BY <1>7, <2>1 DEF NoneJoins, NoneReturns
<1>10. Travellers'
    BY <1>0, <1>1, <1>9, TravelStep
<1>11. Speakers'
  <2>1. ASSUME NEW j \in Conns, NEW i \in DOMAIN acks'[j] PROVE PipeThen(j, acks'[j][i].id)
    <3>1. PICK i1 \in DOMAIN acks[j] : acks'[j][i] = acks[j][i1]
      <4>1. CASE j = k
          BY <1>5, <1>6, <2>1, <4>1
      <4>2. CASE j # k
          BY <1>6, <2>1, <4>2
      <4> QED BY <4>1, <4>2
    <3> QED BY <1>0, <1>1, <3>1, PipeStays DEF Speakers
  <2>2. \A s \in Services : /\ m_connector[s] # 0 => PipeThen(m_connector[s], s)
                            /\ m_pipe[s] # 0 => PipeThen(m_pipe[s], s)
      BY <1>0, <1>1, PipeStays DEF Speakers
  <2>3. m_connector' = m_connector /\ m_pipe' = m_pipe
      BY <1>0 DEF hostVars
  <2> QED BY <2>1, <2>2, <2>3, SpeakersStep
<1>12. IsPipe(k, m.id) /\ m.id \in Services /\ conns[k].id = m.id
  <2>1. IsPipe(k, m.id)
      BY <1>0, <1>5 DEF Speakers
  <2> QED BY <1>2, <1>5, <2>1 DEF IsPipe
<1>13. PICK sp : sp = m_allPipes[k]
    OBVIOUS
<1>14. /\ IF sp.pending /\ m.id \notin DOMAIN m_serviceId2Pipe
            THEN /\ m_allPipes' = [m_allPipes EXCEPT
                                     ![k] = [pending |-> FALSE, serviceId |-> m.id]]
                 /\ m_serviceId2Pipe' = With(m_serviceId2Pipe, m.id, k)
            ELSE UNCHANGED <<m_allPipes, m_serviceId2Pipe>>
       /\ IF ~sp.pending /\ m.id = sp.serviceId /\ m.sock # NoSock
            THEN Erase(m.sock) /\ CloseFds({m.sock.sockId})
            ELSE UNCHANGED <<m_expireSocks, fd>>
    BY <1>4, <1>13 DEF OnRecv
<1>15. /\ DOMAIN m_allPipes' = DOMAIN m_allPipes /\ Registered'
       /\ DOMAIN m_serviceId2Pipe' \subseteq Services
  <2>1. CASE sp.pending /\ m.id \notin DOMAIN m_serviceId2Pipe
    <3>1. /\ DOMAIN m_allPipes' = DOMAIN m_allPipes
          /\ m_allPipes'[k] = [pending |-> FALSE, serviceId |-> m.id]
          /\ \A j \in DOMAIN m_allPipes \ {k} : m_allPipes'[j] = m_allPipes[j]
        BY <1>0, <1>14, <2>1
    <3>2. /\ DOMAIN m_serviceId2Pipe' = DOMAIN m_serviceId2Pipe \cup {m.id}
          /\ m_serviceId2Pipe'[m.id] = k
          /\ \A s \in DOMAIN m_serviceId2Pipe : m_serviceId2Pipe'[s] = m_serviceId2Pipe[s]
        BY <1>14, <2>1 DEF With
    <3>3. ASSUME NEW s \in DOMAIN m_serviceId2Pipe PROVE m_serviceId2Pipe[s] # k
      <4>1. ASSUME m_serviceId2Pipe[s] = k PROVE FALSE
        <5>1. sp = [pending |-> FALSE, serviceId |-> s]
            BY <1>0, <1>13, <4>1 DEF Registered
        <5>2. sp.pending = FALSE
            BY <5>1
        <5> QED BY <2>1, <5>2, Zenon
      <4> QED BY <4>1
    <3>4. ASSUME NEW s \in DOMAIN m_serviceId2Pipe'
          PROVE  /\ m_serviceId2Pipe'[s] \in DOMAIN m_allPipes'
                 /\ m_allPipes'[m_serviceId2Pipe'[s]] = [pending |-> FALSE, serviceId |-> s]
                 /\ conns'[m_serviceId2Pipe'[s]].id = s
      <4>1. CASE s = m.id
          BY <1>0, <1>12, <3>1, <3>2, <4>1
      <4>2. CASE s \in DOMAIN m_serviceId2Pipe
          BY <1>0, <3>1, <3>2, <3>3, <4>2 DEF Registered
      <4> QED BY <3>2, <4>1, <4>2
    <3>5. ASSUME NEW j \in DOMAIN m_allPipes'
          PROVE  \/ m_allPipes'[j] = [pending |-> TRUE, serviceId |-> 0]
                 \/ \E s \in DOMAIN m_serviceId2Pipe' :
                      /\ m_serviceId2Pipe'[s] = j
                      /\ m_allPipes'[j] = [pending |-> FALSE, serviceId |-> s]
      <4>1. CASE j = k
          BY <3>1, <3>2, <4>1
      <4>2. CASE j # k
          BY <1>0, <3>1, <3>2, <4>2 DEF Registered
      <4> QED BY <4>1, <4>2
    <3>6. Registered'
        BY <3>4, <3>5 DEF Registered
    <3> QED BY <1>0, <1>12, <3>1, <3>2, <3>6 DEF TypeOK
  <2>2. CASE ~(sp.pending /\ m.id \notin DOMAIN m_serviceId2Pipe)
    <3>1. m_allPipes' = m_allPipes /\ m_serviceId2Pipe' = m_serviceId2Pipe /\ conns' = conns
        BY <1>0, <1>14, <2>2
    <3> QED BY <1>0, <3>1 DEF Registered, TypeOK
  <2> QED BY <2>1, <2>2
<1>16. CASE ~sp.pending /\ m.id = sp.serviceId /\ m.sock # NoSock
  <2>1. PICK sock \in Socks : sock = m.sock
      BY <1>2, <1>5, <1>16
  <2>2. Erase(sock) /\ CloseFds({sock.sockId})
      BY <1>14, <1>16, <2>1
  <2>3. /\ m_expireSocks' \in Seq(Socks) /\ IsInjective(m_expireSocks')
        /\ ToSet(m_expireSocks') = ToSet(m_expireSocks) \ {sock}
      BY <1>0, <2>2, EraseStep
  <2>4. sock \in Stage("acked", k)
      BY <1>5, <1>16, <2>1, FiveStages
  <2>5. Handed(sock)
      BY <1>0, <2>4 DEF Travellers, Stages
  <2>6. Numbered' /\ fd' \in [Fds -> 0..MaxConns]
      BY <1>0, <2>2, CloseFdsStep
  <2>7. TypeOK'
      BY <1>0, <1>2, <1>6, <1>15, <2>3, <2>6 DEF TypeOK, leftVars, hostVars
  <2>8. /\ HubTables' /\ Alive' = Alive /\ Forgotten' = Forgotten /\ ToClose' = ToClose \ {sock}
    <3>0. m_acceptor /\ finiSocks = {}
        BY <1>0 DEF HubTables
    <3>1. /\ Alive' = Alive /\ Forgotten' = Forgotten /\ ToClose' = ToClose \ {sock}
        BY <1>0, <1>15, <2>3, <3>0 DEF Alive, Forgotten, ToClose, leftVars
    <3>2. \A x \in ToClose' : Handed(x)'
        BY <1>0, <1>1, <3>1, Stable DEF HubTables
    <3>3. \A j \in Alive' : j \in Made' \ Hubbed' /\ conns'[j].ipc
        BY <1>0, <1>1, <3>1 DEF HubTables
    <3> QED BY <1>0, <1>1, <1>15, <2>3, <3>0, <3>1, <3>2, <3>3 DEF HubTables, leftVars
  <2>9. ASSUME ~late' PROVE OnTime'
    <3>0. OnTime
        BY <1>0, <2>9 DEF IInv
    <3>1. sock \in ToSet(m_expireSocks)
        BY <1>0, <2>4, <3>0 DEF OnTime, Waits, Stages
    <3>2. PICK c \in Conns : c = sock.conn /\ c \in InHub
        BY <3>1 DEF InHub, Socks, ToClose
    <3>3. CloseFds(Numbers({c}))
      <4>1. Numbers({c}) = {sock.sockId}
          BY <2>5, <3>2 DEF Numbers, Handed
      <4> QED BY <2>2, <4>1
    <3>4. \A j \in Conns : HubHas(j)' <=> HubHas(j) /\ j \notin {c}
        BY <1>0, <3>0, <3>2, <3>3, CloseOwned DEF OnTime
    <3>5. InHub' = InHub \ {c}
      <4>1. c \notin Hubbed /\ c \notin Alive
          BY <1>0, <2>5, <3>2 DEF Handed, HubTables
      <4>2. \A x \in ToClose : x.conn = c => x = sock
          BY <1>0, <2>5, <3>2, OneSockEach DEF HubTables
      <4>3. {x.conn : x \in ToClose'} = {x.conn : x \in ToClose} \ {c}
          BY <2>8, <3>2, <4>2
      <4> QED BY <1>1, <2>8, <4>1, <4>3 DEF InHub
    <3>6. HubOwns'
        BY <3>0, <3>4, <3>5 DEF OnTime, HubOwns
    <3>7. Waits'
      <4>1. ASSUME NEW n \in Stages, NEW j \in DOMAIN m_allPipes', NEW x \in Stage(n, j)'
            PROVE  x \in ToSet(m_expireSocks')
        <5>1. j \in Conns /\ j \in DOMAIN m_allPipes
            BY <1>0, <1>15 DEF TypeOK
        <5>2. x \in Stage(n, j)
            BY <1>7, <4>1, <5>1
        <5>3. x \in ToSet(m_expireSocks)
            BY <3>0, <5>1, <5>2 DEF OnTime, Waits
        <5>4. ASSUME x = sock PROVE FALSE
          <6>1. n = "acked" /\ j = k
              BY <1>0, <2>4, <5>1, <5>2, <5>4 DEF OneJourney, Stages
          <6> QED BY <1>7, <2>1, <4>1, <5>1, <5>4, <6>1
        <5> QED BY <2>3, <5>3, <5>4
      <4>2. ASSUME NEW n \in Unpassed, NEW j \in Forgotten, NEW x \in Stage(n, j)'
            PROVE  x \in ToClose'
        <5>1. j \in Conns /\ n \in Stages /\ n # "acked"
            BY <1>0 DEF TypeOK, Forgotten, Unpassed, Stages
        <5>2. x \in Stage(n, j)
            BY <1>7, <4>2, <5>1
        <5>3. x # sock
            BY <1>0, <2>4, <5>1, <5>2 DEF OneJourney, Stages
        <5> QED BY <2>8, <3>0, <5>2, <5>3 DEF OnTime, Waits
      <4> QED BY <2>8, <4>1, <4>2 DEF Waits
    <3>8. Passed'
        BY <1>0, <3>0 DEF OnTime, Passed, hostVars
    <3>9. HostTables'
        BY <1>0, <1>1, <3>0, HostsRest DEF OnTime, hostVars
    <3>10. NotYetOpen'
        BY <1>0, <1>9, <3>0, NotYetOpenStep DEF OnTime
    <3> QED BY <3>6, <3>7, <3>8, <3>9, <3>10 DEF OnTime
  <2> QED BY <1>8, <1>10, <1>11, <1>15, <2>6, <2>7, <2>8, <2>9 DEF IInv
<1>17. CASE ~(~sp.pending /\ m.id = sp.serviceId /\ m.sock # NoSock)
  <2>1. m_expireSocks' = m_expireSocks /\ fd' = fd
      BY <1>14, <1>17
  <2>2. TypeOK'
      BY <1>0, <1>2, <1>6, <1>15, <2>1 DEF TypeOK, leftVars, hostVars
  <2>3. HubTables' /\ Numbered' /\ Alive' = Alive /\ ToClose' = ToClose
    <3>1. Alive' = Alive /\ Forgotten' = Forgotten /\ ToClose' = ToClose
        BY <1>0, <1>15, <2>1 DEF Alive, Forgotten, ToClose, leftVars
    <3> QED BY <1>0, <1>1, <1>15, <2>1, <3>1 DEF HubTables, Numbered, Handed, leftVars
  <2>4. ASSUME ~late' PROVE OnTime'
    <3>0. OnTime
        BY <1>0, <2>4 DEF IInv
    <3>1. HubOwns'
        BY <1>1, <2>1, <2>3, <3>0 DEF OnTime, HubOwns, HubHas, InHub
    <3>2. Waits'
        BY <1>0, <1>9, <1>15, <2>1, <3>0, WaitsStep, SenderRests DEF OnTime
    <3>3. Passed'
        BY <1>0, <3>0 DEF OnTime, Passed, hostVars
    <3>4. HostTables'
        BY <1>0, <1>1, <3>0, HostsRest DEF OnTime, hostVars
    <3>5. NotYetOpen'
        BY <1>0, <1>9, <3>0, NotYetOpenStep DEF OnTime
    <3> QED BY <3>1, <3>2, <3>3, <3>4, <3>5 DEF OnTime
  <2> QED BY <1>8, <1>10, <1>11, <1>15, <2>2, <2>3, <2>4 DEF IInv
<1> QED BY <1>16, <1>17
-----------------------------------------------------------------------------
(***************************************************************************)
(* Pipes and sockets that the hub forgets.                                 *)
(***************************************************************************)
LEMMA StagesInPipe ==
  ASSUME NEW n \in Stages, NEW k \in Conns, NEW x \in Stage(n, k)
  PROVE  InPipe(k, x)
BY DEF Stage, Stages, Carries, Landed, InPipe, Unsent

\* What a stage at the hub's end has is still to be sent.
LEMMA StagesUnsent ==
  ASSUME NEW n \in Unpassed, NEW k \in Conns, NEW x \in Stage(n, k)
  PROVE  Unsent(k, x)
BY DEF Stage, Unpassed, Carries, Unsent

LEMMA DropKeeps ==
  ASSUME IInv, NEW K \in SUBSET DOMAIN m_allPipes, NEW D \in SUBSET Alive,
         NEW S \in SUBSET ToClose, Drop(K, D, S), LeftInOrder'
  PROVE  IInv'
<1>0. /\ TypeOK /\ OneJourney /\ Travellers /\ HubTables /\ Speakers /\ Registered /\ Numbered
      /\ UNCHANGED <<conns, sockId, open, hs, up, down, hostVars>>
      /\ Alive' = Alive \ D /\ ToClose' = ToClose \ S
      /\ CloseFds(Numbers(D) \cup {x.sockId : x \in S})
      /\ Alive \subseteq Conns /\ DOMAIN m_allPipes \subseteq Alive /\ Forgotten \subseteq Alive
    BY DEF IInv, Drop, TypeOK, Alive, Forgotten
<1>1. Hubbed' = Hubbed /\ Made' = Made /\ Apart(Hub)' = Apart(Hub) /\ Grows
    BY <1>0 DEF Grows, Made, Hubbed, Busy, Apart
<1>2. /\ \A k \in Conns : /\ m_fdPackets'[k] = IF k \in D THEN <<>> ELSE m_fdPackets[k]
                          /\ sending'[k] = IF k \in D THEN <<>> ELSE sending[k]
                          /\ acks'[k] = IF k \in K THEN <<>> ELSE acks[k]
      /\ down' = down
      /\ DOMAIN m_allPipes' = DOMAIN m_allPipes \ K
      /\ \A k \in DOMAIN m_allPipes' : m_allPipes'[k] = m_allPipes[k]
    BY DEF Drop
<1>3. /\ DOMAIN m_serviceId2Pipe' =
           {s \in DOMAIN m_serviceId2Pipe : m_serviceId2Pipe[s] \notin K}
      /\ \A s \in DOMAIN m_serviceId2Pipe' : m_serviceId2Pipe'[s] = m_serviceId2Pipe[s]
    BY DEF Drop
<1>4. /\ m_fdPackets' \in [Conns -> Seq(Packets)]
      /\ sending' \in [Conns -> Seq(Packets \cup {Copy})]
      /\ acks' \in [Conns -> Seq([id : Services, sock : Socks \cup {NoSock}])]
  <2>1. PICK T : T = [id : Services, sock : Socks \cup {NoSock}]
      OBVIOUS
  <2>2. /\ <<>> \in Seq(Packets) /\ <<>> \in Seq(Packets \cup {Copy}) /\ <<>> \in Seq(T)
      BY EmptySeq
  <2>3. m_fdPackets' \in [Conns -> Seq(Packets)]
      BY <1>0, <2>2 DEF Drop, TypeOK
  <2>4. sending' \in [Conns -> Seq(Packets \cup {Copy})]
      BY <1>0, <2>2 DEF Drop, TypeOK
  <2>5. acks' \in [Conns -> Seq(T)]
      BY <1>0, <2>1, <2>2 DEF Drop, TypeOK
  <2> QED BY <2>1, <2>3, <2>4, <2>5
<1>5. ASSUME NEW n \in Stages, NEW j \in Conns PROVE Stage(n, j)' \subseteq Stage(n, j)
  <2>1. Carries(<<>>) = {}
      BY CarriesFew
  <2>2. Landed(j)' = Landed(j)
      BY <1>0 DEF Landed, hostVars
  <2>3. /\ Carries(m_fdPackets'[j]) \subseteq Carries(m_fdPackets[j])
        /\ Carries(sending'[j]) \subseteq Carries(sending[j])
        /\ Carries(acks'[j]) \subseteq Carries(acks[j])
        /\ Carries(down'[j]) = Carries(down[j])
      BY <1>2, <2>1
  <2> QED BY <2>2, <2>3, FiveStages DEF Stages
<1>6. OneJourney'
  <2>1. \A x : Moves(x)
      BY <1>5 DEF Moves
  <2>2. AllOnce'
    <3>1. Once(<<>>) /\ Len(<<>>) <= 1
      <4>1. Once(<<>>)
          BY CarriesFew
      <4>2. Len(<<>>) = 0
          BY EmptySeq
      <4> QED BY <4>1, <4>2
    <3> QED BY <1>0, <1>2, <3>1 DEF AllOnce, OneJourney
  <2>3. GotOnce'
      BY <1>0 DEF GotOnce, OneJourney, hostVars
  <2> QED BY <1>0, <2>1, <2>2, <2>3, JourneyStep
<1>7. NoneJoins /\ NoneReturns
  <2>1. Early \subseteq Stages
      BY DEF Early, Stages
  <2> QED BY <1>5, <2>1 DEF NoneJoins, NoneReturns
<1>8. Travellers'
    BY <1>0, <1>1, <1>7, TravelStep
<1>9. Numbered' /\ fd' \in [Fds -> 0..MaxConns]
    BY <1>0, CloseFdsStep
<1>10. TypeOK'
  <2>1. DOMAIN m_allPipes' \subseteq Conns /\ DOMAIN m_serviceId2Pipe' \subseteq Services
      BY <1>0, <1>2, <1>3 DEF TypeOK
  <2> QED BY <1>0, <1>2, <1>4, <1>9, <2>1 DEF TypeOK, hostVars, LeftInOrder
<1>11. HubTables'
  <2>1. \A x \in ToClose' : Handed(x)'
      BY <1>0, <1>1, Stable DEF HubTables
  <2>2. \A j \in Alive' : j \in Made' \ Hubbed' /\ conns'[j].ipc
      BY <1>0, <1>1 DEF HubTables
  <2> QED BY <1>0, <1>1, <2>1, <2>2 DEF HubTables, LeftInOrder
<1>12. Speakers'
  <2>1. ASSUME NEW j \in Conns, NEW i \in DOMAIN acks'[j] PROVE PipeThen(j, acks'[j][i].id)
    <3>1. j \notin K
        BY <1>2, <2>1
    <3>2. i \in DOMAIN acks[j] /\ acks'[j][i] = acks[j][i]
        BY <1>2, <2>1, <3>1
    <3> QED BY <1>0, <1>1, <3>2, PipeStays DEF Speakers
  <2>2. \A s \in Services : /\ m_connector[s] # 0 => PipeThen(m_connector[s], s)
                            /\ m_pipe[s] # 0 => PipeThen(m_pipe[s], s)
      BY <1>0, <1>1, PipeStays DEF Speakers
  <2>3. m_connector' = m_connector /\ m_pipe' = m_pipe
      BY <1>0 DEF hostVars
  <2> QED BY <2>1, <2>2, <2>3, SpeakersStep
<1>13. Registered'
  <2>1. ASSUME NEW s \in DOMAIN m_serviceId2Pipe'
        PROVE  /\ m_serviceId2Pipe'[s] \in DOMAIN m_allPipes'
               /\ m_allPipes'[m_serviceId2Pipe'[s]] = [pending |-> FALSE, serviceId |-> s]
               /\ conns'[m_serviceId2Pipe'[s]].id = s
    <3>1. /\ s \in DOMAIN m_serviceId2Pipe /\ m_serviceId2Pipe[s] \notin K
          /\ m_serviceId2Pipe'[s] = m_serviceId2Pipe[s]
        BY <1>3, <2>1
    <3>2. PICK p : /\ p = m_serviceId2Pipe[s] /\ p \in DOMAIN m_allPipes /\ conns[p].id = s
                   /\ m_allPipes[p] = [pending |-> FALSE, serviceId |-> s]
        BY <1>0, <3>1 DEF Registered
    <3>3. p \in DOMAIN m_allPipes' /\ m_allPipes'[p] = m_allPipes[p] /\ conns' = conns
        BY <1>0, <1>2, <3>1, <3>2
    <3> QED BY <3>1, <3>2, <3>3
  <2>2. ASSUME NEW j \in DOMAIN m_allPipes'
        PROVE  \/ m_allPipes'[j] = [pending |-> TRUE, serviceId |-> 0]
               \/ \E s \in DOMAIN m_serviceId2Pipe' :
                    /\ m_serviceId2Pipe'[s] = j
                    /\ m_allPipes'[j] = [pending |-> FALSE, serviceId |-> s]
    <3>1. j \in DOMAIN m_allPipes /\ j \notin K /\ m_allPipes'[j] = m_allPipes[j]
        BY <1>2, <2>2
    <3>2. CASE m_allPipes[j] = [pending |-> TRUE, serviceId |-> 0]
        BY <3>1, <3>2
    <3>3. ASSUME NEW s \in DOMAIN m_serviceId2Pipe, m_serviceId2Pipe[s] = j,
                 m_allPipes[j] = [pending |-> FALSE, serviceId |-> s]
          PROVE  \E t \in DOMAIN m_serviceId2Pipe' :
                   /\ m_serviceId2Pipe'[t] = j
                   /\ m_allPipes'[j] = [pending |-> FALSE, serviceId |-> t]
        BY <1>3, <3>1, <3>3
    <3> QED BY <1>0, <3>1, <3>2, <3>3 DEF Registered
  <2> QED BY <2>1, <2>2 DEF Registered
<1>14. ASSUME ~late' PROVE OnTime'
  <2>0. /\ OnTime
        /\ \A x \in S, k \in DOMAIN m_allPipes \ K : ~InPipe(k, x)
        /\ \A x \in S, k \in Forgotten' : ~Unsent(k, x)
      BY <1>14 DEF Drop, IInv
  <2>1. PICK C : C = D \cup {x.conn : x \in S}
      OBVIOUS
  <2>2. /\ S \subseteq Socks
        /\ \A x \in S : Handed(x) /\ x.conn \notin Alive /\ x.conn \notin Hubbed
    <3>1. ToClose \subseteq Socks
      <4>1. m_expireSocks \in Seq(Socks) /\ finiSocks \subseteq Socks
          BY <1>0 DEF TypeOK
      <4> QED BY <4>1, ElementOfSeq, LenProperties DEF ToSet, ToClose
    <3> QED BY <1>0, <3>1 DEF HubTables, Handed
  <2>3. C \subseteq Conns /\ C \subseteq InHub
      BY <1>0, <2>1, <2>2 DEF InHub, Socks
  <2>4. Numbers(C) = Numbers(D) \cup {x.sockId : x \in S}
    <3>1. \A x \in S : sockId[x.conn] = x.sockId
        BY <2>2 DEF Handed
    <3> QED BY <2>1, <3>1 DEF Numbers
  <2>5. \A j \in Conns : HubHas(j)' <=> HubHas(j) /\ j \notin C
      BY <1>0, <2>0, <2>3, <2>4, CloseOwned DEF OnTime
  <2>6. InHub' = InHub \ C
    <3>1. \A x \in ToClose, y \in S : x.conn = y.conn => x = y
        BY <1>0, <2>2, OneSockEach DEF HubTables
    <3>2. \A x \in ToClose : x.conn \notin D
        BY <1>0 DEF HubTables, Handed
    <3>3. {x.conn : x \in ToClose'} = {x.conn : x \in ToClose} \ C
        BY <1>0, <2>1, <3>1, <3>2
    <3>4. Hubbed \cap C = {} /\ Alive \ D = Alive \ C
        BY <1>0, <2>1, <2>2 DEF HubTables
    <3> QED BY <1>0, <1>1, <3>3, <3>4 DEF InHub
  <2>7. HubOwns'
      BY <2>0, <2>5, <2>6 DEF OnTime, HubOwns
  <2>8. Waits'
    <3>1. ASSUME NEW n \in Stages, NEW j \in DOMAIN m_allPipes', NEW x \in Stage(n, j)'
          PROVE  x \in ToSet(m_expireSocks')
      <4>1. j \in Conns /\ j \in DOMAIN m_allPipes \ K
          BY <1>0, <1>2, <3>1
      <4>2. x \in Stage(n, j)
          BY <1>5, <3>1, <4>1
      <4>3. x \in ToSet(m_expireSocks)
          BY <2>0, <4>1, <4>2 DEF OnTime, Waits
      <4>4. InPipe(j, x)
          BY <4>1, <4>2, StagesInPipe
      <4>5. ToSet(m_expireSocks') = ToSet(m_expireSocks) \ S
          BY <3>1 DEF Drop
      <4> QED BY <2>0, <4>1, <4>3, <4>4, <4>5
    <3>2. ASSUME NEW n \in Unpassed, NEW j \in Forgotten', NEW x \in Stage(n, j)'
          PROVE  x \in ToClose'
      <4>1. j \in Alive /\ j \in Conns /\ n \in Stages
          BY <1>0 DEF Alive, Unpassed, Stages
      <4>2. x \in Stage(n, j)
          BY <1>5, <3>2, <4>1
      <4>3. x \in ToClose
          BY <2>0, <4>1, <4>2 DEF OnTime, Waits, Alive, ToClose
      <4>4. Unsent(j, x)
          BY <4>1, <4>2, StagesUnsent
      <4> QED BY <1>0, <2>0, <4>3, <4>4
    <3> QED BY <3>1, <3>2 DEF Waits
  <2>9. Passed'
      BY <1>0, <1>2, <2>0 DEF OnTime, Passed, hostVars
  <2>10. HostTables'
      BY <1>0, <1>1, <2>0, HostsRest DEF OnTime, hostVars
  <2>11. NotYetOpen'
      BY <1>0, <1>7, <2>0, NotYetOpenStep DEF OnTime
  <2> QED BY <2>7, <2>8, <2>9, <2>10, <2>11 DEF OnTime
<1> QED BY <1>6, <1>8, <1>9, <1>10, <1>11, <1>12, <1>13, <1>14 DEF IInv
-----------------------------------------------------------------------------
(***************************************************************************)
(* The hosts.                                                              *)
(***************************************************************************)
LEMMA SaysStep ==
  ASSUME TypeOK, Speakers, Grows, NEW k \in Conns, NEW s \in Services, IsPipe(k, s),
         NEW sock \in Socks \cup {NoSock}, Once(acks[k]), sock \notin Carries(acks[k]),
         acks' = [acks EXCEPT ![k] = Append(@, Says(s, sock))]
  PROVE  /\ acks' \in [Conns -> Seq([id : Services, sock : Socks \cup {NoSock}])]
         /\ Once(acks'[k]) /\ Carries(acks'[k]) = Carries(acks[k]) \cup ({sock} \ {NoSock})
         /\ \A j \in Conns \ {k} : acks'[j] = acks[j]
         /\ \A j \in Conns : \A i \in DOMAIN acks'[j] : PipeThen(j, acks'[j][i].id)
<1>1. PICK T : T = [id : Services, sock : Socks \cup {NoSock}]
    OBVIOUS
<1>2. PICK e \in T : e = Says(s, sock) /\ e.sock = sock /\ e.id = s
    BY <1>1 DEF Says
<1>3. acks \in [Conns -> Seq(T)] /\ acks[k] \in Seq(T)
    BY <1>1 DEF TypeOK
<1>4. PICK a : a = Append(acks[k], e)
    OBVIOUS
<1>5. /\ a \in Seq(T) /\ Once(a) /\ Carries(a) = Carries(acks[k]) \cup ({sock} \ {NoSock})
    BY <1>2, <1>3, <1>4, CarriesAppend
<1>6. /\ acks' \in [Conns -> Seq(T)] /\ acks'[k] = a
      /\ \A j \in Conns \ {k} : acks'[j] = acks[j]
    BY <1>2, <1>3, <1>4, <1>5
<1>7. ASSUME NEW j \in Conns, NEW i \in DOMAIN acks'[j] PROVE PipeThen(j, acks'[j][i].id)
  <2>1. CASE j # k
    <3>1. i \in DOMAIN acks[j] /\ acks'[j][i] = acks[j][i]
        BY <1>6, <1>7, <2>1
    <3> QED BY <3>1, PipeStays DEF Speakers
  <2>2. CASE j = k
    <3>1. PICK l \in Nat : /\ l = Len(acks[k]) /\ DOMAIN acks[k] = 1..l
                           /\ DOMAIN a = 1..(l + 1)
                           /\ \A m \in 1..l : a[m] = acks[k][m]
                           /\ a[l + 1] = e
        BY <1>3, <1>4, AppendProperties, LenProperties
    <3>2. CASE i \in 1..l
      <4>1. IsPipe(k, a[i].id)
          BY <3>1, <3>2 DEF Speakers
      <4> QED BY <1>6, <2>2, <4>1, PipeStays
    <3>3. CASE i = l + 1
      <4>1. IsPipe(k, a[i].id)
          BY <1>2, <3>1, <3>3
      <4> QED BY <1>6, <2>2, <4>1, PipeStays
    <3> QED BY <1>6, <1>7, <2>2, <3>1, <3>2, <3>3
  <2> QED BY <2>1, <2>2
<1> QED BY <1>1, <1>5, <1>6, <1>7

LEMMA TalksKeeps ==
  ASSUME IInv, NEW s \in Services, Talks(s)
  PROVE  IInv'
<1>0. /\ TypeOK /\ OneJourney /\ Travellers /\ HubTables /\ Speakers /\ Registered /\ Numbered
      /\ UNCHANGED <<sockVars, hs, up, hubVars, m_fdPackets, sending, down, m_host, got, late>>
      /\ Made \subseteq Conns
  <2>1. Made \subseteq Conns
    <3>1. PICK l \in Nat : l = Len(conns) /\ l <= MaxConns
        BY LenProperties DEF IInv, TypeOK
    <3> QED BY <3>1, HubAssumption DEF Made, Conns
  <2> QED BY <2>1 DEF IInv, Talks, OnConnectOk, OnConnectError, Heartbeat, hostVars, pipeVars
<1>1. /\ Grows /\ Made' = Made /\ Hubbed' = Hubbed
      /\ HubTables' /\ Registered' /\ Numbered' /\ (HubOwns => HubOwns')
    BY <1>0, HubRests DEF sockVars
<1>2. /\ m_connector' \in [Services -> 0..MaxConns] /\ m_pipe' \in [Services -> 0..MaxConns]
      /\ \A t \in Services : /\ m_connector'[t] # 0 => IsPipe(m_connector'[t], t)
                             /\ m_pipe'[t] # 0 => IsPipe(m_pipe'[t], t)
  <2>1. CASE OnConnectOk(s)
    <3>1. /\ m_connector' = [m_connector EXCEPT ![s] = 0]
          /\ m_pipe' = [m_pipe EXCEPT ![s] = m_connector[s]]
          /\ m_connector[s] # 0 /\ 0 \in 0..MaxConns
        BY <2>1, HubAssumption DEF OnConnectOk
    <3> QED BY <1>0, <3>1 DEF TypeOK, Speakers
  <2>2. CASE OnConnectError(s)
    <3>1. /\ m_connector' = [m_connector EXCEPT ![s] = 0]
          /\ m_pipe' = m_pipe /\ 0 \in 0..MaxConns
        BY <2>2, HubAssumption DEF OnConnectError
    <3> QED BY <1>0, <3>1 DEF TypeOK, Speakers
  <2>3. CASE Heartbeat(s)
      BY <1>0, <2>3 DEF Heartbeat, hostVars, TypeOK, Speakers
  <2> QED BY <2>1, <2>2, <2>3 DEF Talks
<1>3. \/ acks' = acks
      \/ \E k \in Conns : IsPipe(k, s) /\ acks' = [acks EXCEPT ![k] = Append(@, Says(s, NoSock))]
  <2>1. CASE OnConnectOk(s)
    <3>1. PICK k : k = m_connector[s] /\ k # 0
        BY <2>1 DEF OnConnectOk
    <3>2. IsPipe(k, s) /\ k \in Conns
        BY <1>0, <3>1 DEF Speakers, IsPipe
    <3> QED BY <2>1, <3>1, <3>2 DEF OnConnectOk
  <2>2. CASE OnConnectError(s)
      BY <2>2 DEF OnConnectError, pipeVars
  <2>3. CASE Heartbeat(s)
    <3>1. PICK k : k = m_pipe[s] /\ k # 0
        BY <2>3 DEF Heartbeat
    <3>2. IsPipe(k, s) /\ k \in Conns
        BY <1>0, <3>1 DEF Speakers, IsPipe
    <3> QED BY <2>3, <3>1, <3>2 DEF Heartbeat
  <2> QED BY <2>1, <2>2, <2>3 DEF Talks
<1>4. /\ acks' \in [Conns -> Seq([id : Services, sock : Socks \cup {NoSock}])]
      /\ \A j \in Conns : Once(acks'[j]) /\ Carries(acks'[j]) = Carries(acks[j])
      /\ \A j \in Conns : \A i \in DOMAIN acks'[j] : PipeThen(j, acks'[j][i].id)
  <2>1. CASE acks' = acks
    <3>1. \A j \in Conns : \A i \in DOMAIN acks[j] : PipeThen(j, acks[j][i].id)
        BY <1>0, <1>1, PipeStays DEF Speakers
    <3> QED BY <1>0, <2>1, <3>1 DEF TypeOK, OneJourney
  <2>2. ASSUME NEW k \in Conns, IsPipe(k, s),
               acks' = [acks EXCEPT ![k] = Append(@, Says(s, NoSock))]
        PROVE  /\ acks' \in [Conns -> Seq([id : Services, sock : Socks \cup {NoSock}])]
               /\ \A j \in Conns : Once(acks'[j]) /\ Carries(acks'[j]) = Carries(acks[j])
               /\ \A j \in Conns : \A i \in DOMAIN acks'[j] : PipeThen(j, acks'[j][i].id)
    <3>1. Once(acks[k]) /\ NoSock \notin Carries(acks[k]) /\ NoSock \in Socks \cup {NoSock}
        BY <1>0 DEF OneJourney, Carries
    <3>2. /\ acks' \in [Conns -> Seq([id : Services, sock : Socks \cup {NoSock}])]
          /\ Once(acks'[k]) /\ Carries(acks'[k]) = Carries(acks[k]) \cup ({NoSock} \ {NoSock})
          /\ \A j \in Conns \ {k} : acks'[j] = acks[j]
          /\ \A j \in Conns : \A i \in DOMAIN acks'[j] : PipeThen(j, acks'[j][i].id)
        BY <1>0, <1>1, <2>2, <3>1, SaysStep
    <3>3. ASSUME NEW j \in Conns PROVE Once(acks'[j]) /\ Carries(acks'[j]) = Carries(acks[j])
      <4>1. CASE j = k
          BY <3>2, <4>1
      <4>2. CASE j # k
          BY <1>0, <3>2, <4>2 DEF OneJourney
      <4> QED BY <4>1, <4>2
    <3> QED BY <3>2, <3>3
  <2> QED BY <1>3, <2>1, <2>2
<1>5. ASSUME NEW n \in Stages, NEW j \in Conns PROVE Stage(n, j)' = Stage(n, j)
  <2>1. Landed(j)' = Landed(j)
      BY <1>0 DEF Landed
  <2>2. /\ Carries(m_fdPackets'[j]) = Carries(m_fdPackets[j])
        /\ Carries(sending'[j]) = Carries(sending[j])
        /\ Carries(acks'[j]) = Carries(acks[j])
        /\ Carries(down'[j]) = Carries(down[j])
      BY <1>0, <1>4
  <2> QED BY <2>1, <2>2, FiveStages DEF Stages
<1>6. OneJourney'
  <2>1. \A x : Moves(x)
      BY <1>5 DEF Moves
  <2>2. AllOnce'
      BY <1>0, <1>4 DEF AllOnce, OneJourney
  <2>3. GotOnce'
      BY <1>0 DEF GotOnce, OneJourney
  <2> QED BY <1>0, <2>1, <2>2, <2>3, JourneyStep
<1>7. Travellers'
  <2>1. NoneJoins
      BY <1>5 DEF NoneJoins
  <2> QED BY <1>0, <1>1, <2>1, TravelStep
<1>8. Speakers'
  <2>1. \A t \in Services : /\ m_connector'[t] # 0 => PipeThen(m_connector'[t], t)
                            /\ m_pipe'[t] # 0 => PipeThen(m_pipe'[t], t)
      BY <1>1, <1>2, PipeStays
  <2> QED BY <1>4, <2>1, SpeakersStep
<1>9. TypeOK'
    BY <1>0, <1>2, <1>4 DEF TypeOK, sockVars, hubVars, leftVars
<1>10. ASSUME ~late' PROVE OnTime'
  <2>0. OnTime
      BY <1>0, <1>10 DEF IInv
  <2>1. Waits' /\ Passed'
      BY <1>0, <1>5, <2>0, WaitRests DEF OnTime, hubVars, leftVars
  <2>2. HostTables'
      BY <1>0, <1>1, <2>0, HostsRest DEF OnTime, sockVars
  <2>3. NotYetOpen'
      BY <1>0, <1>5, <2>0 DEF OnTime, NotYetOpen, Early, Stages, sockVars
  <2> QED BY <1>1, <2>0, <2>1, <2>2, <2>3 DEF OnTime
<1> QED BY <1>1, <1>6, <1>7, <1>8, <1>9, <1>10 DEF IInv

LEMMA LeavesKeeps ==
  ASSUME IInv, NEW s \in Services, Leaves(s)
  PROVE  IInv'
<1>0. /\ TypeOK /\ OneJourney /\ Travellers /\ HubTables /\ Speakers /\ Registered /\ Numbered
      /\ UNCHANGED <<sockVars, hs, up, hubVars, m_fdPackets, sending, acks, got, late>>
    BY DEF IInv, Leaves, HostOnClose, HostFini
<1>1. /\ Grows /\ Made' = Made /\ Hubbed' = Hubbed
      /\ HubTables' /\ Registered' /\ Numbered' /\ (HubOwns => HubOwns')
    BY <1>0, HubRests DEF sockVars
<1>2. /\ m_host' \subseteq Services
      /\ m_connector' \in [Services -> 0..MaxConns] /\ m_pipe' \in [Services -> 0..MaxConns]
      /\ \A t \in Services : /\ m_connector'[t] # 0 => IsPipe(m_connector'[t], t)
                             /\ m_pipe'[t] # 0 => IsPipe(m_pipe'[t], t)
  <2>0. 0 \in 0..MaxConns
      BY HubAssumption
  <2>1. CASE HostOnClose(s)
      BY <1>0, <2>0, <2>1 DEF HostOnClose, TypeOK, Speakers
  <2>2. CASE HostFini(s)
      BY <1>0, <2>0, <2>2 DEF HostFini, TypeOK, Speakers
  <2> QED BY <2>1, <2>2 DEF Leaves
<1>3. /\ down' \in [Conns -> Seq([sock : Socks, id : Services, socket : Conns])]
      /\ \A j \in Conns : down'[j] = down[j] \/ down'[j] = <<>>
  <2>1. PICK T : T = [sock : Socks, id : Services, socket : Conns]
      OBVIOUS
  <2>2. down \in [Conns -> Seq(T)] /\ <<>> \in Seq(T)
      BY <1>0, <2>1, EmptySeq DEF TypeOK
  <2>3. CASE HostOnClose(s)
    <3>1. down' = [down EXCEPT ![m_pipe[s]] = <<>>]
        BY <2>3 DEF HostOnClose
    <3> QED BY <2>1, <2>2, <3>1
  <2>4. CASE HostFini(s)
    <3>1. down' = [k \in Conns |-> IF k = m_pipe[s] THEN <<>> ELSE down[k]]
        BY <2>4 DEF HostFini
    <3> QED BY <2>1, <2>2, <3>1
  <2> QED BY <2>3, <2>4 DEF Leaves
<1>4. \A j \in Conns : Once(down'[j]) /\ Carries(down'[j]) \subseteq Carries(down[j])
  <2>1. Once(<<>>) /\ Carries(<<>>) = {}
      BY CarriesFew
  <2> QED BY <1>0, <1>3, <2>1 DEF OneJourney
<1>5. ASSUME NEW n \in Stages, NEW j \in Conns
      PROVE  Stage(n, j)' \subseteq Stage(n, j)
  <2>1. Landed(j)' = Landed(j)
      BY <1>0 DEF Landed
  <2>2. /\ Carries(m_fdPackets'[j]) = Carries(m_fdPackets[j])
        /\ Carries(sending'[j]) = Carries(sending[j])
        /\ Carries(acks'[j]) = Carries(acks[j])
        /\ Carries(down'[j]) \subseteq Carries(down[j])
      BY <1>0, <1>4
  <2> QED BY <2>1, <2>2, FiveStages DEF Stages
<1>6. OneJourney'
  <2>1. \A x : Moves(x)
      BY <1>5 DEF Moves
  <2>2. AllOnce'
      BY <1>0, <1>4 DEF AllOnce, OneJourney
  <2>3. GotOnce'
      BY <1>0 DEF GotOnce, OneJourney
  <2> QED BY <1>0, <2>1, <2>2, <2>3, JourneyStep
<1>7. NoneJoins /\ NoneReturns
  <2>1. Early \subseteq Stages
      BY DEF Early, Stages
  <2> QED BY <1>5, <2>1 DEF NoneJoins, NoneReturns
<1>8. Travellers'
    BY <1>0, <1>1, <1>7, TravelStep
<1>9. Speakers'
  <2>1. \A t \in Services : /\ m_connector'[t] # 0 => PipeThen(m_connector'[t], t)
                            /\ m_pipe'[t] # 0 => PipeThen(m_pipe'[t], t)
      BY <1>1, <1>2, PipeStays
  <2>2. \A j \in Conns : \A i \in DOMAIN acks[j] : PipeThen(j, acks[j][i].id)
      BY <1>0, <1>1, PipeStays DEF Speakers
  <2>3. acks' = acks
      BY <1>0
  <2> QED BY <2>1, <2>2, <2>3, SpeakersStep
<1>10. TypeOK'
    BY <1>0, <1>2, <1>3 DEF TypeOK, sockVars, hubVars, leftVars
<1>11. ASSUME ~late' PROVE OnTime'
  <2>0. OnTime
      BY <1>0, <1>11 DEF IInv
  <2>1. Waits'
      BY <1>0, <1>7, <2>0, WaitsStep, SenderRests DEF OnTime, hubVars
  <2>2. Passed'
    <3>1. ASSUME NEW j \in Conns, NEW i \in DOMAIN down'[j]
          PROVE  down'[j][i].socket = down'[j][i].sock.conn
      <4>1. down'[j] = down[j]
          BY <1>3, <3>1
      <4> QED BY <2>0, <3>1, <4>1 DEF OnTime, Passed
    <3>2. \A t \in Services : \A g \in got'[t] : g.socket = g.sock.conn
        BY <1>0, <2>0 DEF OnTime, Passed
    <3> QED BY <3>1, <3>2 DEF Passed
  <2>3. HostTables'
      BY <1>0, <1>1, <2>0, HostsRest DEF OnTime, sockVars
  <2>4. NotYetOpen'
      BY <1>0, <1>7, <2>0, NotYetOpenStep DEF OnTime, sockVars
  <2> QED BY <1>1, <2>0, <2>1, <2>2, <2>3, <2>4 DEF OnTime
<1> QED BY <1>1, <1>6, <1>8, <1>9, <1>10, <1>11 DEF IInv

LEMMA RecvFdKeeps ==
  ASSUME IInv, NEW s \in Services, NEW good \in BOOLEAN, OnRecvFd(s, good)
  PROVE  IInv'
<1>0. /\ TypeOK /\ OneJourney /\ Travellers /\ HubTables /\ Speakers /\ Registered /\ Numbered
      /\ UNCHANGED <<conns, fd, sockId, hs, up, hubVars, m_fdPackets, sending, acks, m_host,
                     m_connector, m_pipe, late>>
    BY DEF IInv, OnRecvFd
<1>1. /\ Grows /\ Made' = Made /\ Hubbed' = Hubbed
      /\ HubTables' /\ Registered' /\ Numbered' /\ (HubOwns => HubOwns')
    BY <1>0, HubRests
<1>2. PICK k \in Conns : k = m_pipe[s] /\ IsPipe(k, s)
  <2>1. m_pipe[s] # 0 /\ m_pipe[s] \in 0..MaxConns
      BY <1>0 DEF OnRecvFd, TypeOK
  <2>2. m_pipe[s] \in Conns
      BY <2>1, HubAssumption DEF Conns
  <2> QED BY <1>0, <2>1, <2>2 DEF Speakers
<1>3. PICK T : T = [sock : Socks, id : Services, socket : Conns]
    OBVIOUS
<1>4. PICK m : m = Head(down[k])
    OBVIOUS
<1>5. /\ down[k] # <<>> /\ down' = [down EXCEPT ![k] = Tail(@)]
      /\ IF m.id = s /\ good
           THEN /\ got' = [got EXCEPT ![s] = @ \cup {[sock |-> m.sock, socket |-> m.socket,
                                                      pipe |-> k]}]
                /\ open' = [open EXCEPT ![s] = @ \cup {m.socket}]
           ELSE UNCHANGED <<got, open>>
    BY <1>2, <1>4 DEF OnRecvFd
<1>6. down \in [Conns -> Seq(T)] /\ down[k] \in Seq(T) /\ Once(down[k])
    BY <1>0, <1>3 DEF TypeOK, OneJourney
<1>7. /\ Tail(down[k]) \in Seq(T) /\ Once(Tail(down[k])) /\ m \in T
      /\ m.sock \in Carries(down[k]) \cup {NoSock}
      /\ Carries(Tail(down[k])) = Carries(down[k]) \ {m.sock}
      /\ 1 \in DOMAIN down[k] /\ m = down[k][1]
      /\ {Tail(down[k])[i] : i \in DOMAIN Tail(down[k])} \subseteq
           {down[k][i] : i \in DOMAIN down[k]}
    BY <1>4, <1>5, <1>6, CarriesTail
<1>8. /\ down'[k] = Tail(down[k]) /\ \A j \in Conns \ {k} : down'[j] = down[j]
      /\ down' \in [Conns -> Seq(T)]
    BY <1>5, <1>6, <1>7
<1>9. PICK sock \in Socks : sock = m.sock /\ sock # NoSock /\ m.socket \in Conns
  <2>1. m.sock \in Socks /\ m.socket \in Conns
      BY <1>3, <1>7
  <2>2. m.sock # NoSock
      BY <2>1, ConnsType DEF NoSock, Socks
  <2> QED BY <2>1, <2>2
<1>10. /\ sock \in Stage("flying", k)
       /\ Stage("flying", k)' = Stage("flying", k) \ {sock}
    BY <1>7, <1>8, <1>9, FiveStages
<1>11. \A n \in Stages, j \in Conns : sock \in Stage(n, j) => n = "flying" /\ j = k
    BY <1>0, <1>10 DEF OneJourney, Stages
<1>12. ASSUME NEW n \in Stages \ {"landed"}, NEW j \in Conns
       PROVE  Stage(n, j)' \subseteq Stage(n, j) /\ sock \notin Stage(n, j)'
  <2>1. CASE n = "flying" /\ j = k
      BY <1>10, <2>1
  <2>2. CASE ~(n = "flying" /\ j = k)
    <3>1. Stage(n, j)' = Stage(n, j)
        BY <1>0, <1>8, <2>2 DEF Stage, Stages
    <3> QED BY <1>11, <2>2, <3>1
  <2> QED BY <2>1, <2>2
<1>13. /\ Speakers' /\ AllOnce'
  <2>1. Speakers'
      BY <1>0, <1>1 DEF Speakers, IsPipe
  <2>2. AllOnce'
      BY <1>0, <1>7, <1>8 DEF AllOnce, OneJourney
  <2> QED BY <2>1, <2>2
<1>14. ASSUME Passed
       PROVE  /\ m.socket = sock.conn
              /\ \A j \in Conns : \A i \in DOMAIN down'[j] :
                   down'[j][i].socket = down'[j][i].sock.conn
  <2>1. m.socket = sock.conn
      BY <1>7, <1>9, <1>14 DEF Passed
  <2>2. ASSUME NEW j \in Conns, NEW i \in DOMAIN down'[j]
        PROVE  down'[j][i].socket = down'[j][i].sock.conn
    <3>1. PICK i1 \in DOMAIN down[j] : down'[j][i] = down[j][i1]
      <4>1. CASE j = k
          BY <1>7, <1>8, <2>2, <4>1
      <4>2. CASE j # k
          BY <1>8, <2>2, <4>2
      <4> QED BY <4>1, <4>2
    <3> QED BY <1>14, <3>1 DEF Passed
  <2> QED BY <2>1, <2>2
<1>15. CASE m.id = s /\ good
  <2>1. PICK g \in [sock : Socks, socket : Conns, pipe : Conns] :
          g = [sock |-> sock, socket |-> m.socket, pipe |-> k]
      BY <1>9
  <2>2. g.sock = sock /\ g.socket = m.socket /\ g.pipe = k
      BY <2>1
  <2>3. /\ got' = [got EXCEPT ![s] = @ \cup {g}]
        /\ open' = [open EXCEPT ![s] = @ \cup {m.socket}]
      BY <1>5, <1>9, <1>15, <2>1
  <2>4. /\ got'[s] = got[s] \cup {g} /\ \A t \in Services \ {s} : got'[t] = got[t]
        /\ open'[s] = open[s] \cup {m.socket}
        /\ \A t \in Services \ {s} : open'[t] = open[t]
      BY <1>0, <2>3 DEF TypeOK
  <2>5. TypeOK'
    <3>1. /\ got' \in [Services -> SUBSET [sock : Socks, socket : Conns, pipe : Conns]]
          /\ open' \in [Services -> SUBSET Conns]
        BY <1>0, <1>9, <2>3 DEF TypeOK
    <3> QED BY <1>0, <1>3, <1>8, <3>1 DEF TypeOK, hubVars, leftVars
  <2>6. ASSUME NEW j \in Conns, NEW x
        PROVE  x \in Landed(j)' <=> x \in Landed(j) \/ (j = k /\ x = sock)
    <3>1. ASSUME x \in Landed(j)' PROVE x \in Landed(j) \/ (j = k /\ x = sock)
      <4>1. PICK t \in Services : \E h \in got'[t] : h.sock = x /\ h.pipe = j
          BY <3>1 DEF Landed
      <4>2. PICK h \in got'[t] : h.sock = x /\ h.pipe = j
          BY <4>1
      <4>3. h \in got[t] \/ h = g
          BY <2>4
      <4> QED BY <2>2, <3>1, <4>2, <4>3 DEF Landed
    <3>2. ASSUME x \in Landed(j) PROVE x \in Landed(j)'
      <4>1. PICK t \in Services : \E h \in got[t] : h.sock = x /\ h.pipe = j
          BY <3>2 DEF Landed
      <4>2. PICK h \in got[t] : h.sock = x /\ h.pipe = j
          BY <4>1
      <4>3. h \in got'[t]
          BY <2>4
      <4> QED BY <3>2, <4>2, <4>3 DEF Landed
    <3>3. ASSUME j = k, x = sock PROVE x \in Landed(j)'
        BY <2>2, <2>4, <3>3 DEF Landed
    <3> QED BY <3>1, <3>2, <3>3
  <2>7. \A j \in Conns : \A x : x \in Stage("landed", j)'
          => x \in Stage("landed", j) \/ (j = k /\ x = sock)
      BY <2>6, FiveStages
  <2>8. OneJourney'
    <3>1. ASSUME NEW x PROVE Moves(x)
      <4>1. CASE x = sock
        <5>1. \A n \in Stages, j \in Conns : x \in Stage(n, j)' => n = "landed" /\ j = k
            BY <1>11, <1>12, <2>7, <4>1
        <5> QED BY <5>1 DEF Moves, Stages
      <4>2. CASE x # sock
        <5>1. \A n \in Stages, j \in Conns : x \in Stage(n, j)' => x \in Stage(n, j)
            BY <1>12, <2>7, <4>2
        <5> QED BY <5>1 DEF Moves
      <4> QED BY <4>1, <4>2
    <3>2. GotOnce'
      <4>1. ASSUME NEW t \in Services, NEW h \in got[t] PROVE h.sock # sock
        <5>0. h \in [sock : Socks, socket : Conns, pipe : Conns]
            BY <1>0 DEF TypeOK
        <5>1. h.sock \in Socks /\ h.pipe \in Conns
            BY <5>0
        <5>2. h.sock \in Stage("landed", h.pipe)
            BY <5>1, FiveStages DEF Landed
        <5> QED BY <1>11, <5>1, <5>2 DEF Stages
      <4>2. ASSUME NEW t \in Services, NEW u \in Services, NEW h \in got'[t], NEW i \in got'[u],
                   h.sock = i.sock
            PROVE  t = u /\ h = i
        <5>1. /\ h \in got[t] \/ (h = g /\ t = s)
              /\ i \in got[u] \/ (i = g /\ u = s)
            BY <2>4
        <5>2. CASE h \in got[t] /\ i \in got[u]
            BY <1>0, <4>2, <5>2 DEF OneJourney
        <5>3. CASE ~(h \in got[t] /\ i \in got[u])
            BY <2>2, <4>1, <4>2, <5>1, <5>3
        <5> QED BY <5>2, <5>3
      <4> QED BY <4>2 DEF GotOnce
    <3> QED BY <1>0, <1>13, <3>1, <3>2, JourneyStep
  <2>9. NoneJoins
    <3>1. ASSUME NEW n \in Stages, NEW j \in Conns, NEW x \in Stage(n, j)'
          PROVE  \E o \in Stages : x \in Stage(o, j)
      <4>1. CASE n = "landed" /\ j = k /\ x = sock
          BY <1>10, <4>1 DEF Stages
      <4>2. CASE ~(n = "landed" /\ j = k /\ x = sock)
          BY <1>12, <2>7, <3>1, <4>2
      <4> QED BY <4>1, <4>2
    <3> QED BY <3>1 DEF NoneJoins
  <2>10. Travellers'
      BY <1>0, <1>1, <2>9, TravelStep
  <2>11. ASSUME ~late' PROVE OnTime'
    <3>0. OnTime
        BY <1>0, <2>11 DEF IInv
    <3>1. Waits'
        BY <1>0, <2>9, <3>0, WaitsStep, SenderRests DEF OnTime, hubVars
    <3>2. m.socket = sock.conn
        BY <1>14, <3>0 DEF OnTime
    <3>3. Passed'
      <4>1. ASSUME NEW t \in Services, NEW h \in got'[t] PROVE h.socket = h.sock.conn
        <5>1. h \in got[t] \/ h = g
            BY <2>4
        <5> QED BY <2>2, <3>0, <3>2, <5>1 DEF OnTime, Passed
      <4> QED BY <1>14, <3>0, <4>1 DEF OnTime, Passed
    <3>4. PICK c : c = sock.conn
        OBVIOUS
    <3>5. Handed(sock) /\ IsPipe(k, conns[c].id)
        BY <1>0, <1>10, <3>4 DEF Travellers, Stages
    <3>6. c \in Made \ Hubbed /\ ~conns[c].ipc /\ conns[c].id = s
        BY <1>2, <3>4, <3>5 DEF Handed, IsPipe
    <3>7. conns[c] = [ipc |-> FALSE, id |-> s]
      <4>1. conns[c] \in [ipc : BOOLEAN, id : Services]
          BY <1>0, <3>6, ElementOfSeq DEF TypeOK, Made
      <4> QED BY <3>6, <4>1
    <3>8. \A t \in Services : c \notin open[t]
        BY <1>10, <3>0, <3>4 DEF OnTime, NotYetOpen, Early
    <3>9. HostTables'
      <4>1. ASSUME NEW t \in Services
            PROVE  /\ Apart(t)' /\ GotIn(t)' \cap Busy(t)' = {}
                   /\ open'[t] = GotIn(t)' \cup Busy(t)'
                   /\ \A j \in open'[t] : j \in Made' \ Hubbed'
                                          /\ conns'[j] = [ipc |-> FALSE, id |-> t]
        <5>1. Apart(t)' = Apart(t) /\ Busy(t)' = Busy(t)
            BY <1>0 DEF Apart, Busy
        <5>2. /\ Apart(t) /\ GotIn(t) \cap Busy(t) = {} /\ open[t] = GotIn(t) \cup Busy(t)
              /\ \A j \in open[t] : j \in Made \ Hubbed /\ conns[j] = [ipc |-> FALSE, id |-> t]
            BY <3>0 DEF OnTime, HostTables
        <5>3. CASE t = s
          <6>1. GotIn(t)' = GotIn(t) \cup {c}
              BY <2>2, <2>4, <3>2, <3>4, <5>3 DEF GotIn
          <6>2. open'[t] = open[t] \cup {c} /\ c \notin open[t]
              BY <2>4, <3>2, <3>4, <3>8, <5>3
          <6>3. GotIn(t)' \cap Busy(t)' = {} /\ open'[t] = GotIn(t)' \cup Busy(t)'
              BY <5>1, <5>2, <6>1, <6>2
          <6>4. \A j \in open'[t] : j \in Made \ Hubbed /\ conns[j] = [ipc |-> FALSE, id |-> t]
              BY <3>6, <3>7, <5>2, <5>3, <6>2
          <6> QED BY <1>0, <1>1, <5>1, <5>2, <6>3, <6>4
        <5>4. CASE t # s
          <6>1. GotIn(t)' = GotIn(t) /\ open'[t] = open[t]
              BY <2>4, <5>4 DEF GotIn
          <6> QED BY <1>0, <1>1, <5>1, <5>2, <6>1
        <5> QED BY <5>3, <5>4
      <4> QED BY <4>1 DEF HostTables
    <3>10. NotYetOpen'
      <4>1. ASSUME NEW n \in Early, NEW j \in Conns, NEW x \in Stage(n, j)', NEW t \in Services
            PROVE  x.conn \notin open'[t]
        <5>1. n \in Stages \ {"landed"}
            BY DEF Early, Stages
        <5>2. x \in Stage(n, j) /\ x # sock
            BY <1>12, <4>1, <5>1
        <5>3. Handed(x) /\ x.conn \notin open[t]
            BY <1>0, <3>0, <5>1, <5>2 DEF OnTime, NotYetOpen, Travellers
        <5>4. x.conn # c
            BY <3>4, <3>5, <5>2, <5>3, OneSockEach
        <5> QED BY <2>4, <3>2, <3>4, <5>3, <5>4
      <4> QED BY <4>1 DEF NotYetOpen
    <3> QED BY <1>1, <3>0, <3>1, <3>3, <3>9, <3>10 DEF OnTime
  <2> QED BY <1>1, <1>13, <2>5, <2>8, <2>10, <2>11 DEF IInv
<1>16. CASE ~(m.id = s /\ good)
  <2>1. got' = got /\ open' = open
      BY <1>5, <1>16
  <2>2. ASSUME NEW n \in Stages, NEW j \in Conns PROVE Stage(n, j)' \subseteq Stage(n, j)
    <3>1. CASE n = "landed"
        BY <2>1, <3>1 DEF Stage, Landed
    <3> QED BY <1>12, <3>1
  <2>3. OneJourney'
    <3>1. \A x : Moves(x)
        BY <2>2 DEF Moves
    <3>2. GotOnce'
        BY <1>0, <2>1 DEF GotOnce, OneJourney
    <3> QED BY <1>0, <1>13, <3>1, <3>2, JourneyStep
  <2>4. NoneJoins /\ NoneReturns
    <3>1. Early \subseteq Stages
        BY DEF Early, Stages
    <3> QED BY <2>2, <3>1 DEF NoneJoins, NoneReturns
  <2>5. Travellers'
      BY <1>0, <1>1, <2>4, TravelStep
  <2>6. TypeOK'
      BY <1>0, <1>3, <1>8, <2>1 DEF TypeOK, hubVars, leftVars
  <2>7. ASSUME ~late' PROVE OnTime'
    <3>0. OnTime
        BY <1>0, <2>7 DEF IInv
    <3>1. Waits'
        BY <1>0, <2>4, <3>0, WaitsStep, SenderRests DEF OnTime, hubVars
    <3>2. Passed'
        BY <1>14, <2>1, <3>0 DEF OnTime, Passed
    <3>3. HostTables'
        BY <1>0, <1>1, <2>1, <3>0, HostsRest DEF OnTime
    <3>4. NotYetOpen'
        BY <2>1, <2>4, <3>0, NotYetOpenStep DEF OnTime
    <3> QED BY <1>1, <3>0, <3>1, <3>2, <3>3, <3>4 DEF OnTime
  <2> QED BY <1>1, <1>13, <2>3, <2>5, <2>6, <2>7 DEF IInv
<1> QED BY <1>15, <1>16

LEMMA ServiceAcceptKeeps ==
  ASSUME IInv, NEW s \in Services, NEW g \in got[s], NEW ok \in BOOLEAN,
         OnServiceAccept(s, g, ok)
  PROVE  IInv'
<1>0. /\ TypeOK /\ OneJourney /\ Travellers /\ HubTables /\ Speakers /\ Registered /\ Numbered
      /\ UNCHANGED <<conns, fd, sockId, up, hubVars, m_fdPackets, sending, down, m_host,
                     m_connector, m_pipe, late>>
      /\ s # Hub /\ s \in Procs /\ Hub \in Procs /\ Services \subseteq Procs
    BY HubAssumption DEF IInv, OnServiceAccept, Procs
<1>1. g \in [sock : Socks, socket : Conns, pipe : Conns]
    BY <1>0 DEF TypeOK
<1>2. PICK sock \in Socks, k \in Conns, c \in Conns :
        sock = g.sock /\ k = g.pipe /\ c = g.socket /\ sock # NoSock
  <2>1. g.sock # NoSock
      BY <1>1, ConnsType DEF NoSock, Socks
  <2> QED BY <1>1, <2>1
<1>3. PICK accepted \in BOOLEAN : accepted = (ok /\ s \in up /\ Cardinality(hs[s].table) < Length)
    OBVIOUS
<1>4. /\ got' = [got EXCEPT ![s] = @ \ {g}]
      /\ acks' = (IF m_pipe[s] = k /\ k \in DOMAIN m_allPipes
                   THEN [acks EXCEPT ![k] = Append(@, Says(s, sock))] ELSE acks)
      /\ hs' = IF accepted THEN Shakes(s, c) ELSE hs
      /\ open' = IF accepted THEN open ELSE [open EXCEPT ![s] = @ \ {c}]
    BY <1>2, <1>3 DEF OnServiceAccept
<1>5. /\ hs' \in [Procs -> Handshakers] /\ \A p \in Procs \ {s} : hs'[p] = hs[p]
      /\ hs'[s] = IF accepted
                    THEN [table |-> hs[s].table \cup {c}, shaking |-> hs[s].shaking \cup {c},
                          carried |-> hs[s].carried, out |-> hs[s].out]
                    ELSE hs[s]
  <2>0. hs \in [Procs -> Handshakers]
      BY <1>0 DEF TypeOK, Handshakers
  <2>1. CASE accepted
    <3>1. hs' = Shakes(s, c)
        BY <1>4, <2>1
    <3>2. HsIs(s, [table |-> hs[s].table \cup {c}, shaking |-> hs[s].shaking \cup {c},
                   carried |-> hs[s].carried, out |-> hs[s].out])
        BY <1>0, <2>0, <3>1, ShakesHs
    <3> QED BY <2>1, <3>2 DEF HsIs
  <2>2. CASE ~accepted
      BY <1>4, <2>0, <2>2
  <2> QED BY <2>1, <2>2
<1>6. /\ Grows /\ Made' = Made /\ Hubbed' = Hubbed
      /\ HubTables' /\ Registered' /\ Numbered' /\ (HubOwns => HubOwns')
  <2>1. hs'[Hub] = hs[Hub]
      BY <1>0, <1>5
  <2> QED BY <1>0, <2>1, HubRests
<1>7. /\ got'[s] = got[s] \ {g} /\ \A t \in Services \ {s} : got'[t] = got[t]
    BY <1>0, <1>4 DEF TypeOK
<1>8. sock \in Stage("landed", k)
    BY <1>2, FiveStages DEF Landed
<1>9. \A n \in Stages, j \in Conns : sock \in Stage(n, j) => n = "landed" /\ j = k
    BY <1>0, <1>8 DEF OneJourney, Stages
<1>10. ASSUME NEW j \in Conns, NEW x \in Landed(j)' PROVE x \in Landed(j) /\ x # sock
  <2>1. PICK t \in Services : \E h \in got'[t] : h.sock = x /\ h.pipe = j
      BY <1>10 DEF Landed
  <2>2. PICK h \in got'[t] : h.sock = x /\ h.pipe = j
      BY <2>1
  <2>3. h \in got[t] /\ (t = s => h # g)
      BY <1>7
  <2>4. x # sock
      BY <1>0, <1>2, <2>2, <2>3 DEF OneJourney
  <2> QED BY <1>10, <2>2, <2>3, <2>4 DEF Landed
<1>11. /\ acks' \in [Conns -> Seq([id : Services, sock : Socks \cup {NoSock}])]
       /\ \A j \in Conns : /\ Once(acks'[j])
                           /\ \A x \in Carries(acks'[j]) :
                                x \in Carries(acks[j]) \/ (x = sock /\ j = k)
       /\ \A j \in Conns : \A i \in DOMAIN acks'[j] : PipeThen(j, acks'[j][i].id)
  <2>1. CASE ~(m_pipe[s] = k /\ k \in DOMAIN m_allPipes)
    <3>1. acks' = acks
        BY <1>4, <2>1
    <3>2. \A j \in Conns : \A i \in DOMAIN acks[j] : PipeThen(j, acks[j][i].id)
        BY <1>0, <1>6, PipeStays DEF Speakers
    <3> QED BY <1>0, <3>1, <3>2 DEF TypeOK, OneJourney
  <2>2. CASE m_pipe[s] = k /\ k \in DOMAIN m_allPipes
    <3>1. acks' = [acks EXCEPT ![k] = Append(@, Says(s, sock))]
        BY <1>4, <2>2
    <3>2. IsPipe(k, s)
        BY <1>0, <2>2, ConnsType DEF Speakers
    <3>3. Once(acks[k]) /\ sock \notin Carries(acks[k]) /\ sock \in Socks \cup {NoSock}
        BY <1>0, <1>9, FiveStages DEF OneJourney, Stages
    <3>4. /\ acks' \in [Conns -> Seq([id : Services, sock : Socks \cup {NoSock}])]
          /\ Once(acks'[k]) /\ Carries(acks'[k]) = Carries(acks[k]) \cup ({sock} \ {NoSock})
          /\ \A j \in Conns \ {k} : acks'[j] = acks[j]
          /\ \A j \in Conns : \A i \in DOMAIN acks'[j] : PipeThen(j, acks'[j][i].id)
        BY <1>0, <1>6, <3>1, <3>2, <3>3, SaysStep
    <3>5. ASSUME NEW j \in Conns
          PROVE  /\ Once(acks'[j])
                 /\ \A x \in Carries(acks'[j]) : x \in Carries(acks[j]) \/ (x = sock /\ j = k)
      <4>1. CASE j = k
          BY <3>4, <4>1
      <4>2. CASE j # k
          BY <1>0, <3>4, <4>2 DEF OneJourney
      <4> QED BY <4>1, <4>2
    <3> QED BY <3>4, <3>5
  <2> QED BY <2>1, <2>2
<1>12. ASSUME NEW n \in Stages, NEW j \in Conns, NEW x \in Stage(n, j)'
       PROVE  (x \in Stage(n, j) /\ x # sock) \/ (n = "acked" /\ j = k /\ x = sock)
  <2>1. CASE n = "landed"
      BY <1>10, <1>12, <2>1, FiveStages
  <2>2. CASE n = "acked"
    <3>1. x \in Carries(acks'[j])
        BY <1>12, <2>2, FiveStages
    <3>2. x \in Carries(acks[j]) \/ (x = sock /\ j = k)
        BY <1>11, <3>1
    <3>3. CASE x \in Carries(acks[j])
      <4>1. x \in Stage(n, j)
          BY <2>2, <3>3, FiveStages
      <4> QED BY <1>9, <2>2, <4>1
    <3> QED BY <2>2, <3>2, <3>3
  <2>3. CASE n \in Early
    <3>1. Stage(n, j)' = Stage(n, j)
        BY <1>0, <2>3 DEF Stage, Early
    <3> QED BY <1>9, <1>12, <2>3, <3>1 DEF Early
  <2> QED BY <2>1, <2>2, <2>3 DEF Early, Stages
<1>13. OneJourney'
  <2>1. ASSUME NEW x PROVE Moves(x)
    <3>1. CASE x = sock
      <4>1. \A n \in Stages, j \in Conns : x \in Stage(n, j)' => n = "acked" /\ j = k
          BY <1>12, <3>1
      <4> QED BY <4>1 DEF Moves, Stages
    <3>2. CASE x # sock
      <4>1. \A n \in Stages, j \in Conns : x \in Stage(n, j)' => x \in Stage(n, j)
          BY <1>12, <3>2
      <4> QED BY <4>1 DEF Moves
    <3> QED BY <3>1, <3>2
  <2>2. AllOnce'
      BY <1>0, <1>11 DEF AllOnce, OneJourney
  <2>3. GotOnce'
      BY <1>0, <1>7 DEF GotOnce, OneJourney
  <2> QED BY <1>0, <2>1, <2>2, <2>3, JourneyStep
<1>14. NoneJoins /\ NoneReturns
  <2>1. NoneJoins
    <3>1. ASSUME NEW n \in Stages, NEW j \in Conns, NEW x \in Stage(n, j)'
          PROVE  \E o \in Stages : x \in Stage(o, j)
      <4>1. CASE n = "acked" /\ j = k /\ x = sock
          BY <1>8, <4>1 DEF Stages
      <4>2. CASE ~(n = "acked" /\ j = k /\ x = sock)
          BY <1>12, <3>1, <4>2
      <4> QED BY <4>1, <4>2
    <3> QED BY <3>1 DEF NoneJoins
  <2>2. NoneReturns
    <3>1. Early \subseteq Stages /\ "acked" \notin Early
        BY DEF Early, Stages
    <3> QED BY <1>12, <3>1 DEF NoneReturns
  <2> QED BY <2>1, <2>2
<1>15. Travellers'
    BY <1>0, <1>6, <1>14, TravelStep
<1>16. Speakers'
  <2>1. \A t \in Services : /\ m_connector[t] # 0 => PipeThen(m_connector[t], t)
                            /\ m_pipe[t] # 0 => PipeThen(m_pipe[t], t)
      BY <1>0, <1>6, PipeStays DEF Speakers
  <2>2. m_connector' = m_connector /\ m_pipe' = m_pipe
      BY <1>0
  <2> QED BY <1>11, <2>1, <2>2, SpeakersStep
<1>17. TypeOK'
  <2>1. /\ got' \in [Services -> SUBSET [sock : Socks, socket : Conns, pipe : Conns]]
      BY <1>0, <1>4 DEF TypeOK
  <2>2. open' \in [Services -> SUBSET Conns]
      BY <1>0, <1>4 DEF TypeOK
  <2> QED BY <1>0, <1>5, <1>11, <2>1, <2>2 DEF TypeOK, hubVars, leftVars, Handshakers
<1>18. ASSUME ~late' PROVE OnTime'
  <2>0. OnTime
      BY <1>0, <1>18 DEF IInv
  <2>1. Waits'
      BY <1>0, <1>14, <2>0, WaitsStep, SenderRests DEF OnTime, hubVars
  <2>2. Passed'
      BY <1>0, <1>7, <2>0 DEF OnTime, Passed
  <2>3. \A h \in got[s] : h.socket = c => h = g
    <3>1. ASSUME NEW h \in got[s], h.socket = c PROVE h = g
      <4>1. h \in [sock : Socks, socket : Conns, pipe : Conns]
          BY <1>0 DEF TypeOK
      <4>2. h.sock \in Stage("landed", h.pipe) /\ h.pipe \in Conns
          BY <4>1, FiveStages DEF Landed
      <4>3. Handed(h.sock) /\ Handed(sock)
          BY <1>0, <1>8, <4>2 DEF Travellers, Stages
      <4>4. h.sock.conn = sock.conn
          BY <1>2, <2>0, <3>1 DEF OnTime, Passed
      <4>5. h.sock = sock
          BY <4>3, <4>4, OneSockEach
      <4> QED BY <1>0, <1>2, <4>5 DEF OneJourney
    <3> QED BY <3>1
  <2>4. GotIn(s)' = GotIn(s) \ {c} /\ c \in GotIn(s)
      BY <1>2, <1>7, <2>3 DEF GotIn
  <2>5. \A t \in Services : open'[t] = IF t = s /\ ~accepted THEN open[t] \ {c} ELSE open[t]
      BY <1>0, <1>4 DEF TypeOK
  <2>6. HostTables'
    <3>1. ASSUME NEW t \in Services
          PROVE  /\ Apart(t)' /\ GotIn(t)' \cap Busy(t)' = {}
                 /\ open'[t] = GotIn(t)' \cup Busy(t)'
                 /\ \A j \in open'[t] : j \in Made' \ Hubbed'
                                        /\ conns'[j] = [ipc |-> FALSE, id |-> t]
      <4>1. /\ Apart(t) /\ GotIn(t) \cap Busy(t) = {} /\ open[t] = GotIn(t) \cup Busy(t)
            /\ \A j \in open[t] : j \in Made \ Hubbed /\ conns[j] = [ipc |-> FALSE, id |-> t]
          BY <2>0 DEF OnTime, HostTables
      <4>2. \A j \in open'[t] : j \in Made' \ Hubbed' /\ conns'[j] = [ipc |-> FALSE, id |-> t]
          BY <1>0, <1>6, <2>5, <4>1
      <4>3. CASE t # s
        <5>1. /\ Apart(t)' = Apart(t) /\ Busy(t)' = Busy(t) /\ GotIn(t)' = GotIn(t)
              /\ open'[t] = open[t]
            BY <1>0, <1>5, <1>7, <2>5, <4>3 DEF Apart, Busy, GotIn
        <5> QED BY <4>1, <4>2, <5>1
      <4>4. CASE t = s /\ accepted
        <5>1. GotIn(t)' = GotIn(t) \ {c} /\ c \in GotIn(t) /\ open'[t] = open[t]
            BY <2>4, <2>5, <4>4 DEF GotIn
        <5>2. Busy(t)' = Busy(t) \cup {c}
            BY <1>5, <4>4 DEF Busy
        <5>3. c \notin Busy(t)
            BY <4>1, <5>1
        <5>4. Apart(t)'
            BY <1>5, <4>1, <4>4, <5>3 DEF Apart, Busy
        <5> QED BY <4>1, <4>2, <5>1, <5>2, <5>3, <5>4
      <4>5. CASE t = s /\ ~accepted
        <5>1. GotIn(t)' = GotIn(t) \ {c} /\ c \in GotIn(t) /\ open'[t] = open[t] \ {c}
            BY <2>4, <2>5, <4>5 DEF GotIn
        <5>2. Busy(t)' = Busy(t) /\ Apart(t)' = Apart(t)
            BY <1>5, <4>5 DEF Busy, Apart
        <5> QED BY <4>1, <4>2, <5>1, <5>2
      <4> QED BY <4>3, <4>4, <4>5
    <3> QED BY <3>1 DEF HostTables
  <2>7. NotYetOpen'
    <3>1. \A t \in Services : open'[t] \subseteq open[t]
        BY <2>5
    <3> QED BY <1>14, <2>0, <3>1, NotYetOpenStep DEF OnTime
  <2> QED BY <1>6, <2>0, <2>1, <2>2, <2>6, <2>7 DEF OnTime
<1> QED BY <1>6, <1>13, <1>15, <1>16, <1>17, <1>18 DEF IInv
-----------------------------------------------------------------------------
(***************************************************************************)
(* The invariant, and what follows from it.                                *)
(***************************************************************************)
LEMMA InitIInv == Init => IInv
<1> SUFFICES ASSUME Init PROVE IInv
    OBVIOUS
<1>0. /\ Hub \in Procs /\ Services \subseteq Procs /\ 0 \in 0..MaxConns /\ 0 \in 0..MaxFds
    BY HubAssumption DEF Procs
<1>1. hs \in [Procs -> Handshakers] /\ \A p \in Procs : Busy(p) = {} /\ Apart(p)
    BY DEF Init, Handshakers, Busy, Apart
<1>2. /\ m_expireSocks = <<>> /\ ToSet(m_expireSocks) = {} /\ IsInjective(m_expireSocks)
      /\ DOMAIN m_allPipes = {} /\ DOMAIN m_serviceId2Pipe = {} /\ conns = <<>>
      /\ Len(conns) = 0 /\ Made = {}
  <2>1. Len(conns) = 0
      BY EmptySeq DEF Init
  <2>2. Made = {}
      BY <2>1 DEF Made
  <2> QED BY <2>1, <2>2 DEF Init, ToSet, IsInjective
<1>2a. timerPipes = {} /\ finiSocks = {} /\ finiPipes = {} /\ m_acceptor
       /\ Alive = {} /\ Forgotten = {} /\ ToClose = {}
    BY <1>2 DEF Init, Alive, Forgotten, ToClose
<1>3. \A k \in Conns : m_fdPackets[k] = <<>> /\ sending[k] = <<>> /\ down[k] = <<>>
                       /\ acks[k] = <<>>
    BY DEF Init
<1>4. Once(<<>>) /\ Carries(<<>>) = {} /\ Len(<<>>) = 0
  <2>1. Len(<<>>) = 0
      BY EmptySeq
  <2> QED BY <2>1, CarriesFew
<1>5. TypeOK
  <2>1. PICK T1, T2, T3 : /\ T1 = [sock : Socks, id : Services, socket : Conns]
                          /\ T2 = [id : Services, sock : Socks \cup {NoSock}]
                          /\ T3 = [ipc : BOOLEAN, id : Services]
      OBVIOUS
  <2>2. /\ <<>> \in Seq(Packets) /\ <<>> \in Seq(Packets \cup {Copy}) /\ <<>> \in Seq(T1)
        /\ <<>> \in Seq(T2) /\ <<>> \in Seq(T3) /\ <<>> \in Seq(Socks)
      BY EmptySeq
  <2>3. /\ m_fdPackets \in [Conns -> Seq(Packets)]
        /\ sending \in [Conns -> Seq(Packets \cup {Copy})]
        /\ down \in [Conns -> Seq(T1)] /\ acks \in [Conns -> Seq(T2)]
        /\ conns \in Seq(T3) /\ m_expireSocks \in Seq(Socks)
      BY <2>2 DEF Init
  <2>4. Len(conns) <= MaxConns
      BY <1>2, HubAssumption
  <2>5. /\ fd \in [Fds -> 0..MaxConns] /\ sockId \in [Conns -> 0..MaxFds]
        /\ m_connector \in [Services -> 0..MaxConns] /\ m_pipe \in [Services -> 0..MaxConns]
        /\ got \in [Services -> SUBSET [sock : Socks, socket : Conns, pipe : Conns]]
        /\ open \in [Services -> SUBSET Conns]
      BY <1>0 DEF Init
  <2>6. /\ up \subseteq Procs /\ m_acceptor \in BOOLEAN /\ m_host \subseteq Services
        /\ late \in BOOLEAN
      BY DEF Init
  <2> QED BY <1>1, <1>2, <1>2a, <2>1, <2>3, <2>4, <2>5, <2>6 DEF TypeOK, Handshakers
<1>6. \A n \in Stages, k \in Conns : Stage(n, k) = {}
  <2>1. \A k : Landed(k) = {}
      BY DEF Init, Landed
  <2> QED BY <1>3, <1>4, <2>1, FiveStages DEF Stages
<1>7. OneJourney
    BY <1>3, <1>4, <1>6 DEF OneJourney, Init
<1>8. Travellers
    BY <1>6 DEF Travellers
<1>9. HubTables
    BY <1>0, <1>1, <1>2, <1>2a DEF HubTables, Hubbed
<1>10. Speakers
  <2>1. \A s \in Services : m_connector[s] = 0 /\ m_pipe[s] = 0
      BY DEF Init
  <2> QED BY <1>3, <2>1 DEF Speakers
<1>11. Registered
    BY <1>2 DEF Registered
<1>12. Numbered
    BY <1>2 DEF Numbered, Init
<1>13. OnTime
  <2>1. HubOwns
    <3>1. InHub = {}
        BY <1>0, <1>1, <1>2a DEF InHub, Hubbed
    <3>2. \A k \in Conns : ~HubHas(k)
        BY ConnsType DEF HubHas, Init
    <3> QED BY <3>1, <3>2 DEF HubOwns
  <2>2. Waits
      BY <1>2, <1>2a DEF Waits
  <2>3. Passed
      BY <1>3 DEF Passed, Init
  <2>4. HostTables
    <3>1. \A s \in Services : GotIn(s) = {} /\ open[s] = {}
        BY DEF GotIn, Init
    <3> QED BY <1>0, <1>1, <3>1 DEF HostTables
  <2>5. NotYetOpen
      BY <1>6 DEF NotYetOpen, Early, Stages
  <2> QED BY <2>1, <2>2, <2>3, <2>4, <2>5 DEF OnTime
<1> QED BY <1>5, <1>7, <1>8, <1>9, <1>10, <1>11, <1>12, <1>13 DEF IInv

LEMMA NextIInv == IInv /\ [Next]_vars => IInv'
<1> SUFFICES ASSUME IInv, [Next]_vars PROVE IInv'
    OBVIOUS
<1>1. CASE UNCHANGED vars
    BY <1>1, Stutters
<1>2. CASE Next
  <2>1. TypeOK /\ HubTables
      BY DEF IInv
  <2>2. CASE Lets
      BY <2>2, LetsKeeps DEF Lets
  <2>3. CASE Drops
      BY <2>3, DropKeeps DEF Drops
  <2>4. CASE Enters
      BY <2>4, EntersKeeps
  <2>5. CASE \E k \in Conns, ok \in BOOLEAN : OnAcceptIpc(k, ok)
      BY <2>5, AcceptIpcKeeps
  <2>6. CASE \E k \in Conns : OnAcceptOther(k) \/ OnRecv(k) \/ PipeSendsFd(k) \/ PipeOnSend(k)
      BY <2>6, AcceptOtherKeeps, OnRecvKeeps, SendsFdKeeps, OnSendKeeps
  <2>7. CASE \E s \in Services : Talks(s) \/ Leaves(s)
      BY <2>7, TalksKeeps, LeavesKeeps
  <2>8. CASE \E s \in Services, good \in BOOLEAN : OnRecvFd(s, good)
      BY <2>8, RecvFdKeeps
  <2>9. CASE \E s \in Services : \E g \in got[s], ok \in BOOLEAN : OnServiceAccept(s, g, ok)
      BY <2>9, ServiceAcceptKeeps
  <2> QED BY <1>2, <2>1, <2>2, <2>3, <2>4, <2>5, <2>6, <2>7, <2>8, <2>9, NextCases
<1> QED BY <1>1, <1>2

LEMMA Agree == IInv => PipesAgree
<1> SUFFICES ASSUME IInv, NEW s \in Services, NEW k \in Conns
             PROVE  (s \in DOMAIN m_serviceId2Pipe /\ m_serviceId2Pipe[s] = k)
                      <=> (/\ k \in DOMAIN m_allPipes
                           /\ m_allPipes[k] = [pending |-> FALSE, serviceId |-> s])
    BY DEF PipesAgree
<1>1. Registered
    BY DEF IInv
<1>2. ASSUME s \in DOMAIN m_serviceId2Pipe, m_serviceId2Pipe[s] = k
      PROVE  /\ k \in DOMAIN m_allPipes
             /\ m_allPipes[k] = [pending |-> FALSE, serviceId |-> s]
    BY <1>1, <1>2 DEF Registered
<1>3. ASSUME k \in DOMAIN m_allPipes, m_allPipes[k] = [pending |-> FALSE, serviceId |-> s]
      PROVE  s \in DOMAIN m_serviceId2Pipe /\ m_serviceId2Pipe[s] = k
  <2>1. m_allPipes[k].pending = FALSE /\ m_allPipes[k].serviceId = s
      BY <1>3
  <2>2. m_allPipes[k] # [pending |-> TRUE, serviceId |-> 0]
      BY <2>1
  <2>3. PICK t \in DOMAIN m_serviceId2Pipe :
          m_serviceId2Pipe[t] = k /\ m_allPipes[k] = [pending |-> FALSE, serviceId |-> t]
      BY <1>1, <1>3, <2>2 DEF Registered
  <2>4. t = s
      BY <2>1, <2>3
  <2> QED BY <2>3, <2>4
<1> QED BY <1>2, <1>3

\* A set of which one thing is known to be the only element.
LEMMA OneIs == ASSUME NEW S, NEW x, S = {x} PROVE One(S)
BY FS_Singleton DEF One

\* A socket that process p's handshakers have is in one place there.
LEMMA OnePlace ==
  ASSUME NEW p, Apart(p), NEW k
  PROVE  /\ k \in Busy(p) => \E x : Places(p, k) = {x}
         /\ k \notin Busy(p) => Places(p, k) = {}
<1>1. /\ "shaking" \in Places(p, k) <=> k \in hs[p].shaking
      /\ "carried" \in Places(p, k) <=> k \in hs[p].carried
      /\ "out" \in Places(p, k) <=> k \in hs[p].out
      /\ Places(p, k) \subseteq {"shaking", "carried", "out"}
    BY DEF Places
<1>2. CASE k \in hs[p].shaking
  <2>1. Places(p, k) = {"shaking"} /\ k \in Busy(p)
      BY <1>1, <1>2 DEF Apart, Busy
  <2> QED BY <2>1
<1>3. CASE k \in hs[p].carried
  <2>1. Places(p, k) = {"carried"} /\ k \in Busy(p)
      BY <1>1, <1>3 DEF Apart, Busy
  <2> QED BY <2>1
<1>4. CASE k \in hs[p].out
  <2>1. Places(p, k) = {"out"} /\ k \in Busy(p)
      BY <1>1, <1>4 DEF Apart, Busy
  <2> QED BY <2>1
<1>5. CASE k \notin Busy(p)
    BY <1>1, <1>5 DEF Busy
<1> QED BY <1>2, <1>3, <1>4, <1>5 DEF Busy

LEMMA Owned == IInv => DescriptorsOwned
<1> SUFFICES ASSUME IInv, ~late, NEW k \in Conns
             PROVE  /\ IF HubHas(k) THEN One(HubOwners(k)) ELSE HubOwners(k) = {}
                    /\ \A s \in Services :
                         IF k \in open[s] THEN One(HostOwners(s, k)) ELSE HostOwners(s, k) = {}
    BY DEF DescriptorsOwned
<1>0. HubTables /\ OnTime
    BY DEF IInv
<1>1. IF HubHas(k) THEN One(HubOwners(k)) ELSE HubOwners(k) = {}
  <2> DEFINE closing == \E x \in finiSocks : x.conn = k
  <2>1. /\ Waiting(k) <=> \E x \in ToSet(m_expireSocks) : x.conn = k
        /\ Waiting(k) \/ closing <=> k \in {x.conn : x \in ToClose}
      BY DEF Waiting, ToSet, ToClose
  <2>2. HubHas(k) <=> \/ k \in Hubbed \/ Waiting(k) \/ closing
                      \/ k \in DOMAIN m_allPipes \/ k \in timerPipes \/ k \in finiPipes
      BY <1>0, <2>1 DEF OnTime, HubOwns, InHub, Alive, Forgotten
  <2>3. /\ k \in Busy(Hub) => \E x : Places(Hub, k) = {x}
        /\ k \notin Busy(Hub) => Places(Hub, k) = {}
      BY <1>0, OnePlace DEF HubTables
  <2>4. /\ k \in Alive => k \notin Hubbed /\ conns[k].ipc
        /\ Waiting(k) \/ closing => k \notin Hubbed /\ ~conns[k].ipc
      BY <1>0, <2>1 DEF HubTables, Handed
  <2>5. /\ ~(Waiting(k) /\ closing) /\ ~(k \in timerPipes /\ k \in finiPipes)
        /\ k \in DOMAIN m_allPipes => k \notin timerPipes /\ k \notin finiPipes
        /\ k \in DOMAIN m_allPipes \/ k \in timerPipes \/ k \in finiPipes => k \in Alive
    <3>1. finiSocks # {} => ToSet(m_expireSocks) = {}
        BY <1>0 DEF HubTables
    <3> QED BY <1>0, <2>1, <3>1 DEF HubTables, Alive, Forgotten
  <2>6. CASE k \in Hubbed
    <3>1. PICK x : HubOwners(k) = {x}
        BY <2>3, <2>4, <2>5, <2>6 DEF HubOwners, Hubbed
    <3> QED BY <2>2, <2>6, <3>1, OneIs
  <2>7. CASE k \notin Hubbed /\ HubHas(k)
    <3>1. Places(Hub, k) = {}
        BY <2>3, <2>7 DEF Hubbed
    <3>2. PICK x : HubOwners(k) = {x}
      <4>1. CASE Waiting(k) \/ closing
        <5>1. k \notin DOMAIN m_allPipes /\ k \notin timerPipes /\ k \notin finiPipes
            BY <2>4, <2>5, <4>1
        <5> QED BY <2>5, <3>1, <4>1, <5>1 DEF HubOwners
      <4>2. CASE ~Waiting(k) /\ ~closing
          BY <2>2, <2>5, <2>7, <3>1, <4>2 DEF HubOwners
      <4> QED BY <4>1, <4>2
    <3> QED BY <2>7, <3>2, OneIs
  <2>8. CASE ~HubHas(k)
    <3>1. HubOwners(k) = {}
        BY <2>2, <2>3, <2>8 DEF HubOwners, Hubbed
    <3> QED BY <2>8, <3>1
  <2> QED BY <2>2, <2>6, <2>7, <2>8
<1>2. ASSUME NEW s \in Services
      PROVE  IF k \in open[s] THEN One(HostOwners(s, k)) ELSE HostOwners(s, k) = {}
  <2>1. Apart(s) /\ GotIn(s) \cap Busy(s) = {} /\ open[s] = GotIn(s) \cup Busy(s)
      BY <1>0 DEF OnTime, HostTables
  <2>2. /\ k \in Busy(s) => \E x : Places(s, k) = {x}
        /\ k \notin Busy(s) => Places(s, k) = {}
      BY <2>1, OnePlace
  <2>3. k \in GotIn(s) <=> \E g \in got[s] : g.socket = k
      BY DEF GotIn
  <2>4. CASE k \in Busy(s)
    <3>1. PICK x : HostOwners(s, k) = {x}
        BY <2>1, <2>2, <2>3, <2>4 DEF HostOwners
    <3> QED BY <2>1, <2>4, <3>1, OneIs
  <2>5. CASE k \in GotIn(s)
    <3>1. HostOwners(s, k) = {"got"}
        BY <2>1, <2>2, <2>3, <2>5 DEF HostOwners
    <3> QED BY <2>1, <2>5, <3>1, OneIs
  <2>6. CASE k \notin open[s]
    <3>1. HostOwners(s, k) = {}
        BY <2>1, <2>2, <2>3, <2>6 DEF HostOwners
    <3> QED BY <2>6, <3>1
  <2> QED BY <2>1, <2>4, <2>5, <2>6
<1> QED BY <1>1, <1>2

LEMMA Right == IInv => RightService
<1> SUFFICES ASSUME IInv, ~late, NEW s \in Services
             PROVE  /\ \A k \in open[s] : ~conns[k].ipc /\ conns[k].id = s
                    /\ m_pipe[s] # 0 => \A i \in DOMAIN down[m_pipe[s]] :
                         LET x == down[m_pipe[s]][i] IN
                         /\ x.socket = x.sock.conn /\ conns[x.socket].id = s
                         /\ x.socket \notin open[s]
    BY DEF RightService
<1>0. TypeOK /\ Travellers /\ Speakers /\ OnTime
    BY DEF IInv
<1>1. ASSUME NEW k \in open[s] PROVE ~conns[k].ipc /\ conns[k].id = s
  <2>1. conns[k] = [ipc |-> FALSE, id |-> s]
      BY <1>0, <1>1 DEF OnTime, HostTables
  <2>2. conns[k].ipc = FALSE /\ conns[k].id = s
      BY <2>1
  <2> QED BY <2>2, Zenon
<1>2. ASSUME m_pipe[s] # 0, NEW i \in DOMAIN down[m_pipe[s]], NEW x, x = down[m_pipe[s]][i]
      PROVE  /\ x.socket = x.sock.conn /\ conns[x.socket].id = s /\ x.socket \notin open[s]
  <2>1. PICK k \in Conns : k = m_pipe[s] /\ IsPipe(k, s)
    <3>1. m_pipe[s] \in 0..MaxConns
        BY <1>0 DEF TypeOK
    <3>2. m_pipe[s] \in Conns
        BY <1>2, <3>1, HubAssumption DEF Conns
    <3> QED BY <1>0, <1>2, <3>2 DEF Speakers
  <2>2. x \in [sock : Socks, id : Services, socket : Conns]
    <3>1. PICK T : T = [sock : Socks, id : Services, socket : Conns]
        OBVIOUS
    <3>2. down[k] \in Seq(T)
        BY <1>0, <3>1 DEF TypeOK
    <3>3. i \in 1..Len(down[k]) /\ x = down[k][i]
        BY <1>2, <2>1, <3>2, LenProperties
    <3> QED BY <3>1, <3>2, <3>3, ElementOfSeq
  <2>3. x.sock \in Socks /\ x.sock # NoSock
    <3>1. x.sock \in Socks
        BY <2>2
    <3> QED BY <3>1, ConnsType DEF NoSock, Socks
  <2>4. x.sock \in Stage("flying", k)
      BY <1>2, <2>1, <2>3, FiveStages DEF Carries
  <2>5. x.socket = x.sock.conn
      BY <1>0, <1>2, <2>1 DEF OnTime, Passed
  <2>6. IsPipe(k, conns[x.sock.conn].id)
      BY <1>0, <2>4 DEF Travellers, Stages
  <2>7. conns[x.sock.conn].id = s
      BY <2>1, <2>6 DEF IsPipe
  <2>8. x.sock.conn \notin open[s]
      BY <1>0, <2>4 DEF OnTime, NotYetOpen, Early
  <2> QED BY <2>5, <2>7, <2>8
<1> QED BY <1>1, <1>2

LEMMA Inductive == Spec => []IInv
BY InitIInv, NextIInv, PTL DEF Spec

\* The variables keep their types: packets and acknowledgements name sockets by
\* a number of the hub's process and a connection, whatever the numbers stand for.
THEOREM TypeCorrect == Spec => []TypeOK
<1>1. IInv => TypeOK
    BY DEF IInv
<1> QED BY <1>1, Inductive, PTL

\* CProServiceHub's m_allPipes and m_serviceId2Pipe never disagree, whichever
\* pipes close, expire or announce a service that another pipe still has.
THEOREM PipesCorrect == Spec => []PipesAgree
BY Inductive, Agree, PTL

\* No descriptor is leaked or closed behind its owner's back, in the hub's process
\* or in a host's, through every step of OnTimer and Fini before and after their
\* unlock, as long as they close no number whose packet is still to be sent, or
\* to be acknowledged on a pipe the hub knows.
THEOREM DescriptorsCorrect == Spec => []DescriptorsOwned
BY Inductive, Owned, PTL

\* Under the same condition a host only gets sockets of clients that asked for its
\* service, each of them once, although numbers are used again and the transports of
\* pipes that OnTimer or Fini has taken from the tables go on sending until they are
\* deleted.
THEOREM ServiceCorrect == Spec => []RightService
BY Inductive, Right, PTL
=============================================================================
