-------------------------- MODULE MsgServiceProofs --------------------------
(***************************************************************************)
(* Proofs about the message server and its C2S nodes, for any number of    *)
(* nodes, clients, connections, packets and calls.                         *)
(*                                                                         *)
(*   UserIndexCorrect, OnlineCorrect   the tables of the server: IndexInv, *)
(*                                     OnlineInv                           *)
(*   C2sIndexCorrect                   the tables of a node: C2sInv        *)
(*   SocketsCorrect                    who owns a socket: SockInv          *)
(*   GhostCorrect                      what the server believes of a node: *)
(*                                     UplinkInv, PlaceInv, OwnInv and     *)
(*                                     GhostInv                            *)
(*   KnownCorrect                      what a node believes of the server: *)
(*                                     OnceInv, LogoutInv, MuteInv and     *)
(*                                     KnownInv                            *)
(*   TypeCorrect                       types: TypeInv, with all the others *)
(***************************************************************************)
EXTENDS MsgServiceInv, SequenceTheorems, FiniteSetTheorems, TLAPS

-----------------------------------------------------------------------------
\* A sequence is a sequence of its own elements.
LEMMA SeqOfElements ==
  ASSUME NEW T, NEW r \in Seq(T)
  PROVE  r \in Seq({r[i] : i \in DOMAIN r})
OBVIOUS

\* Appending a command.
LEMMA AppendTask ==
  ASSUME NEW q, NEW e, q \in Seq({q[i] : i \in DOMAIN q})
  PROVE  LET r == Append(q, e) IN
         /\ r \in Seq({r[i] : i \in DOMAIN r})
         /\ Len(q) \in Nat /\ DOMAIN q = 1..Len(q)
         /\ DOMAIN r = 1..(Len(q) + 1)
         /\ \A i \in 1..Len(q) : r[i] = q[i]
         /\ r[Len(q) + 1] = e
<1> DEFINE S == {q[i] : i \in DOMAIN q} \cup {e}
           r == Append(q, e)
<1>1. q \in Seq(S)
    OBVIOUS
<1>2. /\ r \in Seq(S) /\ Len(q) \in Nat /\ DOMAIN q = 1..Len(q)
      /\ DOMAIN r = 1..(Len(q) + 1)
      /\ \A i \in 1..Len(q) : r[i] = q[i]
      /\ r[Len(q) + 1] = e
    BY <1>1
<1>3. r \in Seq({r[i] : i \in DOMAIN r})
    BY <1>2, SeqOfElements
<1> QED BY <1>2, <1>3

\* Taking the oldest command.
LEMMA TailTask ==
  ASSUME NEW q, q \in Seq({q[i] : i \in DOMAIN q}), q # <<>>
  PROVE  LET r == Tail(q) IN
         /\ r \in Seq({r[i] : i \in DOMAIN r})
         /\ Len(q) \in Nat \ {0} /\ DOMAIN q = 1..Len(q) /\ Head(q) = q[1]
         /\ DOMAIN r = 1..(Len(q) - 1)
         /\ \A i \in 1..(Len(q) - 1) : r[i] = q[i + 1]
<1> DEFINE S == {q[i] : i \in DOMAIN q}
           r == Tail(q)
<1>1. /\ r \in Seq(S) /\ Len(q) \in Nat \ {0} /\ DOMAIN q = 1..Len(q) /\ Head(q) = q[1]
      /\ DOMAIN r = 1..(Len(q) - 1)
      /\ \A i \in 1..(Len(q) - 1) : r[i] = q[i + 1]
    OBVIOUS
<1>2. \A t \in Seq(S) : t \in Seq({t[i] : i \in DOMAIN t})
    BY SeqOfElements
<1>3. r \in Seq({r[i] : i \in DOMAIN r})
  <2> HIDE DEF r, S
  <2> QED BY <1>1, <1>2
<1> QED BY <1>1, <1>3
-----------------------------------------------------------------------------
(***************************************************************************)
(* The tables.                                                             *)
(***************************************************************************)

\* Removing a user, whether base user or behind a C2S, leaves tables that agree
\* and do not have the user.
LEMMA RemoveAgrees ==
  ASSUME Agree(m_session2Ctx, m_user2Ctx), NEW u
  PROVE  /\ Agree(CtxWithout(u), UserWithout(u))
         /\ u \notin DOMAIN UserWithout(u)
         /\ DOMAIN CtxWithout(u) \subseteq DOMAIN m_session2Ctx
         /\ \A s \in DOMAIN CtxWithout(u) :
              /\ CtxWithout(u)[s].base = m_session2Ctx[s].base
              /\ CtxWithout(u)[s].base # u
              /\ u \notin CtxWithout(u)[s].subs
<1> DEFINE S == m_session2Ctx
           U == m_user2Ctx
           S1 == CtxWithout(u)
           U1 == UserWithout(u)
<1>1. CASE ~Known(u)
  <2>1. Gone(u) = {} /\ Dead(u) = {} /\ ~IsSub(u) /\ ~IsBase(u)
      BY <1>1 DEF Gone, Dead, IsBase, IsSub
  <2>2. DOMAIN S1 = DOMAIN S /\ \A s \in DOMAIN S1 : S1[s] = S[s]
      BY <2>1 DEF CtxWithout
  <2>3. DOMAIN U1 = DOMAIN U /\ \A v \in DOMAIN U1 : U1[v] = U[v]
      BY <2>1 DEF UserWithout, Without
  <2> QED
      BY <1>1, <2>2, <2>3 DEF Agree, Known
<1>2. CASE IsBase(u)
  <2> DEFINE d == U[u]
  <2>1. Known(u) /\ S[d].base = u /\ ~IsSub(u) /\ d \in DOMAIN S
      BY <1>2 DEF IsBase, IsSub, Ctx, Agree, Known
  <2>2. Gone(u) = S[d].subs \cup {u} /\ Dead(u) = {d}
      BY <1>2, <2>1 DEF Gone, Dead, Ctx
  <2>3. DOMAIN S1 = DOMAIN S \ {d} /\ \A s \in DOMAIN S1 : S1[s] = S[s]
      BY <2>1, <2>2 DEF CtxWithout
  <2>4. DOMAIN U1 = DOMAIN U \ (S[d].subs \cup {u}) /\ \A v \in DOMAIN U1 : U1[v] = U[v]
      BY <2>2 DEF UserWithout, Without
  <2>5. \A v \in DOMAIN U : U[v] = d <=> v \in S[d].subs \cup {u}
      BY <2>1 DEF Agree
  <2>6. \A v \in DOMAIN U1 : U1[v] \in DOMAIN S1 /\ v \in S1[U1[v]].subs \cup {S1[U1[v]].base}
      BY <2>3, <2>4, <2>5 DEF Agree
  <2>7. ASSUME NEW s \in DOMAIN S1
        PROVE  /\ IsCtx(S1[s])
               /\ \A v \in S1[s].subs \cup {S1[s].base} : v \in DOMAIN U1 /\ U1[v] = s
      BY <2>3, <2>4, <2>5 DEF Agree
  <2>8. \A s \in DOMAIN S1 : u \notin S1[s].subs \cup {S1[s].base}
      BY <2>4, <2>7
  <2> QED
      BY <2>3, <2>4, <2>6, <2>7, <2>8 DEF Agree
<1>3. CASE IsSub(u)
  <2> DEFINE d == U[u]
  <2>1. Known(u) /\ S[d].base # u /\ u \in S[d].subs /\ d \in DOMAIN S /\ ~IsBase(u)
      BY <1>3 DEF IsSub, IsBase, Ctx, Agree, Known
  <2>2. Gone(u) = {u} /\ Dead(u) = {}
      BY <1>3, <2>1 DEF Gone, Dead
  <2>3. /\ DOMAIN S1 = DOMAIN S
        /\ \A s \in DOMAIN S1 : S1[s] = IF s = d THEN [S[s] EXCEPT !.subs = @ \ {u}] ELSE S[s]
      BY <1>3, <2>2 DEF CtxWithout
  <2>4. \A s \in DOMAIN S1 : /\ IsCtx(S1[s]) /\ S1[s].base = S[s].base
                             /\ S1[s].subs = IF s = d THEN S[s].subs \ {u} ELSE S[s].subs
      <3> SUFFICES ASSUME NEW s \in DOMAIN S1
                   PROVE  /\ IsCtx(S1[s]) /\ S1[s].base = S[s].base
                          /\ S1[s].subs = IF s = d THEN S[s].subs \ {u} ELSE S[s].subs
          OBVIOUS
      <3>1. S[s] = [base |-> S[s].base, subs |-> S[s].subs, isC2s |-> S[s].isC2s]
          BY <2>3 DEF Agree, IsCtx
      <3> QED BY <2>3, <3>1 DEF IsCtx
  <2>5. DOMAIN U1 = DOMAIN U \ {u} /\ \A v \in DOMAIN U1 : U1[v] = U[v]
      BY <2>2 DEF UserWithout, Without
  <2>6. \A v \in DOMAIN U1 : U1[v] \in DOMAIN S1 /\ v \in S1[U1[v]].subs \cup {S1[U1[v]].base}
      BY <2>3, <2>4, <2>5 DEF Agree
  <2>7. ASSUME NEW s \in DOMAIN S1, NEW v \in S1[s].subs \cup {S1[s].base}
        PROVE  v \in DOMAIN U1 /\ U1[v] = s
      <3>1. v \in S[s].subs \cup {S[s].base}
          BY <2>3, <2>4
      <3>2. v \in DOMAIN U /\ U[v] = s
          BY <2>3, <3>1 DEF Agree
      <3>3. v # u
          BY <2>1, <2>4, <3>2
      <3> QED BY <2>5, <3>2, <3>3
  <2>8. \A s \in DOMAIN S1 : u \notin S1[s].subs \cup {S1[s].base}
      BY <2>5, <2>7
  <2> QED
      BY <2>3, <2>4, <2>5, <2>6, <2>7, <2>8 DEF Agree
<1> QED
    BY <1>1, <1>2, <1>3 DEF IsBase, IsSub, Known

\* A context for a new base user.
LEMMA AddBaseAgrees ==
  ASSUME NEW S, NEW U, Agree(S, U), NEW s, s \notin DOMAIN S, NEW b, NEW u, u \notin DOMAIN U
  PROVE  Agree([t \in DOMAIN S \cup {s} |->
                  IF t = s THEN [base |-> u, subs |-> {}, isC2s |-> b] ELSE S[t]],
               [v \in DOMAIN U \cup {u} |-> IF v = u THEN s ELSE U[v]])
<1> DEFINE S1 == [t \in DOMAIN S \cup {s} |->
                    IF t = s THEN [base |-> u, subs |-> {}, isC2s |-> b] ELSE S[t]]
           U1 == [v \in DOMAIN U \cup {u} |-> IF v = u THEN s ELSE U[v]]
<1>1. S1[s].base = u /\ S1[s].subs = {} /\ IsCtx(S1[s])
    BY DEF IsCtx
<1>2. \A t \in DOMAIN S : t # s /\ S1[t] = S[t]
    OBVIOUS
<1>3. \A v \in DOMAIN U : v # u /\ U1[v] = U[v]
    OBVIOUS
<1>4. U1[u] = s /\ DOMAIN S1 = DOMAIN S \cup {s} /\ DOMAIN U1 = DOMAIN U \cup {u}
    OBVIOUS
<1> HIDE DEF S1, U1
<1>5. \A v \in DOMAIN U1 : U1[v] \in DOMAIN S1 /\ v \in S1[U1[v]].subs \cup {S1[U1[v]].base}
    BY <1>1, <1>2, <1>3, <1>4 DEF Agree
<1>6. ASSUME NEW t \in DOMAIN S1
      PROVE  /\ IsCtx(S1[t])
             /\ \A v \in S1[t].subs \cup {S1[t].base} : v \in DOMAIN U1 /\ U1[v] = t
  <2>1. CASE t = s
      BY <1>1, <1>4, <2>1
  <2>2. CASE t # s
      BY <1>2, <1>3, <1>4, <2>2 DEF Agree
  <2> QED BY <2>1, <2>2
<1>7. Agree(S1, U1)
    BY <1>5, <1>6 DEF Agree
<1> QED BY <1>7 DEF S1, U1

\* A new user behind the base user of a context.
LEMMA AddSubAgrees ==
  ASSUME NEW S, NEW U, Agree(S, U), NEW s \in DOMAIN S, NEW u, u \notin DOMAIN U
  PROVE  Agree([S EXCEPT ![s].subs = @ \cup {u}],
               [v \in DOMAIN U \cup {u} |-> IF v = u THEN s ELSE U[v]])
<1> DEFINE S1 == [S EXCEPT ![s].subs = @ \cup {u}]
           U1 == [v \in DOMAIN U \cup {u} |-> IF v = u THEN s ELSE U[v]]
<1>1. S[s] = [base |-> S[s].base, subs |-> S[s].subs, isC2s |-> S[s].isC2s]
    BY DEF Agree, IsCtx
<1>2. S1[s] = [S[s] EXCEPT !.subs = S[s].subs \cup {u}] /\ DOMAIN S1 = DOMAIN S
    OBVIOUS
<1>3. S1[s].base = S[s].base /\ S1[s].subs = S[s].subs \cup {u} /\ IsCtx(S1[s])
    BY <1>1, <1>2 DEF IsCtx
<1>4. \A t \in DOMAIN S : t # s => S1[t] = S[t]
    OBVIOUS
<1>5. \A v \in DOMAIN U : v # u /\ U1[v] = U[v]
    OBVIOUS
<1>6. U1[u] = s /\ DOMAIN U1 = DOMAIN U \cup {u}
    OBVIOUS
<1> HIDE DEF S1, U1
<1>7. ASSUME NEW v \in DOMAIN U1
      PROVE  U1[v] \in DOMAIN S1 /\ v \in S1[U1[v]].subs \cup {S1[U1[v]].base}
  <2>1. CASE v = u
      BY <1>2, <1>3, <1>6, <2>1
  <2>2. CASE v # u
    <3>1. v \in DOMAIN U /\ U1[v] = U[v] /\ U[v] \in DOMAIN S
          /\ v \in S[U[v]].subs \cup {S[U[v]].base}
        BY <1>5, <1>6, <2>2 DEF Agree
    <3>2. S1[U[v]].base = S[U[v]].base /\ S[U[v]].subs \subseteq S1[U[v]].subs
        BY <1>3, <1>4, <3>1
    <3> QED BY <1>2, <3>1, <3>2
  <2> QED BY <2>1, <2>2
<1>8. ASSUME NEW t \in DOMAIN S1
      PROVE  /\ IsCtx(S1[t])
             /\ \A v \in S1[t].subs \cup {S1[t].base} : v \in DOMAIN U1 /\ U1[v] = t
  <2>1. CASE t = s
      BY <1>3, <1>5, <1>6, <2>1 DEF Agree
  <2>2. CASE t # s
      BY <1>2, <1>4, <1>5, <1>6, <2>2 DEF Agree
  <2> QED BY <2>1, <2>2
<1>9. Agree(S1, U1)
    BY <1>7, <1>8 DEF Agree
<1> QED BY <1>9 DEF S1, U1

\* ClientLogout and AsyncOnCloseSession remove a user in terms of its context.
LEMMA LogoutRemoves ==
  ASSUME NEW u, IsSub(u)
  PROVE  /\ [m_session2Ctx EXCEPT ![m_user2Ctx[u]].subs = @ \ {u}] = CtxWithout(u)
         /\ Without(m_user2Ctx, {u}) = UserWithout(u)
<1>1. ~IsBase(u) /\ Gone(u) = {u} /\ Dead(u) = {}
    BY DEF IsSub, IsBase, Gone, Dead
<1> QED BY <1>1 DEF CtxWithout, UserWithout

\* Closing the session of user b takes away b and all that logged in through it.
LEMMA CloseRemoves ==
  ASSUME Agree(m_session2Ctx, m_user2Ctx), NEW s \in DOMAIN m_session2Ctx,
         NEW b, b = m_session2Ctx[s].base
  PROVE  /\ Gone(b) = m_session2Ctx[s].subs \cup {b}
         /\ Without(m_session2Ctx, {s}) = CtxWithout(b)
         /\ Without(m_user2Ctx, m_session2Ctx[s].subs \cup {b}) = UserWithout(b)
<1>1. Known(b) /\ m_user2Ctx[b] = s
    BY DEF Agree, Known
<1>2. IsBase(b) /\ ~IsSub(b) /\ Ctx(b) = m_session2Ctx[s]
    BY <1>1 DEF IsBase, IsSub, Ctx
<1>3. Gone(b) = m_session2Ctx[s].subs \cup {b} /\ Dead(b) = {s}
    BY <1>1, <1>2 DEF Gone, Dead
<1>4. CtxWithout(b) = [t \in DOMAIN m_session2Ctx \ {s} |-> m_session2Ctx[t]]
    BY <1>2, <1>3 DEF CtxWithout
<1> QED BY <1>3, <1>4 DEF Without, UserWithout
-----------------------------------------------------------------------------
(***************************************************************************)
(* What the actions do to the invariant, by the way they treat the task.   *)
(***************************************************************************)

\* The tables and the task stay, connections may be made.
LEMMA TablesStay ==
  ASSUME IndexInv, next' = next \/ next' = next + 1,
         UNCHANGED <<m_session2Ctx, m_user2Ctx, task>>
  PROVE  IndexInv'
BY DEF IndexInv, TaskIsSeq, Fresh, Waiting, Agree

\* A command is appended that makes no context.
LEMMA CommandWaits ==
  ASSUME IndexInv, NEW e, e.cmd # "accept", task' = Append(task, e),
         UNCHANGED <<m_session2Ctx, m_user2Ctx, next>>
  PROVE  IndexInv'
<1>1. /\ TaskIsSeq' /\ Len(task) \in Nat /\ DOMAIN task = 1..Len(task)
      /\ DOMAIN task' = 1..(Len(task) + 1)
      /\ \A i \in 1..Len(task) : task'[i] = task[i]
      /\ task'[Len(task) + 1] = e
    BY AppendTask DEF IndexInv, TaskIsSeq
<1>2. \A i \in DOMAIN task' : Waiting(i)' => i \in DOMAIN task /\ Waiting(i) /\ task'[i] = task[i]
    BY <1>1 DEF Waiting
<1>3. Fresh'
    BY <1>2 DEF Fresh, IndexInv
<1> QED BY <1>1, <1>3 DEF IndexInv, Agree

\* A new connection waits for its context.
LEMMA AcceptWaits ==
  ASSUME IndexInv, NEW u, next' = next + 1,
         task' = Append(task, [cmd |-> "accept", conn |-> next, user |-> u]),
         UNCHANGED <<m_session2Ctx, m_user2Ctx>>
  PROVE  IndexInv'
<1> DEFINE e == [cmd |-> "accept", conn |-> next, user |-> u]
<1>1. /\ TaskIsSeq' /\ Len(task) \in Nat /\ DOMAIN task = 1..Len(task)
      /\ DOMAIN task' = 1..(Len(task) + 1)
      /\ \A i \in 1..Len(task) : task'[i] = task[i]
      /\ task'[Len(task) + 1] = e
    BY AppendTask DEF IndexInv, TaskIsSeq
<1>2. \A i \in DOMAIN task' :
        Waiting(i)' => \/ i \in DOMAIN task /\ Waiting(i) /\ task'[i] = task[i]
                       \/ i = Len(task) + 1 /\ task'[i].conn = next
    BY <1>1 DEF Waiting
<1>3. next \in Nat /\ next \notin DOMAIN m_session2Ctx
    BY DEF IndexInv, Fresh
<1>4. \A i \in DOMAIN task : Waiting(i) => task[i].conn \in Nat /\ task[i].conn < next
    BY DEF IndexInv, Fresh
<1>5. Fresh'
  <2>1. \A i \in DOMAIN task' : Waiting(i)' =>
          /\ task'[i].conn \in Nat /\ task'[i].conn < next'
          /\ task'[i].conn \notin DOMAIN m_session2Ctx'
      BY <1>2, <1>3, <1>4 DEF Fresh, IndexInv
  <2>2. \A i, j \in DOMAIN task' :
          Waiting(i)' /\ Waiting(j)' /\ i # j => task'[i].conn # task'[j].conn
      BY <1>2, <1>3, <1>4 DEF Fresh, IndexInv
  <2>3. next' \in Nat /\ \A s \in DOMAIN m_session2Ctx' : s \in Nat /\ s < next'
      BY <1>3 DEF Fresh, IndexInv
  <2> QED BY <2>1, <2>2, <2>3 DEF Fresh
<1> QED BY <1>1, <1>5 DEF IndexInv, Agree

\* A command is executed; a context it makes is for the connection it waited with.
LEMMA CommandDone ==
  ASSUME IndexInv, task # <<>>, task' = Tail(task), next' = next,
         Agree(m_session2Ctx, m_user2Ctx)',
         \A s \in DOMAIN m_session2Ctx' :
           s \in DOMAIN m_session2Ctx \/ (Head(task).cmd = "accept" /\ s = Head(task).conn)
  PROVE  IndexInv'
<1>1. /\ TaskIsSeq' /\ Len(task) \in Nat \ {0} /\ DOMAIN task = 1..Len(task)
      /\ Head(task) = task[1] /\ DOMAIN task' = 1..(Len(task) - 1)
      /\ \A i \in 1..(Len(task) - 1) : task'[i] = task[i + 1]
    BY TailTask DEF IndexInv, TaskIsSeq
<1>2. \A i \in DOMAIN task' : Waiting(i)' =>
        Waiting(i + 1) /\ i + 1 \in DOMAIN task /\ i + 1 # 1 /\ task'[i] = task[i + 1]
    BY <1>1 DEF Waiting
<1>3. 1 \in DOMAIN task /\ (Head(task).cmd = "accept" => Waiting(1))
    BY <1>1 DEF Waiting
<1>4. \A s \in DOMAIN m_session2Ctx' : s \in Nat /\ s < next'
    BY <1>1, <1>3 DEF Fresh, IndexInv
<1>5. ASSUME NEW i \in DOMAIN task', Waiting(i)'
      PROVE  /\ task'[i].conn \in Nat /\ task'[i].conn < next'
             /\ task'[i].conn \notin DOMAIN m_session2Ctx'
  <2>1. Waiting(i + 1) /\ i + 1 \in DOMAIN task /\ i + 1 # 1 /\ task'[i] = task[i + 1]
      BY <1>2, <1>5
  <2>2. /\ task[i + 1].conn \in Nat /\ task[i + 1].conn < next
        /\ task[i + 1].conn \notin DOMAIN m_session2Ctx
      BY <2>1 DEF Fresh, IndexInv
  <2>3. Head(task).cmd = "accept" => task[i + 1].conn # Head(task).conn
      BY <1>1, <1>3, <2>1 DEF Fresh, IndexInv
  <2> QED BY <2>1, <2>2, <2>3
<1>6. ASSUME NEW i \in DOMAIN task', NEW j \in DOMAIN task', Waiting(i)', Waiting(j)', i # j
      PROVE  task'[i].conn # task'[j].conn
  <2>1. i + 1 # j + 1
      BY <1>1, <1>6
  <2> QED BY <1>2, <1>6, <2>1 DEF Fresh, IndexInv
<1>7. Fresh'
    BY <1>4, <1>5, <1>6 DEF Fresh, IndexInv
<1> QED BY <1>1, <1>7 DEF IndexInv
-----------------------------------------------------------------------------
(***************************************************************************)
(* The steps of the nodes, of the clients and of the connections leave the *)
(* server's tables and record alone.                                       *)
(***************************************************************************)
LEMMA C2sDials ==
  ASSUME NEW c, C2sNext(c)
  PROVE  next' = next \/ next' = next + 1
<1>1. ASSUME NEW u, C2sAcceptSession(c, u) PROVE next' = next + 1
    BY <1>1 DEF C2sAcceptSession, Dial
<1>2. ASSUME NEW u, C2sKickoutUser(c, u) PROVE next' = next
    BY <1>2 DEF C2sKickoutUser, Logoff
<1>3. ASSUME NEW k, C2sOnTimer(c, k) \/ C2sOnCloseSession(c, k) \/ C2sOnRecvSession(c, k)
      PROVE  next' = next
    BY <1>3 DEF C2sOnTimer, C2sOnCloseSession, C2sOnRecvSession, Logoff
<1>4. ASSUME NEW o, C2sLoginOk(c, o) PROVE next' = next
    BY <1>4 DEF C2sLoginOk
<1>5. C2sOnOkMsg(c) \/ C2sOnTransferMsg(c) \/ C2sReport(c) => next' = next
    BY DEF C2sOnOkMsg, C2sOnTransferMsg, C2sReport
<1>6. C2sLoginError(c) \/ C2sKickout(c) \/ C2sOnCloseMsg(c) \/ C2sFini(c) => next' = next
    BY DEF C2sLoginError, C2sKickout, C2sOnCloseMsg, C2sFini, DropAll
<1> QED
    BY <1>1, <1>2, <1>3, <1>4, <1>5, <1>6 DEF C2sNext

\* The tables are empty at the start.
LEMMA InitIndex == Init => IndexInv
<1> SUFFICES ASSUME Init PROVE IndexInv
    OBVIOUS
<1>1. task = <<>> /\ next = 1 /\ DOMAIN m_session2Ctx = {} /\ DOMAIN m_user2Ctx = {}
    BY DEF Init, LinkInit, ServerInit
<1>2. TaskIsSeq /\ DOMAIN task = {}
    BY <1>1 DEF TaskIsSeq
<1>3. Fresh /\ Agree(m_session2Ctx, m_user2Ctx)
    BY <1>1, <1>2 DEF Fresh, Agree
<1> QED BY <1>2, <1>3 DEF IndexInv

\* A connection to the server: the tables stay, a connection waits or not.
LEMMA AcceptIndex ==
  ASSUME IndexInv, NEW u, OnAcceptSession(u), UNCHANGED <<m_session2Ctx, m_user2Ctx>>
  PROVE  IndexInv'
<1>1. CASE alive /\ Len(task) < MaxPending
    BY <1>1, AcceptWaits DEF OnAcceptSession, Dial
<1>2. CASE ~(alive /\ Len(task) < MaxPending)
    BY <1>2, TablesStay DEF OnAcceptSession, Dial
<1> QED BY <1>1, <1>2

\* Every step of the server keeps its two tables inverse to each other.
LEMMA ServerIndex ==
  ASSUME IndexInv, ServerNext
  PROVE  IndexInv'
<1> USE DEF IndexInv
<1>1. ASSUME NEW u, KickoutUser(u) PROVE IndexInv'
  <2> DEFINE e == [cmd |-> "kickout", user |-> u]
  <2>1. e.cmd # "accept" /\ task' = Append(task, e)
        /\ UNCHANGED <<m_session2Ctx, m_user2Ctx, next>>
      BY <1>1 DEF KickoutUser
  <2> HIDE DEF e, IndexInv
  <2> QED BY <2>1, CommandWaits
<1>2. ASSUME NEW u, SendMsg(u) PROVE IndexInv'
    BY <1>2, TablesStay DEF SendMsg, serverVars
<1>3. ASSUME NEW s, OnRecvSession(s) PROVE IndexInv'
  <2> DEFINE e == [cmd |-> "recv", conn |-> s, msg |-> Head(up[s]), c2s |-> Head(up[s]).src]
  <2>1. e.cmd # "accept" /\ (task' = Append(task, e) \/ task' = task)
        /\ UNCHANGED <<m_session2Ctx, m_user2Ctx, next>>
      BY <1>3 DEF OnRecvSession
  <2> HIDE DEF e, IndexInv
  <2> QED BY <2>1, CommandWaits, TablesStay
<1>4. ASSUME NEW s, OnCloseSession(s) PROVE IndexInv'
  <2> DEFINE e == [cmd |-> "close", conn |-> s]
  <2>1. e.cmd # "accept" /\ task' = Append(task, e)
        /\ UNCHANGED <<m_session2Ctx, m_user2Ctx, next>>
      BY <1>4 DEF OnCloseSession, linkVars
  <2> HIDE DEF e, IndexInv
  <2> QED BY <2>1, CommandWaits
<1>5. CASE RejectSession \/ LoginRefused \/ DrainCommand
  <2>1. task # <<>> /\ task' = Tail(task) /\ UNCHANGED <<m_session2Ctx, m_user2Ctx, next>>
      BY <1>5 DEF RejectSession, LoginRefused, DrainCommand, Command, Nothing, linkVars
  <2>2. Agree(m_session2Ctx, m_user2Ctx)'
      BY <2>1 DEF Agree
  <2> QED BY <2>1, <2>2, CommandDone
<1>6. CASE AddBaseUser
  <2> DEFINE s == Head(task).conn
             u == Head(task).user
             C == CtxWithout(u)
             V == UserWithout(u)
             C1 == [t \in DOMAIN C \cup {s} |->
                      IF t = s THEN [base |-> u, subs |-> {}, isC2s |-> u \in C2s] ELSE C[t]]
             V1 == [v \in DOMAIN V \cup {u} |-> IF v = u THEN s ELSE V[v]]
  <2>1. /\ task # <<>> /\ Head(task).cmd = "accept" /\ task' = Tail(task) /\ next' = next
        /\ m_session2Ctx' = C1 /\ m_user2Ctx' = V1
      BY <1>6 DEF AddBaseUser, Command
  <2>2. Agree(C, V) /\ u \notin DOMAIN V /\ DOMAIN C \subseteq DOMAIN m_session2Ctx
      BY RemoveAgrees
  <2>3. s \notin DOMAIN m_session2Ctx
    <3>1. 1 \in DOMAIN task /\ Head(task) = task[1]
        BY <2>1, TailTask DEF TaskIsSeq
    <3> QED BY <2>1, <3>1 DEF Fresh, Waiting
  <2> HIDE DEF s, u, C, V
  <2>4. Agree(m_session2Ctx, m_user2Ctx)'
    <3>1. Agree(C1, V1)
        BY <2>2, <2>3, AddBaseAgrees
    <3> HIDE DEF C1, V1
    <3> QED BY <2>1, <3>1 DEF Agree
  <2>5. \A t \in DOMAIN m_session2Ctx' : t \in DOMAIN m_session2Ctx \/ t = Head(task).conn
      BY <2>1, <2>2 DEF s
  <2> QED BY <2>1, <2>4, <2>5, CommandDone
<1>7. CASE Respond
    BY <1>7, TablesStay DEF Respond
<1>8. CASE AddSubUser
  <2> DEFINE c2s == Head(task).c2s
             u == Head(task).msg.user
             s == m_user2Ctx[c2s]
             C == CtxWithout(u)
             V == UserWithout(u)
             C1 == [C EXCEPT ![s].subs = @ \cup {u}]
             V1 == [v \in DOMAIN V \cup {u} |-> IF v = u THEN s ELSE V[v]]
             ok == u # c2s /\ Known(c2s) /\ Ctx(c2s).isC2s /\ Ctx(c2s).base = c2s
  <2>1. task # <<>> /\ task' = Tail(task)
      BY <1>8 DEF AddSubUser, Command
  <2>2. CASE ~ok
    <3>1. UNCHANGED <<m_session2Ctx, m_user2Ctx, next>>
        BY <1>8, <2>2 DEF AddSubUser, Nothing, linkVars
    <3> QED BY <2>1, <3>1, CommandDone DEF Agree
  <2>3. CASE ok
    <3>1. m_session2Ctx' = C1 /\ m_user2Ctx' = V1 /\ next' = next
        BY <1>8, <2>3 DEF AddSubUser
    <3>2. Agree(C, V) /\ u \notin DOMAIN V /\ DOMAIN C \subseteq DOMAIN m_session2Ctx
        BY RemoveAgrees
    <3>3. s \in DOMAIN C
        BY <2>3 DEF CtxWithout, Dead, IsBase, Ctx, Known, Agree
    <3> HIDE DEF s, u, C, V
    <3>4. Agree(m_session2Ctx, m_user2Ctx)'
      <4>1. Agree(C1, V1)
          BY <3>2, <3>3, AddSubAgrees
      <4> HIDE DEF C1, V1
      <4> QED BY <3>1, <4>1 DEF Agree
    <3>5. DOMAIN m_session2Ctx' \subseteq DOMAIN m_session2Ctx
        BY <3>1, <3>2
    <3> QED BY <2>1, <3>1, <3>4, <3>5, CommandDone
  <2> QED BY <2>2, <2>3
<1>9. CASE ClientLogout
  <2> DEFINE u == Head(task).msg.user
             c2s == Head(task).c2s
             ok == u # c2s /\ Known(u) /\ Ctx(u).isC2s /\ Ctx(u).base = c2s
  <2>1. task # <<>> /\ task' = Tail(task) /\ next' = next
      BY <1>9 DEF ClientLogout, Command, Nothing, linkVars
  <2>2. CASE ~ok
    <3>1. UNCHANGED <<m_session2Ctx, m_user2Ctx>>
        BY <1>9, <2>2 DEF ClientLogout, Nothing
    <3> QED BY <2>1, <3>1, CommandDone DEF Agree
  <2>3. CASE ok
    <3>1. IsSub(u)
        BY <2>3 DEF IsSub
    <3>2. m_session2Ctx' = CtxWithout(u) /\ m_user2Ctx' = UserWithout(u)
        BY <1>9, <2>3, <3>1, LogoutRemoves DEF ClientLogout
    <3>3. Agree(CtxWithout(u), UserWithout(u)) /\ DOMAIN CtxWithout(u) \subseteq DOMAIN m_session2Ctx
        BY RemoveAgrees
    <3> QED BY <2>1, <3>2, <3>3, CommandDone DEF Agree
  <2> QED BY <2>2, <2>3
<1>10. CASE AsyncOnCloseSession
  <2> DEFINE s == Head(task).conn
             b == m_session2Ctx[s].base
  <2>1. task # <<>> /\ task' = Tail(task) /\ next' = next
      BY <1>10 DEF AsyncOnCloseSession, Command, Nothing, linkVars
  <2>2. CASE s \notin DOMAIN m_session2Ctx
    <3>1. UNCHANGED <<m_session2Ctx, m_user2Ctx>>
        BY <1>10, <2>2 DEF AsyncOnCloseSession, Nothing
    <3> QED BY <2>1, <3>1, CommandDone DEF Agree
  <2>3. CASE s \in DOMAIN m_session2Ctx
    <3>1. m_session2Ctx' = CtxWithout(b) /\ m_user2Ctx' = UserWithout(b)
        BY <1>10, <2>3, CloseRemoves DEF AsyncOnCloseSession
    <3>2. Agree(CtxWithout(b), UserWithout(b)) /\ DOMAIN CtxWithout(b) \subseteq DOMAIN m_session2Ctx
        BY RemoveAgrees
    <3> QED BY <2>1, <3>1, <3>2, CommandDone DEF Agree
  <2> QED BY <2>2, <2>3
<1>11. CASE AsyncKickoutUser
  <2> DEFINE u == Head(task).user
  <2>1. task # <<>> /\ task' = Tail(task) /\ next' = next
        /\ m_session2Ctx' = CtxWithout(u) /\ m_user2Ctx' = UserWithout(u)
      BY <1>11 DEF AsyncKickoutUser, Command
  <2>2. Agree(CtxWithout(u), UserWithout(u)) /\ DOMAIN CtxWithout(u) \subseteq DOMAIN m_session2Ctx
      BY RemoveAgrees
  <2> QED BY <2>1, <2>2, CommandDone DEF Agree
<1>12. CASE Fini
  <2>1. UNCHANGED <<task, next>> /\ DOMAIN m_session2Ctx' = {} /\ DOMAIN m_user2Ctx' = {}
      BY <1>12 DEF Fini, Without
  <2> QED BY <2>1 DEF TaskIsSeq, Fresh, Waiting, Agree
<1>13. CASE FiniSessions
    BY <1>13, TablesStay DEF FiniSessions
<1> HIDE DEF IndexInv
<1> QED
    BY <1>1, <1>2, <1>3, <1>4, <1>5, <1>6, <1>7, <1>8, <1>9, <1>10, <1>11, <1>12, <1>13
    DEF ServerNext

\* The two tables of the server agree in every state.
LEMMA IndexInvariance == Spec => []IndexInv
<1>1. IndexInv /\ [Next]_vars => IndexInv'
  <2> SUFFICES ASSUME IndexInv, [Next]_vars PROVE IndexInv'
      OBVIOUS
  <2>1. CASE UNCHANGED vars
      BY <2>1, TablesStay DEF vars, linkVars, serverVars
  <2>2. CASE ServerNext /\ UNCHANGED c2sVars
      BY <2>2, ServerIndex
  <2>3. ASSUME NEW c \in C2s, C2sNext(c), UNCHANGED serverVars PROVE IndexInv'
      BY <2>3, C2sDials, TablesStay DEF serverVars
  <2>4. ASSUME NEW c \in C2s, Connect(c) PROVE IndexInv'
      BY <2>4, AcceptIndex DEF Connect
  <2>5. ASSUME NEW u \in Users, ClientConnect(u) PROVE IndexInv'
      BY <2>5, AcceptIndex DEF ClientConnect
  <2>6. ASSUME NEW k \in Conns, ClientRecv(k) \/ \E u \in Ids : ClientSend(k, u) PROVE IndexInv'
      BY <2>6, TablesStay DEF ClientRecv, ClientSend, serverVars
  <2> QED BY <2>1, <2>2, <2>3, <2>4, <2>5, <2>6 DEF Next
<1> QED BY <1>1, InitIndex, PTL DEF Spec

(***************************************************************************)
(* The two tables of CRtpMsgServer agree, however users move between       *)
(* connections and whatever waits in the task.                             *)
(***************************************************************************)
THEOREM UserIndexCorrect == Spec => []UserIndexAgrees
<1>1. IndexInv => UserIndexAgrees
    BY DEF IndexInv, Agree, UserIndexAgrees, Ctx, Known
<1> QED BY <1>1, IndexInvariance, PTL
-----------------------------------------------------------------------------
(***************************************************************************)
(* OnlineInv: the record of who is online.                                 *)
(***************************************************************************)

\* The instances of a user are finitely many; with users gone, no more.
LEMMA FewerInstances ==
  ASSUME NEW X, IsFiniteSet(X), NEW Y, Y \subseteq X, NEW w
  PROVE  LET X1 == {v \in X : Uid(v) = w}
             Y1 == {v \in Y : Uid(v) = w}
         IN /\ IsFiniteSet(Y) /\ IsFiniteSet(X1) /\ IsFiniteSet(Y1)
            /\ Cardinality(X1) \in Nat /\ Cardinality(Y1) \in Nat
            /\ Cardinality(Y1) <= Cardinality(X1)
<1> DEFINE X1 == {v \in X : Uid(v) = w}
           Y1 == {v \in Y : Uid(v) = w}
<1>1. X1 \subseteq X /\ Y1 \subseteq X1
    OBVIOUS
<1> HIDE DEF X1, Y1
<1>2. IsFiniteSet(Y) /\ IsFiniteSet(X1)
    BY <1>1, FS_Subset
<1>3. IsFiniteSet(Y1) /\ Cardinality(Y1) <= Cardinality(X1)
    BY <1>1, <1>2, FS_Subset
<1>4. Cardinality(X1) \in Nat /\ Cardinality(Y1) \in Nat
    BY <1>2, <1>3, FS_CardinalityType
<1> QED BY <1>2, <1>3, <1>4 DEF X1, Y1

\* Users go from the tables and from the record together.
LEMMA UsersGo ==
  ASSUME OnlineInv, rsp = {}, rsp' = {}, alive' = alive, alive, NEW G,
         online' = online \ G, DOMAIN m_user2Ctx' = DOMAIN m_user2Ctx \ G
  PROVE  OnlineInv'
<1>1. online = DOMAIN m_user2Ctx
    BY DEF OnlineInv, OnlineAgrees
<1>2. OnlineAgrees'
    BY <1>1 DEF OnlineAgrees
<1>3. IsFiniteSet(online) /\ online' \subseteq online
    BY DEF OnlineInv
<1>4. IsFiniteSet(online')
    BY <1>3, FS_Subset
<1>5. InstancesBounded'
  <2> SUFFICES ASSUME NEW u \in online' PROVE Cardinality(Instances(u)') <= MaxIids
      BY DEF InstancesBounded
  <2>1. /\ Cardinality(Instances(u)) \in Nat /\ Cardinality(Instances(u)') \in Nat
        /\ Cardinality(Instances(u)') <= Cardinality(Instances(u))
      BY <1>3, FewerInstances DEF Instances
  <2>2. Cardinality(Instances(u)) <= MaxIids
      BY <1>3 DEF OnlineInv, InstancesBounded
  <2> QED BY <2>1, <2>2, ServerAssumption
<1> QED BY <1>2, <1>4, <1>5 DEF OnlineInv, OnePending, Room

\* User u, whom OnCheckUser let pass, is in the tables; OnOkUser is still due.
LEMMA UserComes ==
  ASSUME OnlineInv, rsp = {}, alive' = alive, alive, NEW r, rsp' = {r}, NEW u, r.user = u,
         OnCheckUser(u), NEW G, u \in DOMAIN m_user2Ctx => u \in G,
         online' = online \ G, DOMAIN m_user2Ctx' = (DOMAIN m_user2Ctx \ G) \cup {u}
  PROVE  OnlineInv'
<1>1. online = DOMAIN m_user2Ctx
    BY DEF OnlineInv, OnlineAgrees
<1>2. u \notin online'
    BY <1>1
<1>3. OnlineAgrees'
    BY <1>1, <1>2 DEF OnlineAgrees
<1>4. IsFiniteSet(online) /\ online' \subseteq online
    BY DEF OnlineInv
<1>5. IsFiniteSet(online')
    BY <1>4, FS_Subset
<1>6. \A v : /\ Cardinality(Instances(v)) \in Nat /\ Cardinality(Instances(v)') \in Nat
             /\ Cardinality(Instances(v)') <= Cardinality(Instances(v))
    BY <1>4, FewerInstances DEF Instances
<1>7. InstancesBounded'
  <2> SUFFICES ASSUME NEW v \in online' PROVE Cardinality(Instances(v)') <= MaxIids
      BY DEF InstancesBounded
  <2>1. Cardinality(Instances(v)) <= MaxIids
      BY <1>4 DEF OnlineInv, InstancesBounded
  <2> QED BY <1>6, <2>1, ServerAssumption
<1>8. Cardinality(Instances(u)') < MaxIids
  <2>1. CASE u \in online
    <3>1. u \in Instances(u) /\ u \notin Instances(u)'
        BY <1>2, <2>1 DEF Instances
    <3>2. Cardinality(Instances(u)') < Cardinality(Instances(u))
      <4>1. Instances(u)' \subseteq Instances(u) /\ IsFiniteSet(Instances(u))
          BY <1>4, FewerInstances DEF Instances
      <4>2. Cardinality(Instances(u)') # Cardinality(Instances(u))
          BY <3>1, <4>1, FS_Subset
      <4> QED BY <1>6, <4>2
    <3>3. Cardinality(Instances(u)) <= MaxIids
        BY <2>1 DEF OnlineInv, InstancesBounded
    <3> QED BY <1>6, <3>2, <3>3, ServerAssumption
  <2>2. CASE u \notin online
    <3>1. Instances(u) = {} \/ Cardinality(Instances(u)) < MaxIids
        BY <2>2 DEF OnCheckUser, Instances
    <3>2. Instances(u) = {} => Cardinality(Instances(u)) = 0
        BY FS_EmptySet
    <3> QED BY <1>6, <3>1, <3>2, ServerAssumption
  <2> QED BY <2>1, <2>2
<1>9. Room' /\ OnePending'
    BY <1>2, <1>8 DEF Room, OnePending
<1> QED BY <1>3, <1>5, <1>7, <1>9 DEF OnlineInv

\* OnOkUser.
LEMMA RespondOnline ==
  ASSUME OnlineInv, Respond
  PROVE  OnlineInv'
<1>1. PICK r \in rsp : online' = IF alive THEN online \cup {r.user} ELSE online
    BY DEF Respond
<1>2. rsp = {r} /\ rsp' = {} /\ UNCHANGED <<alive, m_user2Ctx>>
    BY DEF OnlineInv, OnePending, Respond
<1> DEFINE u == r.user
<1>3. /\ u \notin online /\ Cardinality(Instances(u)) < MaxIids
      /\ alive => u \in DOMAIN m_user2Ctx
    BY DEF OnlineInv, Room
<1>4. CASE ~alive
    BY <1>1, <1>2, <1>4 DEF OnlineInv, OnlineAgrees, InstancesBounded, Instances, OnePending, Room
<1>5. CASE alive
  <2>1. online' = online \cup {u} /\ IsFiniteSet(online)
      BY <1>1, <1>5 DEF OnlineInv
  <2>2. IsFiniteSet(online')
      BY <2>1, FS_AddElement
  <2>3. OnlineAgrees'
      BY <1>2, <1>3, <1>5, <2>1 DEF OnlineInv, OnlineAgrees
  <2>4. InstancesBounded'
    <3> SUFFICES ASSUME NEW v \in online' PROVE Cardinality(Instances(v)') <= MaxIids
        BY DEF InstancesBounded
    <3>1. CASE Uid(v) = Uid(u)
      <4>1. Instances(v)' = Instances(u) \cup {u} /\ u \notin Instances(u)
          BY <1>3, <2>1, <3>1 DEF Instances
      <4>2. IsFiniteSet(Instances(u)) /\ Cardinality(Instances(u)) \in Nat
          BY <2>1, FewerInstances DEF Instances
      <4>3. Cardinality(Instances(v)') = Cardinality(Instances(u)) + 1
          BY <4>1, <4>2, FS_AddElement
      <4> QED BY <1>3, <4>2, <4>3, ServerAssumption
    <3>2. CASE Uid(v) # Uid(u)
      <4>1. Instances(v)' = Instances(v) /\ v \in online
          BY <2>1, <3>2 DEF Instances
      <4> QED BY <4>1 DEF OnlineInv, InstancesBounded
    <3> QED BY <3>1, <3>2
  <2> QED BY <1>2, <2>2, <2>3, <2>4 DEF OnlineInv, OnePending, Room
<1> QED BY <1>4, <1>5

\* Every step of the server keeps the record of who is online exact.
LEMMA ServerOnline ==
  ASSUME IndexInv, OnlineInv, ServerNext
  PROVE  OnlineInv'
<1>1. ASSUME UNCHANGED <<alive, online, rsp, m_user2Ctx>> PROVE OnlineInv'
    BY <1>1 DEF OnlineInv, OnlineAgrees, InstancesBounded, Instances, OnePending, Room
<1>2. ASSUME NEW u, KickoutUser(u) \/ SendMsg(u) PROVE OnlineInv'
    BY <1>1, <1>2 DEF KickoutUser, SendMsg, serverVars
<1>3. ASSUME NEW s, OnRecvSession(s) \/ OnCloseSession(s) PROVE OnlineInv'
    BY <1>1, <1>3 DEF OnRecvSession, OnCloseSession
<1>4. CASE RejectSession \/ LoginRefused \/ DrainCommand \/ FiniSessions
    BY <1>1, <1>4 DEF RejectSession, LoginRefused, DrainCommand, FiniSessions, Nothing
<1>5. \A u : (u \in DOMAIN m_user2Ctx => u \in Gone(u))
             /\ DOMAIN UserWithout(u) = DOMAIN m_user2Ctx \ Gone(u)
    BY DEF Gone, IsBase, IsSub, Known, UserWithout, Without
<1>6. CASE AddBaseUser
  <2> DEFINE u == Head(task).user
             r == [conn |-> Head(task).conn, msg |-> Response(u), user |-> u]
  <2>1. /\ rsp = {} /\ alive' = alive /\ alive /\ rsp' = {r} /\ OnCheckUser(u)
        /\ online' = online \ Gone(u) /\ DOMAIN m_user2Ctx' = DOMAIN UserWithout(u) \cup {u}
      BY <1>6 DEF AddBaseUser, Command
  <2>2. r.user = u
      OBVIOUS
  <2> HIDE DEF r, u
  <2> QED BY <1>5, <2>1, <2>2, UserComes
<1>7. CASE Respond
    BY <1>7, RespondOnline
<1>8. CASE AddSubUser
  <2> DEFINE c2s == Head(task).c2s
             u == Head(task).msg.user
             r == [conn |-> m_user2Ctx[c2s], msg |-> LoginOk(Head(task).msg.index, u), user |-> u]
             ok == u # c2s /\ Known(c2s) /\ Ctx(c2s).isC2s /\ Ctx(c2s).base = c2s
  <2>1. rsp = {} /\ alive' = alive /\ alive /\ (u = c2s \/ OnCheckUser(u))
      BY <1>8 DEF AddSubUser, Command
  <2>2. CASE ~ok
      BY <1>1, <1>8, <2>1, <2>2 DEF AddSubUser, Nothing
  <2>3. CASE ok
    <3>1. /\ rsp' = {r} /\ OnCheckUser(u) /\ online' = online \ Gone(u)
          /\ DOMAIN m_user2Ctx' = DOMAIN UserWithout(u) \cup {u}
        BY <1>8, <2>1, <2>3 DEF AddSubUser
    <3>2. r.user = u
        OBVIOUS
    <3> HIDE DEF r, u
    <3> QED BY <1>5, <2>1, <3>1, <3>2, UserComes
  <2> QED BY <2>2, <2>3
<1>9. CASE ClientLogout
  <2> DEFINE u == Head(task).msg.user
             c2s == Head(task).c2s
             ok == u # c2s /\ Known(u) /\ Ctx(u).isC2s /\ Ctx(u).base = c2s
  <2>1. rsp = {} /\ rsp' = {} /\ alive' = alive /\ alive
      BY <1>9 DEF ClientLogout, Command, Nothing
  <2>2. CASE ~ok
      BY <1>1, <1>9, <2>1, <2>2 DEF ClientLogout, Nothing
  <2>3. CASE ok
    <3>1. online' = online \ {u} /\ DOMAIN m_user2Ctx' = DOMAIN m_user2Ctx \ {u}
        BY <1>9, <2>3 DEF ClientLogout, Without
    <3> QED BY <2>1, <3>1, UsersGo
  <2> QED BY <2>2, <2>3
<1>10. CASE AsyncOnCloseSession
  <2> DEFINE s == Head(task).conn
             G == m_session2Ctx[s].subs \cup {m_session2Ctx[s].base}
  <2>1. rsp = {} /\ rsp' = {} /\ alive' = alive /\ alive
      BY <1>10 DEF AsyncOnCloseSession, Command, Nothing
  <2>2. CASE s \notin DOMAIN m_session2Ctx
      BY <1>1, <1>10, <2>1, <2>2 DEF AsyncOnCloseSession, Nothing
  <2>3. CASE s \in DOMAIN m_session2Ctx
    <3>1. online' = online \ G /\ DOMAIN m_user2Ctx' = DOMAIN m_user2Ctx \ G
        BY <1>10, <2>3 DEF AsyncOnCloseSession, Without
    <3> HIDE DEF G
    <3> QED BY <2>1, <3>1, UsersGo
  <2> QED BY <2>2, <2>3
<1>11. CASE AsyncKickoutUser
  <2> DEFINE u == Head(task).user
  <2>1. /\ rsp = {} /\ rsp' = {} /\ alive' = alive /\ alive
        /\ online' = online \ Gone(u) /\ DOMAIN m_user2Ctx' = DOMAIN m_user2Ctx \ Gone(u)
      BY <1>5, <1>11 DEF AsyncKickoutUser, Command
  <2> QED BY <2>1, UsersGo
<1>12. CASE Fini
    BY <1>12 DEF Fini, OnlineInv, OnlineAgrees, InstancesBounded, Instances, OnePending, Room
<1> QED
    BY <1>2, <1>3, <1>4, <1>6, <1>7, <1>8, <1>9, <1>10, <1>11, <1>12 DEF ServerNext

\* OnlineInv holds in every state.
LEMMA OnlineInvariance == Spec => []OnlineInv
<1>1. Init => OnlineInv
  <2> SUFFICES ASSUME Init PROVE OnlineInv
      OBVIOUS
  <2>1. online = {} /\ rsp = {} /\ DOMAIN m_user2Ctx = {}
      BY DEF Init, ServerInit
  <2> QED
      BY <2>1, FS_EmptySet DEF OnlineInv, OnlineAgrees, InstancesBounded, OnePending, Room
<1>2. IndexInv /\ OnlineInv /\ [Next]_vars => OnlineInv'
  <2> SUFFICES ASSUME IndexInv, OnlineInv, [Next]_vars PROVE OnlineInv'
      OBVIOUS
  <2>1. CASE ServerNext
      BY <2>1, ServerOnline
  <2>2. CASE ~ServerNext
    <3>1. UNCHANGED <<alive, online, rsp, m_user2Ctx>>
        BY <2>2 DEF Next, vars, serverVars, Connect, ClientConnect, ClientRecv, ClientSend
    <3> QED BY <3>1 DEF OnlineInv, OnlineAgrees, InstancesBounded, Instances, OnePending, Room
  <2> QED BY <2>1, <2>2
<1> QED BY <1>1, <1>2, IndexInvariance, PTL DEF Spec

(***************************************************************************)
(* CMsgServer's record is the server's but for the one user whose OnOkUser *)
(* is still to be called, and no user id ever has more instances online    *)
(* than its row allows.                                                    *)
(***************************************************************************)
THEOREM OnlineCorrect == Spec => []OnlineMatches
<1>1. OnlineInv => OnlineMatches
    BY DEF OnlineInv, OnlineMatches
<1> QED BY <1>1, OnlineInvariance, PTL
-----------------------------------------------------------------------------
\* Erasing a user from both tables of a node keeps them inverse.
LEMMA EraseInverse ==
  ASSUME NEW F, NEW G, Inverses(F, G), NEW u,
         NEW K, K = IF u \in DOMAIN G THEN {G[u]} ELSE {}
  PROVE  /\ Inverses(Erase(F, K), Erase(G, {u}))
         /\ DOMAIN Erase(F, K) \subseteq DOMAIN F /\ u \notin DOMAIN Erase(G, {u})
BY DEF Inverses, Erase

\* Erasing everything keeps them inverse.
LEMMA EraseAll ==
  ASSUME NEW F, NEW G
  PROVE  /\ DOMAIN Erase(F, DOMAIN F) = {}
         /\ Inverses(Erase(F, DOMAIN F), Erase(G, DOMAIN G))
BY DEF Inverses, Erase

\* Adding an entry that is new on both sides keeps them inverse.
LEMMA PutInverse ==
  ASSUME NEW F, NEW G, Inverses(F, G), NEW k, k \notin DOMAIN F, NEW u, u \notin DOMAIN G
  PROVE  /\ Inverses(Put(F, k, u), Put(G, u, k))
         /\ DOMAIN Put(F, k, u) = DOMAIN F \cup {k}
<1> DEFINE F1 == Put(F, k, u)
           G1 == Put(G, u, k)
<1>1. DOMAIN F1 = DOMAIN F \cup {k} /\ F1[k] = u /\ \A j \in DOMAIN F : j # k /\ F1[j] = F[j]
    BY DEF Put
<1>2. DOMAIN G1 = DOMAIN G \cup {u} /\ G1[u] = k /\ \A v \in DOMAIN G : v # u /\ G1[v] = G[v]
    BY DEF Put
<1> HIDE DEF F1, G1
<1>3. Inverses(F1, G1)
    BY <1>1, <1>2 DEF Inverses
<1> QED BY <1>1, <1>3 DEF F1, G1

\* A step of node c changes the tables of c only.
LEMMA NodeStep ==
  ASSUME C2sInv, NEW c \in C2s, next' = next \/ next' = next + 1, TablesOfNodes',
         \A d \in C2s \ {c} : /\ m_timerId2Info'[d] = m_timerId2Info[d]
                              /\ m_session2User'[d] = m_session2User[d]
                              /\ m_user2Session'[d] = m_user2Session[d],
         NodeInv(m_timerId2Info'[c], m_session2User'[c], m_user2Session'[c], next')
  PROVE  C2sInv'
<1>1. next \in Nat /\ next' \in Nat
    BY DEF C2sInv
<1>2. ASSUME NEW d \in C2s
      PROVE  NodeInv(m_timerId2Info'[d], m_session2User'[d], m_user2Session'[d], next')
  <2>1. CASE d = c
      BY <2>1
  <2>2. CASE d # c
    <3>1. NodeInv(m_timerId2Info[d], m_session2User[d], m_user2Session[d], next)
        BY DEF C2sInv
    <3>2. NodeInv(m_timerId2Info[d], m_session2User[d], m_user2Session[d], next')
        BY <1>1, <3>1 DEF NodeInv
    <3> QED BY <2>2, <3>2
  <2> QED BY <2>1, <2>2
<1> QED BY <1>1, <1>2 DEF C2sInv, TablesOfNodes, NodeInv

\* The tables stay.
LEMMA NodesStay ==
  ASSUME C2sInv, next' = next \/ next' = next + 1,
         UNCHANGED <<m_timerId2Info, m_session2User, m_user2Session>>
  PROVE  C2sInv'
BY DEF C2sInv, TablesOfNodes, NodeInv

\* Node c forgets user u, if it has a session.
LEMMA NodeForgets ==
  ASSUME C2sInv, NEW c \in C2s, NEW u,
         NEW K, K = IF u \in DOMAIN m_user2Session[c] THEN {m_user2Session[c][u]} ELSE {},
         next' = next, m_timerId2Info' = m_timerId2Info,
         m_session2User' = [m_session2User EXCEPT ![c] = Erase(@, K)],
         m_user2Session' = [m_user2Session EXCEPT ![c] = Erase(@, {u})]
  PROVE  C2sInv'
<1> DEFINE F == m_session2User[c]
           G == m_user2Session[c]
<1>1. NodeInv(m_timerId2Info[c], F, G, next) /\ TablesOfNodes
    BY DEF C2sInv
<1>2. Inverses(Erase(F, K), Erase(G, {u})) /\ DOMAIN Erase(F, K) \subseteq DOMAIN F
  <2>1. Inverses(F, G) /\ K = IF u \in DOMAIN G THEN {G[u]} ELSE {}
      BY <1>1 DEF NodeInv
  <2> HIDE DEF F, G
  <2> QED BY <2>1, EraseInverse
<1>3. /\ m_session2User'[c] = Erase(F, K) /\ m_user2Session'[c] = Erase(G, {u})
      /\ TablesOfNodes'
      /\ \A d \in C2s \ {c} : /\ m_session2User'[d] = m_session2User[d]
                              /\ m_user2Session'[d] = m_user2Session[d]
    BY <1>1 DEF TablesOfNodes
<1>4. NodeInv(m_timerId2Info'[c], m_session2User'[c], m_user2Session'[c], next')
    BY <1>1, <1>2, <1>3 DEF NodeInv
<1> QED BY <1>3, <1>4, NodeStep

\* Connections in K of node c do not wait any longer.
LEMMA NodeDrops ==
  ASSUME C2sInv, NEW c \in C2s, NEW K, next' = next,
         m_timerId2Info' = [m_timerId2Info EXCEPT ![c] = Erase(@, K)],
         UNCHANGED <<m_session2User, m_user2Session>>
  PROVE  C2sInv'
<1>1. NodeInv(m_timerId2Info[c], m_session2User[c], m_user2Session[c], next) /\ TablesOfNodes
    BY DEF C2sInv
<1>2. /\ m_timerId2Info'[c] = Erase(m_timerId2Info[c], K) /\ TablesOfNodes'
      /\ \A d \in C2s \ {c} : m_timerId2Info'[d] = m_timerId2Info[d]
    BY <1>1 DEF TablesOfNodes
<1>3. DOMAIN Erase(m_timerId2Info[c], K) \subseteq DOMAIN m_timerId2Info[c]
    BY DEF Erase
<1>4. NodeInv(m_timerId2Info'[c], m_session2User'[c], m_user2Session'[c], next')
    BY <1>1, <1>2, <1>3 DEF NodeInv
<1> QED BY <1>2, <1>4, NodeStep
-----------------------------------------------------------------------------
\* A successful login keeps the tables of the node inverse.
LEMMA LoginOkStep ==
  ASSUME C2sInv, NEW c \in C2s, NEW outcome, C2sLoginOk(c, outcome)
  PROVE  C2sInv'
<1> DEFINE k == Msg(c).index
           u == Msg(c).user
           T == m_timerId2Info[c]
           F == m_session2User[c]
           G == m_user2Session[c]
           known == k \in DOMAIN T
           old == IF known /\ outcome # "no session" /\ u \in DOMAIN G THEN {G[u]} ELSE {}
           ok == known /\ outcome = "ok"
           F1 == Erase(F, old)
           G1 == IF old = {} THEN G ELSE Erase(G, {u})
<1>1. NodeInv(T, F, G, next) /\ TablesOfNodes /\ next \in Nat
    BY DEF C2sInv
<1>2. /\ m_timerId2Info'[c] = Erase(T, {k})
      /\ m_session2User'[c] = IF ok THEN Put(F1, k, u) ELSE F1
      /\ m_user2Session'[c] = IF ok THEN Put(G1, u, k) ELSE G1
      /\ next' = next /\ TablesOfNodes'
      /\ \A d \in C2s \ {c} : /\ m_timerId2Info'[d] = m_timerId2Info[d]
                              /\ m_session2User'[d] = m_session2User[d]
                              /\ m_user2Session'[d] = m_user2Session[d]
    BY <1>1 DEF C2sLoginOk, TablesOfNodes
<1>3. DOMAIN Erase(T, {k}) = DOMAIN T \ {k}
    BY DEF Erase
<1>4. /\ Inverses(F1, G1) /\ DOMAIN F1 \subseteq DOMAIN F /\ (ok => u \notin DOMAIN G1)
  <2>1. CASE u \in DOMAIN G /\ old = {G[u]}
    <3>1. G1 = Erase(G, {u}) /\ Inverses(F, G) /\ old = IF u \in DOMAIN G THEN {G[u]} ELSE {}
        BY <1>1, <2>1 DEF NodeInv
    <3>2. Inverses(Erase(F, old), Erase(G, {u})) /\ DOMAIN Erase(F, old) \subseteq DOMAIN F
          /\ u \notin DOMAIN Erase(G, {u})
      <4> HIDE DEF F, G, old, u
      <4> QED BY <3>1, EraseInverse
    <3> QED BY <3>1, <3>2
  <2>2. CASE old = {} /\ (ok => u \notin DOMAIN G)
      BY <1>1, <2>2 DEF NodeInv, Erase, Inverses
  <2> QED BY <2>1, <2>2
<1>5. NodeInv(m_timerId2Info'[c], m_session2User'[c], m_user2Session'[c], next')
  <2> HIDE DEF F1, G1
  <2>1. CASE ~ok
      BY <1>1, <1>2, <1>3, <1>4, <2>1 DEF NodeInv
  <2>2. CASE ok
    <3>1. k \in DOMAIN T /\ k \notin DOMAIN F1
        BY <1>1, <1>4, <2>2 DEF NodeInv
    <3>2. /\ Inverses(Put(F1, k, u), Put(G1, u, k))
          /\ DOMAIN Put(F1, k, u) = DOMAIN F1 \cup {k}
      <4>1. u \notin DOMAIN G1
          BY <1>4, <2>2
      <4> HIDE DEF k, u
      <4> QED BY <1>4, <3>1, <4>1, PutInverse
    <3> QED BY <1>1, <1>2, <1>3, <1>4, <2>2, <3>1, <3>2 DEF NodeInv
  <2> QED BY <2>1, <2>2
<1> QED BY <1>2, <1>5, NodeStep

\* So does an accepted connection,
LEMMA AcceptStep ==
  ASSUME C2sInv, NEW c \in C2s, NEW u, C2sAcceptSession(c, u)
  PROVE  C2sInv'
<1> DEFINE T == m_timerId2Info[c]
<1>1. /\ next' = next + 1 /\ UNCHANGED <<m_session2User, m_user2Session>>
      /\ \/ m_timerId2Info' = m_timerId2Info
         \/ m_timerId2Info' = [m_timerId2Info EXCEPT ![c] = Put(@, next, u)]
    BY DEF C2sAcceptSession, Dial
<1>2. CASE m_timerId2Info' = m_timerId2Info
    BY <1>1, <1>2, NodesStay
<1>3. CASE m_timerId2Info' = [m_timerId2Info EXCEPT ![c] = Put(@, next, u)]
  <2>1. NodeInv(T, m_session2User[c], m_user2Session[c], next) /\ TablesOfNodes /\ next \in Nat
      BY DEF C2sInv
  <2>2. /\ m_timerId2Info'[c] = Put(T, next, u) /\ TablesOfNodes'
        /\ \A d \in C2s \ {c} : m_timerId2Info'[d] = m_timerId2Info[d]
      BY <1>1, <1>3, <2>1 DEF TablesOfNodes
  <2>3. DOMAIN Put(T, next, u) = DOMAIN T \cup {next}
      BY DEF Put
  <2>4. NodeInv(m_timerId2Info'[c], m_session2User'[c], m_user2Session'[c], next')
      BY <1>1, <2>1, <2>2, <2>3 DEF NodeInv
  <2> QED BY <1>1, <2>2, <2>4, NodeStep
<1> QED BY <1>1, <1>2, <1>3

\* a lost uplink,
LEMMA DropAllStep ==
  ASSUME C2sInv, NEW c \in C2s, DropAll(c)
  PROVE  C2sInv'
<1> DEFINE T == m_timerId2Info[c]
           F == m_session2User[c]
           G == m_user2Session[c]
<1>1. TablesOfNodes
    BY DEF C2sInv
<1>2. /\ m_timerId2Info'[c] = Erase(T, DOMAIN T) /\ m_session2User'[c] = Erase(F, DOMAIN F)
      /\ m_user2Session'[c] = Erase(G, DOMAIN G) /\ next' = next /\ TablesOfNodes'
      /\ \A d \in C2s \ {c} : /\ m_timerId2Info'[d] = m_timerId2Info[d]
                              /\ m_session2User'[d] = m_session2User[d]
                              /\ m_user2Session'[d] = m_user2Session[d]
    BY <1>1 DEF DropAll, TablesOfNodes
<1>3. /\ DOMAIN Erase(T, DOMAIN T) = {} /\ DOMAIN Erase(F, DOMAIN F) = {}
      /\ Inverses(Erase(F, DOMAIN F), Erase(G, DOMAIN G))
    BY EraseAll
<1>4. NodeInv(m_timerId2Info'[c], m_session2User'[c], m_user2Session'[c], next')
    BY <1>2, <1>3 DEF NodeInv
<1> QED BY <1>2, <1>4, NodeStep

\* and every other step of the node.
LEMMA C2sStep ==
  ASSUME C2sInv, NEW c \in C2s, C2sNext(c)
  PROVE  C2sInv'
<1>1. ASSUME NEW u, C2sAcceptSession(c, u) PROVE C2sInv'
    BY <1>1, AcceptStep
<1>2. ASSUME NEW u, C2sKickoutUser(c, u) PROVE C2sInv'
  <2>1. u \in DOMAIN m_user2Session[c] /\ Logoff(c, m_user2Session[c][u], u)
      BY <1>2 DEF C2sKickoutUser
  <2> QED BY <2>1, NodeForgets DEF Logoff
<1>3. ASSUME NEW k, C2sOnTimer(c, k) PROVE C2sInv'
    BY <1>3, NodeDrops DEF C2sOnTimer
<1>4. ASSUME NEW k, C2sOnCloseSession(c, k) PROVE C2sInv'
  <2> DEFINE u == m_session2User[c][k]
  <2>1. k \in DOMAIN m_session2User[c] /\ Logoff(c, k, u)
      BY <1>4 DEF C2sOnCloseSession
  <2>2. u \in DOMAIN m_user2Session[c] /\ m_user2Session[c][u] = k
      BY <2>1 DEF C2sInv, NodeInv, Inverses
  <2> HIDE DEF u
  <2> QED BY <2>1, <2>2, NodeForgets DEF Logoff
<1>5. ASSUME NEW k, C2sOnRecvSession(c, k) PROVE C2sInv'
    BY <1>5, NodesStay DEF C2sOnRecvSession, c2sVars
<1>6. ASSUME NEW o, C2sLoginOk(c, o) PROVE C2sInv'
    BY <1>6, LoginOkStep
<1>7. CASE C2sOnOkMsg(c) \/ C2sOnTransferMsg(c) \/ C2sReport(c)
    BY <1>7, NodesStay DEF C2sOnOkMsg, C2sOnTransferMsg, C2sReport, c2sVars
<1>8. CASE C2sLoginError(c)
    BY <1>8, NodeDrops DEF C2sLoginError
<1>9. CASE C2sKickout(c)
    BY <1>9, NodeForgets DEF C2sKickout
<1>10. CASE C2sOnCloseMsg(c) \/ C2sFini(c)
    BY <1>10, DropAllStep DEF C2sOnCloseMsg, C2sFini
<1> QED
    BY <1>1, <1>2, <1>3, <1>4, <1>5, <1>6, <1>7, <1>8, <1>9, <1>10 DEF C2sNext

\* The server makes no connections.
LEMMA ServerKeepsConns ==
  ASSUME ServerNext
  PROVE  next' = next
<1>1. ASSUME NEW u, KickoutUser(u) \/ SendMsg(u) PROVE next' = next
    BY <1>1 DEF KickoutUser, SendMsg
<1>2. ASSUME NEW s, OnRecvSession(s) \/ OnCloseSession(s) PROVE next' = next
    BY <1>2 DEF OnRecvSession, OnCloseSession, linkVars
<1>3. RejectSession \/ AddBaseUser \/ Respond \/ LoginRefused => next' = next
    BY DEF RejectSession, AddBaseUser, Respond, LoginRefused
<1>4. AddSubUser \/ ClientLogout \/ AsyncOnCloseSession => next' = next
    BY DEF AddSubUser, ClientLogout, AsyncOnCloseSession, Nothing, linkVars
<1>5. AsyncKickoutUser \/ DrainCommand \/ Fini \/ FiniSessions => next' = next
    BY DEF AsyncKickoutUser, DrainCommand, Fini, FiniSessions, Nothing, linkVars
<1> QED BY <1>1, <1>2, <1>3, <1>4, <1>5 DEF ServerNext

\* The tables of every node are inverse to each other in every state.
LEMMA C2sInvariance == Spec => []C2sInv
<1>1. Init => C2sInv
    BY DEF Init, LinkInit, C2sInit, C2sInv, TablesOfNodes, NodeInv, Inverses
<1>2. C2sInv /\ [Next]_vars => C2sInv'
  <2> SUFFICES ASSUME C2sInv, [Next]_vars PROVE C2sInv'
      OBVIOUS
  <2>1. CASE UNCHANGED vars
      BY <2>1, NodesStay DEF vars, linkVars, c2sVars
  <2>2. CASE ServerNext /\ UNCHANGED c2sVars
      BY <2>2, ServerKeepsConns, NodesStay DEF c2sVars
  <2>3. ASSUME NEW c \in C2s, C2sNext(c) PROVE C2sInv'
      BY <2>3, C2sStep
  <2>4. ASSUME NEW c \in C2s, Connect(c) PROVE C2sInv'
      BY <2>4, NodesStay DEF Connect, OnAcceptSession, Dial
  <2>5. ASSUME NEW u \in Users, ClientConnect(u) PROVE C2sInv'
      BY <2>5, NodesStay DEF ClientConnect, OnAcceptSession, Dial, c2sVars
  <2>6. ASSUME NEW k \in Conns, ClientRecv(k) \/ \E u \in Ids : ClientSend(k, u) PROVE C2sInv'
      BY <2>6, NodesStay DEF ClientRecv, ClientSend, c2sVars
  <2> QED BY <2>1, <2>2, <2>3, <2>4, <2>5, <2>6 DEF Next
<1> QED BY <1>1, <1>2, PTL DEF Spec

(***************************************************************************)
(* The session tables of every C2S are each other's inverse, and no        *)
(* connection is waiting and logged in at once, whichever answers of the   *)
(* server come late, twice or not at all.                                  *)
(***************************************************************************)
THEOREM C2sIndexCorrect == Spec => []C2sIndexAgrees
<1>1. C2sInv => C2sIndexAgrees
    BY DEF C2sInv, NodeInv, Inverses, C2sIndexAgrees
<1> QED BY <1>1, C2sInvariance, PTL
-----------------------------------------------------------------------------
(***************************************************************************)
(* SockInv: who owns the socket of a connection.                           *)
(***************************************************************************)

\* A posted accept adds a waiting connection, no other command does.
LEMMA WaitersAppend ==
  ASSUME TaskIsSeq, NEW e
  PROVE  Waiters(Append(task, e)) =
           Waiters(task) \cup (IF e.cmd = "accept" THEN {e.conn} ELSE {})
<1>1. PICK r : r = Append(task, e)
    OBVIOUS
<1>2. /\ Len(task) \in Nat /\ DOMAIN task = 1..Len(task)
      /\ DOMAIN r = 1..(Len(task) + 1)
      /\ \A i \in 1..Len(task) : r[i] = task[i]
      /\ r[Len(task) + 1] = e
    BY <1>1, AppendTask DEF TaskIsSeq
<1>3. PICK l \in Nat : l = Len(task)
    BY <1>2
<1>4. /\ DOMAIN r = DOMAIN task \cup {l + 1} /\ r[l + 1] = e
      /\ \A i \in DOMAIN task : r[i] = task[i]
    BY <1>2, <1>3
<1>5. Waiters(r) = Waiters(task) \cup (IF e.cmd = "accept" THEN {e.conn} ELSE {})
    BY <1>4 DEF Waiters
<1> QED BY <1>1, <1>5

\* An executed accept takes its own connection away, no other command does.
LEMMA WaitersTail ==
  ASSUME IndexInv, task # <<>>
  PROVE  /\ Head(task).cmd = "accept" =>
              /\ Head(task).conn \in Waiters(task)
              /\ Waiters(Tail(task)) = Waiters(task) \ {Head(task).conn}
         /\ Head(task).cmd # "accept" => Waiters(Tail(task)) = Waiters(task)
<1>1. PICK r : r = Tail(task)
    OBVIOUS
<1>2. /\ Len(task) \in Nat \ {0} /\ DOMAIN task = 1..Len(task) /\ Head(task) = task[1]
      /\ DOMAIN r = 1..(Len(task) - 1)
      /\ \A i \in 1..(Len(task) - 1) : r[i] = task[i + 1]
    BY <1>1, TailTask DEF IndexInv, TaskIsSeq
<1>3. /\ 1 \in DOMAIN task /\ \A i \in DOMAIN r : i + 1 \in DOMAIN task /\ i + 1 # 1
      /\ \A j \in DOMAIN task : j # 1 => \E i \in DOMAIN r : j = i + 1
  <2>1. \A j \in DOMAIN task : j # 1 => j - 1 \in DOMAIN r /\ j = (j - 1) + 1
      BY <1>2
  <2> QED BY <1>2, <2>1
<1>4. Waiters(r) = {task[i].conn : i \in {j \in DOMAIN task \ {1} : task[j].cmd = "accept"}}
    BY <1>2, <1>3 DEF Waiters
<1>5. \A j \in DOMAIN task \ {1} :
        Head(task).cmd = "accept" /\ task[j].cmd = "accept" => task[j].conn # Head(task).conn
    BY <1>2, <1>3 DEF IndexInv, Fresh, Waiting
<1> QED BY <1>1, <1>2, <1>3, <1>4, <1>5 DEF Waiters

\* A socket of a node is nobody else's.
LEMMA Apart ==
  ASSUME SockInv, NEW c \in C2s, NEW k \in AtNode(c)
  PROVE  k \notin AtServer /\ \A d \in C2s \ {c} : k \notin AtNode(d)
BY NamesAssumption DEF SockInv

\* Closing the sockets of forgotten connections keeps the sockets owned.
LEMMA SocketsClose ==
  ASSUME SockInv, NEW S, CloseSock(S), UNCHANGED <<next, visit>>, calls' \in Nat,
         AtServer' = AtServer \ S, \A c \in C2s : AtNode(c)' = AtNode(c) \ S, ServerParts'
  PROVE  SockInv'
<1>1. \A k \in Conns : sock'[k] = IF k \in S THEN "closed" ELSE sock[k]
    BY DEF CloseSock
<1>2. DOMAIN sock' = Conns
    BY DEF CloseSock
<1>3. \A k \in Conns :
        sock'[k] = "open" <=> k \in AtServer' \/ \E c \in C2s : k \in AtNode(c)'
    BY <1>1 DEF SockInv
<1>4. /\ \A k \in AtServer' : k \in Conns /\ k < next' /\ visit'[k].at = Root
      /\ \A c \in C2s : \A k \in AtNode(c)' : k \in Conns /\ k < next' /\ visit'[k].at = c
    BY DEF SockInv
<1> QED BY <1>2, <1>3, <1>4 DEF SockInv

\* So does a step that neither forgets a connection nor closes a socket.
LEMMA SocketsStay ==
  ASSUME SockInv, UNCHANGED <<next, visit, sock>>, calls' \in Nat,
         AtServer' = AtServer, \A c \in C2s : AtNode(c)' = AtNode(c), ServerParts'
  PROVE  SockInv'
BY DEF SockInv

\* The same for the sockets of the server,
LEMMA ServerCloses ==
  ASSUME SockInv, UNCHANGED c2sVars, NEW S \in SUBSET AtServer, CloseSock(S),
         UNCHANGED <<next, visit, calls>>, AtServer' = AtServer \ S, ServerParts'
  PROVE  SockInv'
<1>1. \A c \in C2s : AtNode(c)' = AtNode(c) \ S
  <2>1. \A c \in C2s : AtNode(c)' = AtNode(c)
      BY DEF c2sVars, AtNode
  <2>2. \A c \in C2s : \A k \in AtNode(c) : k \notin S
      BY Apart
  <2> QED BY <2>1, <2>2
<1>2. calls' \in Nat
    BY DEF SockInv
<1> QED BY <1>1, <1>2, SocketsClose

\* and for those of a node.
LEMMA NodeCloses ==
  ASSUME SockInv, UNCHANGED serverVars, NEW c \in C2s, NEW S \in SUBSET AtNode(c),
         CloseSock(S), UNCHANGED <<next, visit>>, calls' \in Nat,
         AtNode(c)' = AtNode(c) \ S, \A d \in C2s \ {c} : AtNode(d)' = AtNode(d)
  PROVE  SockInv'
<1>1. AtServer' = AtServer /\ ServerParts'
    BY DEF serverVars, AtServer, ServerParts, SockInv
<1>2. \A k \in S : k \notin AtServer /\ \A d \in C2s \ {c} : k \notin AtNode(d)
    BY Apart
<1>3. \A d \in C2s : AtNode(d)' = AtNode(d) \ S
    BY <1>2
<1>4. AtServer' = AtServer \ S
    BY <1>1, <1>2
<1> QED BY <1>1, <1>3, <1>4, SocketsClose

\* A connection to node n, accepted or closed at once.
LEMMA Dialled ==
  ASSUME SockInv, NEW u, NEW n \in C2s \cup {Root}, NEW accepted \in BOOLEAN,
         Dial(u, n, accepted), calls' = calls, ServerParts',
         AtServer' = AtServer \cup (IF accepted /\ n = Root THEN {next} ELSE {}),
         \A c \in C2s : AtNode(c)' = AtNode(c) \cup (IF accepted /\ n = c THEN {next} ELSE {})
  PROVE  SockInv'
<1>1. next \in Nat \ {0} /\ calls \in Nat /\ Conns \subseteq Nat
    BY BoundsAssumption DEF SockInv, Conns
<1>2. next \in Conns /\ next' = next + 1 /\ next' \in Nat
    BY <1>1, BoundsAssumption DEF Conns, Dial
<1>3. /\ sock'[next] = (IF accepted THEN "open" ELSE "closed") /\ DOMAIN sock' = Conns
      /\ \A k \in Conns : k # next => sock'[k] = sock[k]
    BY <1>2 DEF Dial, SockInv
<1>4. /\ accepted => visit'[next].at = n
      /\ \A k \in Conns : k # next => visit'[k] = visit[k]
      /\ DOMAIN visit' = Conns
    BY <1>2 DEF Dial, SockInv
<1>5. next \notin AtServer /\ \A c \in C2s : next \notin AtNode(c)
    BY <1>1 DEF SockInv
<1>6. \A k \in Conns : k < next => k < next' /\ visit'[k] = visit[k]
  <2>1. \A k \in Conns : k < next => k # next /\ k < next'
      BY <1>1, <1>2
  <2> QED BY <1>4, <2>1
<1>7. accepted => next < next' /\ visit'[next].at = n
    BY <1>1, <1>2, <1>4
<1>8. \A k \in AtServer' : k \in Conns /\ k < next' /\ visit'[k].at = Root
    BY <1>2, <1>6, <1>7 DEF SockInv
<1>9. ASSUME NEW c \in C2s, NEW k \in AtNode(c)'
      PROVE  k \in Conns /\ k < next' /\ visit'[k].at = c
  <2>1. k \in AtNode(c) \/ (accepted /\ n = c /\ k = next)
      BY <1>9
  <2>2. k \in AtNode(c) => k \in Conns /\ k < next /\ visit[k].at = c
      BY DEF SockInv
  <2> QED BY <1>2, <1>6, <1>7, <2>1, <2>2
<1>10. \A k \in Conns :
        sock'[k] = "open" <=> k \in AtServer' \/ \E c \in C2s : k \in AtNode(c)'
  <2> SUFFICES ASSUME NEW k \in Conns
               PROVE  sock'[k] = "open" <=> k \in AtServer' \/ \E c \in C2s : k \in AtNode(c)'
      OBVIOUS
  <2>1. CASE k = next
      BY <1>3, <1>5, <2>1, NamesAssumption
  <2>2. CASE k # next
      BY <1>3, <2>2 DEF SockInv
  <2> QED BY <2>1, <2>2
<1> QED BY <1>1, <1>2, <1>3, <1>4, <1>8, <1>9, <1>10 DEF SockInv

-----------------------------------------------------------------------------
\* A step of the server that keeps its contexts and its waiting connections.
LEMMA ServerStays ==
  ASSUME SockInv, UNCHANGED c2sVars, UNCHANGED <<next, visit, sock, alive, fini>>,
         calls' \in Nat, Waiters(task') = Waiters(task),
         DOMAIN m_session2Ctx' = DOMAIN m_session2Ctx
  PROVE  SockInv'
<1>1. AtServer' = AtServer /\ ServerParts'
    BY DEF AtServer, ServerParts, SockInv
<1>2. \A c \in C2s : AtNode(c)' = AtNode(c)
    BY DEF c2sVars, AtNode
<1> QED BY <1>1, <1>2, SocketsStay

\* The next command closes S; if it is an accept, it takes its connection over
\* or closes that too.
LEMMA CommandCloses ==
  ASSUME IndexInv, SockInv, UNCHANGED c2sVars, UNCHANGED <<next, visit, calls, alive, fini>>,
         task # <<>>, task' = Tail(task),
         NEW N, N = (IF Head(task).cmd = "accept" THEN {Head(task).conn} ELSE {}),
         NEW S \in SUBSET (DOMAIN m_session2Ctx \cup N), CloseSock(S),
         DOMAIN m_session2Ctx' = (DOMAIN m_session2Ctx \cup N) \ S,
         ~alive => DOMAIN m_session2Ctx' = {}
  PROVE  SockInv'
<1>1. N \subseteq Waiters(task) /\ Waiters(task') = Waiters(task) \ N
  <2>1. CASE Head(task).cmd = "accept"
      BY <2>1, WaitersTail
  <2>2. CASE Head(task).cmd # "accept"
      BY <2>2, WaitersTail
  <2> QED BY <2>1, <2>2
<1>2. Waiters(task) \cap DOMAIN m_session2Ctx = {}
    BY DEF IndexInv, Fresh, Waiting, Waiters
<1>3. fini \cap S = {}
    BY <1>1 DEF SockInv, ServerParts
<1>4. S \subseteq AtServer
    BY <1>1 DEF AtServer
<1>5. AtServer' = AtServer \ S
    BY <1>1, <1>2, <1>3 DEF AtServer
<1>6. ServerParts'
    BY <1>1 DEF SockInv, ServerParts
<1> QED BY <1>4, <1>5, <1>6, ServerCloses

\* The calls and callbacks of the server keep every socket owned once.
LEMMA ServerCallSockets ==
  ASSUME IndexInv, SockInv, UNCHANGED c2sVars,
         \/ \E u : KickoutUser(u) \/ SendMsg(u)
         \/ \E s : OnRecvSession(s) \/ OnCloseSession(s)
         \/ Respond
  PROVE  SockInv'
<1>1. calls \in Nat /\ TaskIsSeq
    BY DEF SockInv, IndexInv
<1>2. ASSUME NEW u, KickoutUser(u) PROVE SockInv'
  <2> DEFINE e == [cmd |-> "kickout", user |-> u]
  <2>1. /\ e.cmd # "accept" /\ task' = Append(task, e) /\ calls' \in Nat
        /\ UNCHANGED <<next, visit, sock, alive, fini, m_session2Ctx>>
      BY <1>1, <1>2 DEF KickoutUser, Call
  <2> HIDE DEF e
  <2>2. Waiters(task') = Waiters(task)
      BY <1>1, <2>1, WaitersAppend
  <2> QED BY <2>1, <2>2, ServerStays
<1>3. ASSUME NEW u, SendMsg(u) PROVE SockInv'
  <2>1. calls' \in Nat /\ UNCHANGED <<next, visit, sock, alive, fini, task, m_session2Ctx>>
      BY <1>1, <1>3 DEF SendMsg, Call, serverVars
  <2> QED BY <2>1, ServerStays
<1>4. ASSUME NEW s, OnRecvSession(s) PROVE SockInv'
  <2> DEFINE e == [cmd |-> "recv", conn |-> s, msg |-> Head(up[s]), c2s |-> Head(up[s]).src]
  <2>1. /\ e.cmd # "accept" /\ (task' = Append(task, e) \/ task' = task) /\ calls' \in Nat
        /\ UNCHANGED <<next, visit, sock, alive, fini, m_session2Ctx>>
      BY <1>1, <1>4 DEF OnRecvSession
  <2> HIDE DEF e
  <2>2. Waiters(task') = Waiters(task)
      BY <1>1, <2>1, WaitersAppend
  <2> QED BY <2>1, <2>2, ServerStays
<1>5. ASSUME NEW s, OnCloseSession(s) PROVE SockInv'
  <2> DEFINE e == [cmd |-> "close", conn |-> s]
  <2>1. /\ e.cmd # "accept" /\ task' = Append(task, e) /\ calls' \in Nat
        /\ UNCHANGED <<next, visit, sock, alive, fini, m_session2Ctx>>
      BY <1>1, <1>5 DEF OnCloseSession, linkVars
  <2> HIDE DEF e
  <2>2. Waiters(task') = Waiters(task)
      BY <1>1, <2>1, WaitersAppend
  <2> QED BY <2>1, <2>2, ServerStays
<1>6. CASE Respond
  <2>1. calls' \in Nat /\ UNCHANGED <<next, visit, sock, alive, fini, task, m_session2Ctx>>
      BY <1>1, <1>6 DEF Respond
  <2> QED BY <2>1, ServerStays
<1> QED BY <1>2, <1>3, <1>4, <1>5, <1>6

\* A command that deletes no session.
LEMMA CommandStays ==
  ASSUME IndexInv, SockInv, UNCHANGED c2sVars,
         UNCHANGED <<next, visit, calls, sock, alive, fini>>,
         task # <<>>, Head(task).cmd # "accept", task' = Tail(task),
         DOMAIN m_session2Ctx' = DOMAIN m_session2Ctx
  PROVE  SockInv'
<1>1. Waiters(task') = Waiters(task)
    BY WaitersTail
<1>2. calls' \in Nat
    BY DEF SockInv
<1> QED BY <1>1, <1>2, ServerStays

\* The session of a base user that goes is one of the server's.
LEMMA DeadIsKnown ==
  ASSUME IndexInv, NEW u
  PROVE  /\ Dead(u) \subseteq DOMAIN m_session2Ctx
         /\ DOMAIN CtxWithout(u) = DOMAIN m_session2Ctx \ Dead(u)
BY DEF IndexInv, Agree, Dead, IsBase, Known, CtxWithout

\* So do its commands.
LEMMA CommandSockets ==
  ASSUME IndexInv, SockInv, UNCHANGED c2sVars,
         \/ RejectSession \/ AddBaseUser \/ LoginRefused \/ AddSubUser \/ ClientLogout
         \/ AsyncOnCloseSession \/ AsyncKickoutUser \/ DrainCommand
  PROVE  SockInv'
<1> DEFINE N == IF Head(task).cmd = "accept" THEN {Head(task).conn} ELSE {}
<1>0. \A k : task # <<>> /\ Head(task).cmd = "accept" /\ k = Head(task).conn
             => k \notin DOMAIN m_session2Ctx
  <2>1. task # <<>> => 1 \in DOMAIN task /\ Head(task) = task[1]
      BY TailTask DEF IndexInv, TaskIsSeq
  <2> QED BY <2>1 DEF IndexInv, Fresh, Waiting
<1>a. ~alive => DOMAIN m_session2Ctx = {}
    BY DEF SockInv, ServerParts
<1>1. CASE RejectSession
  <2>1. /\ UNCHANGED <<next, visit, calls, alive, fini, m_session2Ctx>>
        /\ task # <<>> /\ task' = Tail(task) /\ Head(task).cmd = "accept"
        /\ CloseSock({Head(task).conn})
      BY <1>1 DEF RejectSession, Command
  <2>2. /\ N = {Head(task).conn} /\ N \subseteq DOMAIN m_session2Ctx \cup N
        /\ DOMAIN m_session2Ctx' = (DOMAIN m_session2Ctx \cup N) \ N
      BY <1>0, <2>1
  <2>3. CloseSock(N)
      BY <2>1, <2>2
  <2>4. PICK M : M = N
      OBVIOUS
  <2> QED BY <1>a, <2>1, <2>2, <2>3, <2>4, CommandCloses
<1>2. CASE AddBaseUser
  <2> DEFINE u == Head(task).user
  <2>1. /\ UNCHANGED <<next, visit, calls, alive, fini>> /\ alive
        /\ task # <<>> /\ task' = Tail(task) /\ Head(task).cmd = "accept"
        /\ DOMAIN m_session2Ctx' = DOMAIN CtxWithout(u) \cup {Head(task).conn}
        /\ CloseSock(Dead(u))
      BY <1>2 DEF AddBaseUser, Command, DeleteSessions
  <2>2. /\ N = {Head(task).conn} /\ Dead(u) \subseteq DOMAIN m_session2Ctx \cup N
        /\ DOMAIN m_session2Ctx' = (DOMAIN m_session2Ctx \cup N) \ Dead(u)
      BY <1>0, <2>1, DeadIsKnown
  <2> HIDE DEF u
  <2>3. PICK D : D = Dead(u)
      OBVIOUS
  <2> QED BY <2>1, <2>2, <2>3, CommandCloses
<1>3. CASE LoginRefused \/ DrainCommand
  <2>1. /\ UNCHANGED <<next, visit, calls, sock, alive, fini, m_session2Ctx>>
        /\ task # <<>> /\ task' = Tail(task) /\ Head(task).cmd # "accept"
      BY <1>3 DEF LoginRefused, DrainCommand, Command, Nothing, linkVars
  <2> QED BY <2>1, CommandStays
<1>4. CASE AddSubUser
  <2> DEFINE c2s == Head(task).c2s
             u == Head(task).msg.user
             s == m_user2Ctx[c2s]
             ok == u # c2s /\ Known(c2s) /\ Ctx(c2s).isC2s /\ Ctx(c2s).base = c2s
  <2>1. /\ task # <<>> /\ task' = Tail(task) /\ Head(task).cmd # "accept" /\ alive
        /\ UNCHANGED <<alive, fini>>
      BY <1>4 DEF AddSubUser, Command
  <2>2. CASE ~ok
    <3>1. UNCHANGED <<next, visit, calls, sock, m_session2Ctx>>
        BY <1>4, <2>2 DEF AddSubUser, Nothing, linkVars
    <3> QED BY <2>1, <3>1, CommandStays
  <2>3. CASE ok
    <3>1. /\ UNCHANGED <<next, visit, calls>> /\ CloseSock(Dead(u))
          /\ DOMAIN m_session2Ctx' = DOMAIN CtxWithout(u)
        BY <1>4, <2>3 DEF AddSubUser, DeleteSessions
    <3>2. /\ N = {} /\ Dead(u) \subseteq DOMAIN m_session2Ctx \cup N
          /\ DOMAIN m_session2Ctx' = (DOMAIN m_session2Ctx \cup N) \ Dead(u)
        BY <2>1, <3>1, DeadIsKnown
    <3> HIDE DEF u
    <3>3. PICK D : D = Dead(u)
        OBVIOUS
    <3> QED BY <2>1, <3>1, <3>2, <3>3, CommandCloses
  <2> QED BY <2>2, <2>3
<1>5. CASE ClientLogout
  <2>1. /\ task # <<>> /\ task' = Tail(task) /\ Head(task).cmd # "accept"
        /\ UNCHANGED <<next, visit, calls, sock, alive, fini>>
        /\ DOMAIN m_session2Ctx' = DOMAIN m_session2Ctx
      BY <1>5 DEF ClientLogout, Command, Nothing, linkVars
  <2> QED BY <2>1, CommandStays
<1>6. CASE AsyncOnCloseSession
  <2> DEFINE s == Head(task).conn
  <2>1. /\ task # <<>> /\ task' = Tail(task) /\ Head(task).cmd # "accept" /\ alive
        /\ UNCHANGED <<alive, fini>>
      BY <1>6 DEF AsyncOnCloseSession, Command
  <2>2. CASE s \notin DOMAIN m_session2Ctx
    <3>1. UNCHANGED <<next, visit, calls, sock, m_session2Ctx>>
        BY <1>6, <2>2 DEF AsyncOnCloseSession, Nothing, linkVars
    <3> QED BY <2>1, <3>1, CommandStays
  <2>3. CASE s \in DOMAIN m_session2Ctx
    <3>1. /\ UNCHANGED <<next, visit, calls>> /\ CloseSock({s})
          /\ DOMAIN m_session2Ctx' = DOMAIN m_session2Ctx \ {s}
        BY <1>6, <2>3 DEF AsyncOnCloseSession, DeleteSessions, Without
    <3>2. /\ N = {} /\ {s} \subseteq DOMAIN m_session2Ctx \cup N
          /\ DOMAIN m_session2Ctx' = (DOMAIN m_session2Ctx \cup N) \ {s}
        BY <2>1, <2>3, <3>1
    <3> HIDE DEF s
    <3>3. PICK D : D = {s}
        OBVIOUS
    <3> QED BY <2>1, <3>1, <3>2, <3>3, CommandCloses
  <2> QED BY <2>2, <2>3
<1>7. CASE AsyncKickoutUser
  <2> DEFINE u == Head(task).user
  <2>1. /\ UNCHANGED <<next, visit, calls, alive, fini>> /\ alive
        /\ task # <<>> /\ task' = Tail(task) /\ Head(task).cmd # "accept"
        /\ DOMAIN m_session2Ctx' = DOMAIN CtxWithout(u) /\ CloseSock(Dead(u))
      BY <1>7 DEF AsyncKickoutUser, Command, DeleteSessions
  <2>2. /\ N = {} /\ Dead(u) \subseteq DOMAIN m_session2Ctx \cup N
        /\ DOMAIN m_session2Ctx' = (DOMAIN m_session2Ctx \cup N) \ Dead(u)
      BY <2>1, DeadIsKnown
  <2> HIDE DEF u
  <2>3. PICK D : D = Dead(u)
      OBVIOUS
  <2> QED BY <2>1, <2>2, <2>3, CommandCloses
<1> QED BY <1>1, <1>2, <1>3, <1>4, <1>5, <1>6, <1>7

\* Fini moves the contexts to where FiniSessions finds them.
LEMMA FiniSockets ==
  ASSUME IndexInv, SockInv, UNCHANGED c2sVars, Fini \/ FiniSessions
  PROVE  SockInv'
<1>1. Waiters(task) \cap DOMAIN m_session2Ctx = {}
    BY DEF IndexInv, Fresh, Waiting, Waiters
<1>2. CASE Fini
  <2>1. /\ UNCHANGED <<next, visit, sock, task>> /\ alive /\ ~alive' /\ calls' = calls + 1
        /\ fini' = DOMAIN m_session2Ctx /\ DOMAIN m_session2Ctx' = {}
      BY <1>2 DEF Fini, Call, Without
  <2>2. AtServer' = AtServer /\ ServerParts'
      BY <1>1, <2>1 DEF AtServer, ServerParts, SockInv
  <2>3. \A c \in C2s : AtNode(c)' = AtNode(c)
      BY DEF c2sVars, AtNode
  <2>4. calls' \in Nat
      BY <2>1 DEF SockInv
  <2> QED BY <2>1, <2>2, <2>3, <2>4, SocketsStay
<1>3. CASE FiniSessions
  <2>1. /\ UNCHANGED <<next, visit, calls, task, alive, m_session2Ctx>>
        /\ fini # {} /\ fini' = {} /\ CloseSock(fini)
      BY <1>3 DEF FiniSessions, DeleteSessions
  <2>2. AtServer' = AtServer \ fini /\ ServerParts' /\ fini \subseteq AtServer
      BY <2>1 DEF AtServer, ServerParts, SockInv
  <2> QED BY <2>1, <2>2, ServerCloses
<1> QED BY <1>2, <1>3

\* So does every step of the server.
LEMMA ServerSockets ==
  ASSUME IndexInv, SockInv, UNCHANGED c2sVars, ServerNext
  PROVE  SockInv'
BY ServerCallSockets, CommandSockets, FiniSockets DEF ServerNext

-----------------------------------------------------------------------------
\* A step of the nodes that keeps their tables.
LEMMA NodesStaySockets ==
  ASSUME SockInv, UNCHANGED serverVars, UNCHANGED <<next, visit, sock>>, calls' \in Nat,
         UNCHANGED <<m_timerId2Info, m_session2User>>
  PROVE  SockInv'
<1>1. AtServer' = AtServer /\ ServerParts'
    BY DEF serverVars, AtServer, ServerParts, SockInv
<1>2. \A c \in C2s : AtNode(c)' = AtNode(c)
    BY DEF AtNode
<1> QED BY <1>1, <1>2, SocketsStay

\* Connections S of node c, waiting or logged in, are closed.
LEMMA TablesClose ==
  ASSUME SockInv, UNCHANGED serverVars, NEW c \in C2s, UNCHANGED <<next, visit>>,
         calls' \in Nat,
         \A d \in C2s \ {c} : /\ m_timerId2Info'[d] = m_timerId2Info[d]
                              /\ m_session2User'[d] = m_session2User[d],
         NEW S \in SUBSET AtNode(c), CloseSock(S),
         DOMAIN m_timerId2Info'[c] \cup DOMAIN m_session2User'[c] = AtNode(c) \ S
  PROVE  SockInv'
<1>1. AtNode(c)' = AtNode(c) \ S /\ \A d \in C2s \ {c} : AtNode(d)' = AtNode(d)
    BY DEF AtNode
<1> QED BY <1>1, NodeCloses

\* What is left after erasing K.
LEMMA EraseDomain ==
  ASSUME NEW f, NEW K
  PROVE  DOMAIN Erase(f, K) = DOMAIN f \ K
BY DEF Erase

\* Connections in K of node c, that wait for the server, are closed.
LEMMA PendingClose ==
  ASSUME C2sInv, SockInv, UNCHANGED serverVars, NEW c \in C2s,
         UNCHANGED <<next, visit>>, calls' \in Nat,
         NEW K \in SUBSET DOMAIN m_timerId2Info[c], CloseSock(K),
         m_timerId2Info' = [m_timerId2Info EXCEPT ![c] = Erase(@, K)],
         m_session2User' = m_session2User
  PROVE  SockInv'
<1>1. /\ m_timerId2Info'[c] = Erase(m_timerId2Info[c], K)
      /\ \A d \in C2s \ {c} : m_timerId2Info'[d] = m_timerId2Info[d]
    BY DEF C2sInv, TablesOfNodes
<1>2. DOMAIN m_timerId2Info[c] \cap DOMAIN m_session2User[c] = {}
    BY DEF C2sInv, NodeInv
<1>3. DOMAIN m_timerId2Info'[c] = DOMAIN m_timerId2Info[c] \ K
    BY <1>1, EraseDomain
<1>4. /\ K \subseteq AtNode(c)
      /\ DOMAIN m_timerId2Info'[c] \cup DOMAIN m_session2User'[c] = AtNode(c) \ K
    BY <1>2, <1>3 DEF AtNode
<1> QED BY <1>1, <1>4, TablesClose

\* Sessions in K of node c are closed.
LEMMA SessionsClose ==
  ASSUME C2sInv, SockInv, UNCHANGED serverVars, NEW c \in C2s,
         UNCHANGED <<next, visit>>, calls' \in Nat,
         NEW K \in SUBSET DOMAIN m_session2User[c], CloseSock(K),
         m_session2User' = [m_session2User EXCEPT ![c] = Erase(@, K)],
         m_timerId2Info' = m_timerId2Info
  PROVE  SockInv'
<1>1. /\ m_session2User'[c] = Erase(m_session2User[c], K)
      /\ \A d \in C2s \ {c} : m_session2User'[d] = m_session2User[d]
    BY DEF C2sInv, TablesOfNodes
<1>2. DOMAIN m_timerId2Info[c] \cap DOMAIN m_session2User[c] = {}
    BY DEF C2sInv, NodeInv
<1>3. DOMAIN m_session2User'[c] = DOMAIN m_session2User[c] \ K
    BY <1>1, EraseDomain
<1>4. /\ K \subseteq AtNode(c)
      /\ DOMAIN m_timerId2Info'[c] \cup DOMAIN m_session2User'[c] = AtNode(c) \ K
    BY <1>2, <1>3 DEF AtNode
<1> QED BY <1>1, <1>4, TablesClose

\* The answer to a login moves the connection between the tables of its node.
LEMMA LoginOkSockets ==
  ASSUME C2sInv, SockInv, UNCHANGED serverVars, NEW c \in C2s, NEW outcome,
         C2sLoginOk(c, outcome)
  PROVE  SockInv'
<1> DEFINE k == Msg(c).index
           u == Msg(c).user
           T == m_timerId2Info[c]
           F == m_session2User[c]
           G == m_user2Session[c]
           known == k \in DOMAIN T
           old == IF known /\ outcome # "no session" /\ u \in DOMAIN G THEN {G[u]} ELSE {}
           ok == known /\ outcome = "ok"
           closed == old \cup IF known /\ ~ok THEN {k} ELSE {}
<1>1. NodeInv(T, F, G, next) /\ TablesOfNodes
    BY DEF C2sInv
<1>2. /\ m_timerId2Info'[c] = Erase(T, {k})
      /\ m_session2User'[c] = IF ok THEN Put(Erase(F, old), k, u) ELSE Erase(F, old)
      /\ CloseSock(closed) /\ UNCHANGED <<next, visit, calls>>
      /\ \A d \in C2s \ {c} : /\ m_timerId2Info'[d] = m_timerId2Info[d]
                              /\ m_session2User'[d] = m_session2User[d]
    BY <1>1 DEF C2sLoginOk, TablesOfNodes, Close
<1>3. /\ old \subseteq DOMAIN F /\ DOMAIN T \cap DOMAIN F = {}
  <2> HIDE DEF k, u, T, F, G, known
  <2>1. (\A v \in DOMAIN G : G[v] \in DOMAIN F) /\ DOMAIN T \cap DOMAIN F = {}
      BY <1>1 DEF NodeInv, Inverses
  <2> QED BY <2>1
<1>4. /\ DOMAIN Erase(T, {k}) = DOMAIN T \ {k} /\ DOMAIN Erase(F, old) = DOMAIN F \ old
      /\ DOMAIN Put(Erase(F, old), k, u) = (DOMAIN F \ old) \cup {k}
    BY DEF Erase, Put
<1>5. AtNode(c) = DOMAIN T \cup DOMAIN F
    BY DEF AtNode
<1>6. calls' \in Nat
    BY <1>2 DEF SockInv
<1> HIDE DEF k, u, T, F, G, old
<1>7. /\ closed \subseteq AtNode(c)
      /\ DOMAIN m_timerId2Info'[c] \cup DOMAIN m_session2User'[c] = AtNode(c) \ closed
  <2>1. CASE ~known
      BY <1>2, <1>3, <1>4, <1>5, <2>1
  <2>2. CASE known /\ ok
      BY <1>2, <1>3, <1>4, <1>5, <2>2
  <2>3. CASE known /\ ~ok
      BY <1>2, <1>3, <1>4, <1>5, <2>3
  <2> QED BY <2>1, <2>2, <2>3
<1>8. PICK S : S = closed
    OBVIOUS
<1> HIDE DEF closed
<1> QED BY <1>2, <1>6, <1>7, <1>8, TablesClose

\* All that node c has is closed.
LEMMA DropAllSockets ==
  ASSUME C2sInv, SockInv, UNCHANGED serverVars, NEW c \in C2s, DropAll(c), calls' \in Nat
  PROVE  SockInv'
<1> DEFINE T == m_timerId2Info[c]
           F == m_session2User[c]
<1>1. /\ m_timerId2Info'[c] = Erase(T, DOMAIN T) /\ m_session2User'[c] = Erase(F, DOMAIN F)
      /\ CloseSock(DOMAIN T \cup DOMAIN F) /\ UNCHANGED <<next, visit>>
      /\ \A d \in C2s \ {c} : /\ m_timerId2Info'[d] = m_timerId2Info[d]
                              /\ m_session2User'[d] = m_session2User[d]
    BY DEF DropAll, C2sInv, TablesOfNodes
<1>2. PICK S : S = DOMAIN T \cup DOMAIN F
    OBVIOUS
<1>3. /\ S \subseteq AtNode(c)
      /\ DOMAIN m_timerId2Info'[c] \cup DOMAIN m_session2User'[c] = AtNode(c) \ S
  <2>1. DOMAIN Erase(T, DOMAIN T) = {} /\ DOMAIN Erase(F, DOMAIN F) = {}
      BY DEF Erase
  <2>2. AtNode(c) = S
      BY <1>2 DEF AtNode
  <2> HIDE DEF T, F
  <2> QED BY <1>1, <2>1, <2>2
<1> QED BY <1>1, <1>2, <1>3, TablesClose

\* A node that accepts a connection owns its socket.
LEMMA AcceptSockets ==
  ASSUME C2sInv, SockInv, UNCHANGED serverVars, NEW c \in C2s, NEW u, C2sAcceptSession(c, u)
  PROVE  SockInv'
<1>1. PICK a \in BOOLEAN :
        /\ Dial(u, c, a) /\ UNCHANGED calls /\ m_session2User' = m_session2User
        /\ m_timerId2Info' = IF a THEN [m_timerId2Info EXCEPT ![c] = Put(@, next, u)]
                                  ELSE m_timerId2Info
    BY DEF C2sAcceptSession
<1>2. AtServer' = AtServer /\ ServerParts'
    BY DEF serverVars, AtServer, ServerParts, SockInv
<1>3. DOMAIN Put(m_timerId2Info[c], next, u) = DOMAIN m_timerId2Info[c] \cup {next}
    BY DEF Put
<1>4. ASSUME NEW d \in C2s
      PROVE  AtNode(d)' = AtNode(d) \cup (IF a /\ c = d THEN {next} ELSE {})
  <2>1. m_timerId2Info'[d] = IF a /\ c = d THEN Put(m_timerId2Info[c], next, u)
                                           ELSE m_timerId2Info[d]
      BY <1>1 DEF C2sInv, TablesOfNodes
  <2> QED BY <1>1, <1>3, <2>1 DEF AtNode
<1>5. c # Root
    BY NamesAssumption
<1>6. AtServer' = AtServer \cup (IF a /\ c = Root THEN {next} ELSE {})
    BY <1>2, <1>5
<1> QED BY <1>1, <1>2, <1>4, <1>6, Dialled

\* Every step of a node keeps every socket owned once.
LEMMA NodeSockets ==
  ASSUME C2sInv, SockInv, UNCHANGED serverVars, NEW c \in C2s, C2sNext(c)
  PROVE  SockInv'
<1>0. calls \in Nat
    BY DEF SockInv
<1>1. ASSUME NEW u, C2sAcceptSession(c, u) PROVE SockInv'
    BY <1>1, AcceptSockets
<1>2. ASSUME NEW k, NEW u, Logoff(c, k, u), k \in DOMAIN m_session2User[c], calls' \in Nat
      PROVE  SockInv'
  <2>1. PICK K : K = {k}
      OBVIOUS
  <2>2. /\ UNCHANGED <<next, visit>> /\ CloseSock(K) /\ K \subseteq DOMAIN m_session2User[c]
        /\ m_session2User' = [m_session2User EXCEPT ![c] = Erase(@, K)]
        /\ m_timerId2Info' = m_timerId2Info
      BY <1>2, <2>1 DEF Logoff, Close
  <2> QED BY <1>2, <2>2, SessionsClose
<1>3. ASSUME NEW u, C2sKickoutUser(c, u) PROVE SockInv'
  <2>1. /\ u \in DOMAIN m_user2Session[c] /\ Logoff(c, m_user2Session[c][u], u)
        /\ calls' \in Nat
      BY <1>0, <1>3 DEF C2sKickoutUser, Call
  <2>2. m_user2Session[c][u] \in DOMAIN m_session2User[c]
      BY <2>1 DEF C2sInv, NodeInv, Inverses
  <2> QED BY <1>2, <2>1, <2>2
<1>4. ASSUME NEW k, C2sOnTimer(c, k) PROVE SockInv'
  <2>1. PICK K : K = {k}
      OBVIOUS
  <2>2. /\ UNCHANGED <<next, visit, calls>> /\ CloseSock(K)
        /\ K \subseteq DOMAIN m_timerId2Info[c]
        /\ m_timerId2Info' = [m_timerId2Info EXCEPT ![c] = Erase(@, K)]
        /\ m_session2User' = m_session2User
      BY <1>4, <2>1 DEF C2sOnTimer, Close
  <2> QED BY <1>0, <2>2, PendingClose
<1>5. ASSUME NEW k, C2sOnCloseSession(c, k) PROVE SockInv'
  <2>1. /\ k \in DOMAIN m_session2User[c] /\ Logoff(c, k, m_session2User[c][k])
        /\ calls' \in Nat
      BY <1>0, <1>5 DEF C2sOnCloseSession
  <2> QED BY <1>2, <2>1
<1>6. ASSUME NEW k, C2sOnRecvSession(c, k) PROVE SockInv'
  <2>1. UNCHANGED <<next, visit, calls, sock, m_timerId2Info, m_session2User>>
      BY <1>6 DEF C2sOnRecvSession, c2sVars
  <2> QED BY <1>0, <2>1, NodesStaySockets
<1>7. ASSUME NEW o, C2sLoginOk(c, o) PROVE SockInv'
    BY <1>7, LoginOkSockets
<1>8. CASE C2sOnOkMsg(c) \/ C2sOnTransferMsg(c)
  <2>1. UNCHANGED <<next, visit, calls, sock, m_timerId2Info, m_session2User>>
      BY <1>8 DEF C2sOnOkMsg, C2sOnTransferMsg, c2sVars
  <2> QED BY <1>0, <2>1, NodesStaySockets
<1>9. CASE C2sReport(c)
  <2>1. /\ UNCHANGED <<next, visit, calls, m_timerId2Info, m_session2User>> /\ CloseSock({})
      BY <1>9 DEF C2sReport, Close
  <2>2. DOMAIN m_timerId2Info'[c] \cup DOMAIN m_session2User'[c] = AtNode(c) \ {}
      BY <2>1 DEF AtNode
  <2> QED BY <1>0, <2>1, <2>2, TablesClose
<1>10. CASE C2sLoginError(c)
  <2>1. PICK K : K = {Msg(c).index} \cap DOMAIN m_timerId2Info[c]
      OBVIOUS
  <2>2. /\ UNCHANGED <<next, visit, calls>> /\ CloseSock(K)
        /\ K \subseteq DOMAIN m_timerId2Info[c]
        /\ m_timerId2Info' = [m_timerId2Info EXCEPT ![c] = Erase(@, K)]
        /\ m_session2User' = m_session2User
      BY <1>10, <2>1 DEF C2sLoginError, Close
  <2> QED BY <1>0, <2>2, PendingClose
<1>11. CASE C2sKickout(c)
  <2>1. PICK K : K = IF Msg(c).user \in DOMAIN m_user2Session[c]
                       THEN {m_user2Session[c][Msg(c).user]} ELSE {}
      OBVIOUS
  <2>2. /\ UNCHANGED <<next, visit, calls>> /\ CloseSock(K)
        /\ m_session2User' = [m_session2User EXCEPT ![c] = Erase(@, K)]
        /\ m_timerId2Info' = m_timerId2Info
      BY <1>11, <2>1 DEF C2sKickout, Close
  <2>3. K \subseteq DOMAIN m_session2User[c]
      BY <2>1 DEF C2sInv, NodeInv, Inverses
  <2> QED BY <1>0, <2>2, <2>3, SessionsClose
<1>12. CASE C2sOnCloseMsg(c) \/ C2sFini(c)
  <2>1. DropAll(c) /\ calls' \in Nat
      BY <1>0, <1>12 DEF C2sOnCloseMsg, C2sFini, Call
  <2> QED BY <2>1, DropAllSockets
<1> QED
    BY <1>1, <1>3, <1>4, <1>5, <1>6, <1>7, <1>8, <1>9, <1>10, <1>11, <1>12 DEF C2sNext

\* Somebody connects to the server.
LEMMA ServerDialled ==
  ASSUME IndexInv, SockInv, NEW u, OnAcceptSession(u),
         UNCHANGED <<calls, alive, m_session2Ctx, fini, m_timerId2Info, m_session2User>>
  PROVE  SockInv'
<1> DEFINE e == [cmd |-> "accept", conn |-> next, user |-> u]
<1>1. PICK a \in BOOLEAN :
        /\ Dial(u, Root, a) /\ (a => alive)
        /\ task' = IF a THEN Append(task, e) ELSE task
    BY DEF OnAcceptSession
<1>2. Waiters(task') = Waiters(task) \cup (IF a THEN {next} ELSE {})
  <2>1. e.cmd = "accept" /\ e.conn = next
      OBVIOUS
  <2> HIDE DEF e
  <2> QED BY <1>1, <2>1, WaitersAppend DEF IndexInv
<1>3. AtServer' = AtServer \cup (IF a /\ Root = Root THEN {next} ELSE {})
    BY <1>2 DEF AtServer
<1>4. ServerParts'
    BY <1>1, <1>2 DEF ServerParts, SockInv
<1>5. \A c \in C2s : AtNode(c)' = AtNode(c) \cup (IF a /\ Root = c THEN {next} ELSE {})
    BY NamesAssumption DEF AtNode
<1> QED BY <1>1, <1>3, <1>4, <1>5, Dialled

\* No sockets at the start.
LEMMA InitSockets == Init => SockInv
<1> SUFFICES ASSUME Init PROVE SockInv
    OBVIOUS
<1>1. /\ task = <<>> /\ next = 1 /\ calls = 0 /\ DOMAIN m_session2Ctx = {} /\ fini = {} /\ alive
      /\ visit = [k \in Conns |-> [user |-> None, at |-> Root]]
      /\ sock = [k \in Conns |-> "free"]
      /\ \A c \in C2s : DOMAIN m_timerId2Info[c] = {} /\ DOMAIN m_session2User[c] = {}
    BY DEF Init, LinkInit, ServerInit, C2sInit
<1>2. Waiters(task) = {}
    BY <1>1 DEF Waiters
<1>3. AtServer = {} /\ \A c \in C2s : AtNode(c) = {}
    BY <1>1, <1>2 DEF AtServer, AtNode
<1> QED BY <1>1, <1>2, <1>3 DEF SockInv, ServerParts

\* Every socket has one owner in every state.
LEMMA SockInvariance == Spec => []SockInv
<1>1. IndexInv /\ C2sInv /\ SockInv /\ [Next]_vars => SockInv'
  <2> SUFFICES ASSUME IndexInv, C2sInv, SockInv, [Next]_vars PROVE SockInv'
      OBVIOUS
  <2>0. calls \in Nat
      BY DEF SockInv
  <2>1. CASE UNCHANGED vars
    <3>1. UNCHANGED serverVars
          /\ UNCHANGED <<next, visit, sock, calls, m_timerId2Info, m_session2User>>
        BY <2>1 DEF vars, linkVars, c2sVars
    <3> QED BY <2>0, <3>1, NodesStaySockets
  <2>2. CASE ServerNext /\ UNCHANGED c2sVars
      BY <2>2, ServerSockets
  <2>3. ASSUME NEW c \in C2s, C2sNext(c), UNCHANGED serverVars PROVE SockInv'
      BY <2>3, NodeSockets
  <2>4. ASSUME NEW c \in C2s, Connect(c) PROVE SockInv'
      BY <2>4, ServerDialled DEF Connect
  <2>5. ASSUME NEW u \in Users, ClientConnect(u) PROVE SockInv'
      BY <2>5, ServerDialled DEF ClientConnect, c2sVars
  <2>6. ASSUME NEW k \in Conns, ClientRecv(k) \/ \E u \in Ids : ClientSend(k, u)
        PROVE  SockInv'
    <3>1. UNCHANGED serverVars /\ calls' \in Nat
          /\ UNCHANGED <<next, visit, sock, m_timerId2Info, m_session2User>>
        BY <2>0, <2>6 DEF ClientRecv, ClientSend, Call, c2sVars
    <3> QED BY <3>1, NodesStaySockets
  <2> QED BY <2>1, <2>2, <2>3, <2>4, <2>5, <2>6 DEF Next
<1> QED BY <1>1, InitSockets, IndexInvariance, C2sInvariance, PTL DEF Spec

(***************************************************************************)
(* An accepted socket is open exactly as long as somebody owns it, and     *)
(* nobody shares it: a waiting command, a context, the sessions of a       *)
(* server that finishes, the pending or the session table of one C2S.      *)
(***************************************************************************)
THEOREM SocketsCorrect == Spec => []SocketsOwned
<1>1. IndexInv /\ C2sInv /\ SockInv => SocketsOwned
  <2> SUFFICES ASSUME IndexInv, C2sInv, SockInv, NEW k \in Conns
               PROVE  Cardinality(Owners(k)) = IF sock[k] = "open" THEN 1 ELSE 0
      BY DEF SocketsOwned
  <2> DEFINE HeldBy(o) ==
        \/ \E i \in DOMAIN task : task[i].cmd = "accept" /\ task[i].conn = k /\ o = <<"task", i>>
        \/ k \in DOMAIN m_session2Ctx /\ o = <<"server", k>>
        \/ k \in fini /\ o = <<"fini", k>>
             HeldAt(o, c) ==
        \/ k \in DOMAIN m_timerId2Info[c] /\ o = <<"pending", c>>
        \/ k \in DOMAIN m_session2User[c] /\ o = <<"logged in", c>>
  <2>a. \A o : o \in Owners(k) <=> HeldBy(o) \/ \E c \in C2s : HeldAt(o, c)
    <3>1. \A o : o \in {<<"task", i>> : i \in {j \in DOMAIN task : task[j].cmd = "accept" /\ task[j].conn = k}}
            <=> \E i \in DOMAIN task : task[i].cmd = "accept" /\ task[i].conn = k /\ o = <<"task", i>>
        OBVIOUS
    <3>2. \A o : o \in {<<"server", s>> : s \in {k} \cap DOMAIN m_session2Ctx}
            <=> k \in DOMAIN m_session2Ctx /\ o = <<"server", k>>
        OBVIOUS
    <3>3. \A o : o \in {<<"fini", s>> : s \in {k} \cap fini} <=> k \in fini /\ o = <<"fini", k>>
        OBVIOUS
    <3>4. \A o : o \in {<<"pending", c>> : c \in {d \in C2s : k \in DOMAIN m_timerId2Info[d]}}
            <=> \E c \in C2s : k \in DOMAIN m_timerId2Info[c] /\ o = <<"pending", c>>
        OBVIOUS
    <3>5. \A o : o \in {<<"logged in", c>> : c \in {d \in C2s : k \in DOMAIN m_session2User[d]}}
            <=> \E c \in C2s : k \in DOMAIN m_session2User[c] /\ o = <<"logged in", c>>
        OBVIOUS
    <3> QED BY <3>1, <3>2, <3>3, <3>4, <3>5 DEF Owners
  <2>b. \A o : /\ HeldBy(o) => k \in AtServer
              /\ \A c \in C2s : HeldAt(o, c) => k \in AtNode(c)
      BY DEF AtServer, AtNode, Waiters
  <2>1. Owners(k) # {} <=> k \in AtServer \/ \E c \in C2s : k \in AtNode(c)
    <3>1. k \in AtServer => \E o : HeldBy(o)
        BY DEF AtServer, Waiters
    <3>2. \A c \in C2s : k \in AtNode(c) => \E o : HeldAt(o, c)
        BY DEF AtNode
    <3> HIDE DEF HeldBy, HeldAt
    <3> QED BY <2>a, <2>b, <3>1, <3>2
  <2>2. ASSUME NEW o \in Owners(k), NEW p \in Owners(k) PROVE o = p
    <3>1. Waiters(task) \cap DOMAIN m_session2Ctx = {}
        BY DEF IndexInv, Fresh, Waiting, Waiters
    <3>2. k \notin DOMAIN m_session2Ctx \/ k \notin fini
        BY DEF SockInv, ServerParts
    <3>3. k \notin fini \/ k \notin Waiters(task)
        BY DEF SockInv, ServerParts
    <3>4. \A i, j \in DOMAIN task :
            task[i].cmd = "accept" /\ task[i].conn = k /\ task[j].cmd = "accept"
              /\ task[j].conn = k => i = j
        BY DEF IndexInv, Fresh, Waiting
    <3>5. \A c \in C2s : k \notin DOMAIN m_timerId2Info[c] \/ k \notin DOMAIN m_session2User[c]
        BY DEF C2sInv, NodeInv
    <3>6. \A c \in C2s : k \in AtNode(c) =>
            k \notin AtServer /\ \A d \in C2s : k \in AtNode(d) => d = c
        BY Apart
    <3>7. CASE HeldBy(o) /\ HeldBy(p)
      <4>1. \A i \in DOMAIN task :
              task[i].cmd = "accept" /\ task[i].conn = k => k \in Waiters(task)
          BY DEF Waiters
      <4> QED BY <3>1, <3>2, <3>3, <3>4, <3>7, <4>1
    <3>8. ASSUME NEW c \in C2s, HeldAt(o, c), NEW d \in C2s, HeldAt(p, d) PROVE o = p
      <4>1. c = d
          BY <2>b, <3>6, <3>8
      <4> QED BY <3>5, <3>8, <4>1
    <3>9. ASSUME NEW c \in C2s, k \in AtNode(c), k \in AtServer PROVE FALSE
        BY <3>6, <3>9
    <3> HIDE DEF HeldBy, HeldAt
    <3> QED BY <2>2, <2>a, <2>b, <3>7, <3>8, <3>9
  <2>3. CASE sock[k] = "open"
    <3>1. PICK o : o \in Owners(k)
        BY <2>1, <2>3 DEF SockInv
    <3>2. Owners(k) = {o}
        BY <2>2, <3>1
    <3> QED BY <2>3, <3>2, FS_Singleton
  <2>4. CASE sock[k] # "open"
    <3>1. Owners(k) = {}
        BY <2>1, <2>4 DEF SockInv
    <3> QED BY <2>4, <3>1, FS_EmptySet
  <2> QED BY <2>3, <2>4
<1> QED BY <1>1, IndexInvariance, C2sInvariance, SockInvariance, PTL
-----------------------------------------------------------------------------
(***************************************************************************)
(* LinkShape: the packets under way.                                       *)
(***************************************************************************)

\* No packet is a sequence of packets.
LEMMA EmptyIsSeq == IsSeq(<<>>)
BY DEF IsSeq

\* A packet put behind the others.
LEMMA AppendIsSeq ==
  ASSUME NEW r, IsSeq(r), NEW e
  PROVE  LET a == Append(r, e) IN
         /\ IsSeq(a) /\ Len(r) \in Nat /\ DOMAIN r = 1..Len(r)
         /\ DOMAIN a = 1..(Len(r) + 1) /\ Len(a) = Len(r) + 1 /\ a # <<>>
         /\ \A i \in 1..Len(r) : a[i] = r[i]
         /\ a[Len(r) + 1] = e
<1> DEFINE S == {r[i] : i \in DOMAIN r} \cup {e}
<1>1. r \in Seq(S) /\ e \in S
    BY DEF IsSeq
<1> HIDE DEF S
<1>2. Append(r, e) \in Seq(S) /\ Len(Append(r, e)) = Len(r) + 1 /\ Len(r) \in Nat
    BY <1>1
<1>3. Append(r, e) # <<>>
    BY <1>2
<1> QED BY <1>2, <1>3, AppendTask DEF IsSeq

\* The oldest packet taken.
LEMMA TailIsSeq ==
  ASSUME NEW r, IsSeq(r), r # <<>>
  PROVE  LET a == Tail(r) IN
         /\ IsSeq(a)
         /\ Len(r) \in Nat \ {0} /\ DOMAIN r = 1..Len(r) /\ Head(r) = r[1]
         /\ DOMAIN a = 1..(Len(r) - 1) /\ Len(a) = Len(r) - 1
         /\ \A i \in 1..(Len(r) - 1) : a[i] = r[i + 1]
<1>1. Len(Tail(r)) = Len(r) - 1
    BY DEF IsSeq
<1> QED BY <1>1, TailTask DEF IsSeq

\* The operations of MsgLink on the packets under way.
LEMMA DiscardQueue ==
  ASSUME NEW q, IsQueue(q), NEW S
  PROVE  /\ IsQueue(Discard(q, S))
         /\ \A k \in Conns : Discard(q, S)[k] = IF k \in S THEN <<>> ELSE q[k]
<1> DEFINE r == Discard(q, S)
<1>1. DOMAIN r = Conns /\ \A k \in Conns : r[k] = IF k \in S THEN <<>> ELSE q[k]
    BY DEF Discard
<1> QED BY <1>1, EmptyIsSeq DEF IsQueue

\* Packets pk sent on queues q: a full queue drops its packet.
LEMMA SendQueue ==
  ASSUME NEW q, IsQueue(q), NEW pk
  PROVE  /\ IsQueue(Send(q, pk))
         /\ \A k \in Conns : Send(q, pk)[k] = IF k \in DOMAIN pk /\ ~Full(q, k)
                                                THEN Append(q[k], pk[k]) ELSE q[k]
<1> DEFINE r == Send(q, pk)
<1>1. DOMAIN r = Conns
      /\ \A k \in Conns : r[k] = IF k \in DOMAIN pk /\ ~Full(q, k)
                                   THEN Append(q[k], pk[k]) ELSE q[k]
    BY DEF Send
<1>2. \A k \in Conns : IsSeq(Append(q[k], pk[k]))
    BY AppendIsSeq DEF IsQueue
<1> QED BY <1>1, <1>2 DEF IsQueue

\* The oldest packet of connection t taken.
LEMMA PopQueue ==
  ASSUME NEW q, IsQueue(q), NEW t \in Conns, q[t] # <<>>
  PROVE  /\ IsQueue([q EXCEPT ![t] = Tail(@)])
         /\ \A k \in Conns : [q EXCEPT ![t] = Tail(@)][k] = IF k = t THEN Tail(q[k]) ELSE q[k]
<1> DEFINE r == [q EXCEPT ![t] = Tail(@)]
<1>1. DOMAIN r = Conns /\ \A k \in Conns : r[k] = IF k = t THEN Tail(q[k]) ELSE q[k]
    BY DEF IsQueue
<1>2. IsSeq(Tail(q[t]))
    BY TailIsSeq DEF IsQueue
<1> QED BY <1>1, <1>2 DEF IsQueue

\* What a command sends, and what it deletes.
LEMMA SendDownQueue ==
  ASSUME IsQueue(down), NEW pk, SendDown(pk)
  PROVE  /\ IsQueue(down') /\ lost \subseteq lost'
         /\ \A t \in Conns :
              \/ down'[t] = down[t] /\ (t \in DOMAIN pk \ left => t \in lost')
              \/ t \in DOMAIN pk \ left /\ down'[t] = Append(down[t], pk[t])
<1> DEFINE h == Heard(pk)
<1>1. DOMAIN h = DOMAIN pk \ left /\ \A t \in DOMAIN h : h[t] = pk[t]
    BY DEF Heard
<1>2. down' = Send(down, h) /\ lost' = lost \cup Refused(down, h)
    BY DEF SendDown
<1> HIDE DEF h
<1>3. \A t \in Conns : down'[t] = IF t \in DOMAIN h /\ ~Full(down, t)
                                    THEN Append(down[t], h[t]) ELSE down[t]
    BY <1>2, SendQueue
<1>4. \A t \in DOMAIN h : Full(down, t) => t \in lost'
    BY <1>2 DEF Refused
<1> QED BY <1>1, <1>2, <1>3, <1>4, SendQueue

\* DeleteSessions: what came up a deleted session is discarded, a client of the server
\* forgets its number, and the packets pk follow, or the connection counts as lossy.
LEMMA DeleteQueue ==
  ASSUME IsQueue(down), IsQueue(up), DOMAIN ident = Conns, NEW S, NEW pk, DeleteSessions(S, pk)
  PROVE  /\ IsQueue(down') /\ IsQueue(up') /\ DOMAIN ident' = Conns /\ lost \subseteq lost'
         /\ \A t \in Conns : /\ up'[t] = IF t \in S THEN <<>> ELSE up[t]
                             /\ ident'[t] = IF t \in Clients(S) THEN None ELSE ident[t]
         /\ \A t \in Conns : LET q == IF t \in Clients(S) THEN <<>> ELSE down[t] IN
              \/ down'[t] = q /\ (t \in DOMAIN pk \ left /\ t \notin Clients(S) => t \in lost')
              \/ t \in DOMAIN pk \ left /\ down'[t] = Append(q, pk[t])
<1> DEFINE h == Heard(pk)
           d == Discard(down, Clients(S))
<1>1. DOMAIN h = DOMAIN pk \ left /\ \A t \in DOMAIN h : h[t] = pk[t]
    BY DEF Heard
<1>2. /\ down' = Send(d, h) /\ lost' = lost \cup Refused(down, h)
      /\ up' = Discard(up, S) /\ Forget(Clients(S))
    BY DEF DeleteSessions
<1>3. IsQueue(d) /\ \A t \in Conns : d[t] = IF t \in Clients(S) THEN <<>> ELSE down[t]
    BY DiscardQueue
<1> HIDE DEF h, d
<1>4. IsQueue(down') /\ \A t \in Conns : down'[t] = IF t \in DOMAIN h /\ ~Full(d, t)
                                                      THEN Append(d[t], h[t]) ELSE d[t]
    BY <1>2, <1>3, SendQueue
<1>5. \A t \in DOMAIN h : Full(down, t) => t \in lost'
    BY <1>2 DEF Refused
<1>6. \A t \in Conns : t \notin Clients(S) => (Full(d, t) <=> Full(down, t))
    BY <1>3 DEF Full
<1>7. IsQueue(up') /\ \A t \in Conns : up'[t] = IF t \in S THEN <<>> ELSE up[t]
    BY <1>2, DiscardQueue
<1>8. DOMAIN ident' = Conns
      /\ \A t \in Conns : ident'[t] = IF t \in Clients(S) THEN None ELSE ident[t]
    BY <1>2 DEF Forget
<1>9. lost \subseteq lost'
    BY <1>2
<1> HIDE DEF Clients
<1>10. \A t \in Conns : LET q == IF t \in Clients(S) THEN <<>> ELSE down[t] IN
              \/ down'[t] = q /\ (t \in DOMAIN pk \ left /\ t \notin Clients(S) => t \in lost')
              \/ t \in DOMAIN pk \ left /\ down'[t] = Append(q, pk[t])
    BY <1>1, <1>3, <1>4, <1>5, <1>6
<1> QED BY <1>4, <1>7, <1>8, <1>9, <1>10

(***************************************************************************)
(* UplinkInv: the uplinks of the nodes.                                    *)
(***************************************************************************)

\* A step that touches neither connections nor uplinks.
LEMMA UplinksStay ==
  ASSUME UplinkInv, LinkShape', UNCHANGED <<next, visit, left, m_msgClient>>
  PROVE  UplinkInv'
BY DEF UplinkInv, IsUplink

\* Somebody connects to node n.
LEMMA UplinksDial ==
  ASSUME SockInv, UplinkInv, NEW u, NEW n, NEW accepted, Dial(u, n, accepted), LinkShape',
         UNCHANGED <<left, m_msgClient>>
  PROVE  UplinkInv'
<1>1. next \in Nat \ {0} /\ next' = next + 1 /\ DOMAIN visit = Conns
    BY DEF SockInv, Dial
<1>2. \A k \in Conns : k # next => visit'[k] = visit[k]
    BY <1>1 DEF Dial
<1>3. \A k \in Conns : k \in Nat
    BY DEF Conns
<1> QED BY <1>1, <1>2, <1>3 DEF UplinkInv, IsUplink

\* No uplinks at the start.
LEMMA InitUplinks == Init => UplinkInv
<1> SUFFICES ASSUME Init PROVE UplinkInv
    OBVIOUS
<1>1. LinkShape
    BY EmptyIsSeq DEF Init, LinkInit, C2sInit, LinkShape, IsQueue
<1> QED BY <1>1 DEF Init, LinkInit, C2sInit, UplinkInv

\* The server keeps the shape of the queues and makes no connections.
LEMMA ServerShape ==
  ASSUME LinkShape, ServerNext, UNCHANGED c2sVars
  PROVE  LinkShape' /\ UNCHANGED <<next, visit, left>>
<1> USE DEF LinkShape, c2sVars
<1>1. ASSUME NEW u, KickoutUser(u) \/ SendMsg(u)
      PROVE  LinkShape' /\ UNCHANGED <<next, visit, left>>
    BY <1>1, SendDownQueue DEF KickoutUser, SendMsg
<1>2. ASSUME NEW s \in Conns, OnRecvSession(s) \/ OnCloseSession(s)
      PROVE  LinkShape' /\ UNCHANGED <<next, visit, left>>
  <2>1. CASE OnCloseSession(s)
      BY <2>1 DEF OnCloseSession, linkVars
  <2>2. CASE OnRecvSession(s)
    <3>1. /\ UNCHANGED <<next, visit, left, ident>> /\ up[s] # <<>>
          /\ up' = [up EXCEPT ![s] = Tail(@)]
          /\ \E pk : SendDown(pk)
        BY <2>2 DEF OnRecvSession
    <3>2. IsQueue(up')
        BY <3>1, PopQueue
    <3>3. IsQueue(down')
        BY <3>1, SendDownQueue
    <3> QED BY <3>1, <3>2, <3>3
  <2> QED BY <1>2, <2>1, <2>2
<1>3. CASE RejectSession \/ LoginRefused \/ ClientLogout \/ DrainCommand \/ Fini \/ Respond
  <2>1. /\ UNCHANGED <<next, visit, left, ident, up>>
        /\ down' = down \/ \E pk : SendDown(pk)
      BY <1>3 DEF RejectSession, LoginRefused, ClientLogout, DrainCommand, Fini, Respond,
                  Nothing, linkVars
  <2> QED BY <2>1, SendDownQueue
<1>4. CASE AddBaseUser \/ AddSubUser \/ AsyncOnCloseSession \/ AsyncKickoutUser \/ FiniSessions
  <2>1. /\ UNCHANGED <<next, visit, left>>
        /\ UNCHANGED <<ident, up, down>> \/ \E S, pk : DeleteSessions(S, pk)
      BY <1>4 DEF AddBaseUser, AddSubUser, AsyncOnCloseSession, AsyncKickoutUser, FiniSessions,
                  Nothing, linkVars
  <2> QED BY <2>1, DeleteQueue
<1> HIDE DEF LinkShape, c2sVars
<1> QED BY <1>1, <1>2, <1>3, <1>4 DEF ServerNext

\* What a node closes and sends to the server.
LEMMA CloseQueue ==
  ASSUME IsQueue(up), DOMAIN ident = Conns, NEW S, NEW pk, Close(S, pk)
  PROVE  /\ IsQueue(up') /\ DOMAIN ident' = Conns /\ lost \subseteq lost'
         /\ \A t \in Conns : ident'[t] = IF t \in S THEN None ELSE ident[t]
         /\ \A t \in Conns : LET q == IF t \in S THEN <<>> ELSE up[t] IN
              \/ up'[t] = q /\ (t \in DOMAIN pk /\ t \notin S => t \in lost')
              \/ t \in DOMAIN pk /\ up'[t] = Append(q, pk[t])
<1> DEFINE d == Discard(up, S)
<1>1. up' = Send(d, pk) /\ lost' = lost \cup Refused(up, pk) /\ Forget(S)
    BY DEF Close
<1>2. IsQueue(d) /\ \A t \in Conns : d[t] = IF t \in S THEN <<>> ELSE up[t]
    BY DiscardQueue
<1> HIDE DEF d
<1>3. IsQueue(up') /\ \A t \in Conns : up'[t] = IF t \in DOMAIN pk /\ ~Full(d, t)
                                                  THEN Append(d[t], pk[t]) ELSE d[t]
    BY <1>1, <1>2, SendQueue
<1>4. \A t \in DOMAIN pk : Full(up, t) => t \in lost'
    BY <1>1 DEF Refused
<1>5. \A t \in Conns : t \notin S => (Full(d, t) <=> Full(up, t))
    BY <1>2 DEF Full
<1>6. DOMAIN ident' = Conns /\ \A t \in Conns : ident'[t] = IF t \in S THEN None ELSE ident[t]
    BY <1>1 DEF Forget
<1>7. \A t \in Conns : LET q == IF t \in S THEN <<>> ELSE up[t] IN
              \/ up'[t] = q /\ (t \in DOMAIN pk /\ t \notin S => t \in lost')
              \/ t \in DOMAIN pk /\ up'[t] = Append(q, pk[t])
    BY <1>2, <1>3, <1>4, <1>5
<1> QED BY <1>1, <1>3, <1>6, <1>7

\* The next packet of the uplink is taken.
LEMMA PoppedQueue ==
  ASSUME UplinkInv, NEW c \in C2s, m_msgClient[c] # 0, down[m_msgClient[c]] # <<>>
  PROVE  /\ IsQueue(Popped(c)) /\ m_msgClient[c] \in Conns
         /\ \A t \in Conns : Popped(c)[t] = IF t = m_msgClient[c] THEN Tail(down[t]) ELSE down[t]
<1>1. m_msgClient[c] \in Conns /\ IsQueue(down)
    BY DEF UplinkInv, IsUplink, LinkShape
<1> QED BY <1>1, PopQueue DEF Popped

\* A node has an uplink of its own after every step.
LEMMA NodeShape ==
  ASSUME SockInv, UplinkInv, NEW c \in C2s, C2sNext(c)
  PROVE  UplinkInv'
<1>0. LinkShape /\ IsQueue(up) /\ IsQueue(down) /\ DOMAIN ident = Conns
    BY DEF UplinkInv, LinkShape
<1> USE DEF LinkShape
<1>1. ASSUME NEW u, C2sAcceptSession(c, u) PROVE UplinkInv'
  <2>1. /\ \E a : Dial(u, c, a)
        /\ \E pk : up' = Send(up, pk)
        /\ UNCHANGED <<left, down, ident, m_msgClient, report>>
      BY <1>1 DEF C2sAcceptSession
  <2>2. LinkShape'
      BY <1>0, <2>1, SendQueue
  <2> QED BY <2>1, <2>2, UplinksDial
<1>2. ASSUME NEW k, C2sOnTimer(c, k) PROVE UplinkInv'
  <2>1. Close({k}, <<>>) /\ UNCHANGED <<next, visit, left, down, m_msgClient, report>>
      BY <1>2 DEF C2sOnTimer
  <2> QED BY <1>0, <2>1, CloseQueue, UplinksStay
<1>3. CASE C2sOnOkMsg(c)
  <2>1. /\ m_msgClient[c] # 0 /\ down[m_msgClient[c]] # <<>> /\ down' = Popped(c)
        /\ OnFirstPacket(m_msgClient[c]) /\ UNCHANGED <<next, visit, left, up, m_msgClient, report>>
      BY <1>3 DEF C2sOnOkMsg, c2sVars
  <2>2. LinkShape'
      BY <1>0, <2>1, PoppedQueue DEF OnFirstPacket
  <2> QED BY <2>1, <2>2, UplinksStay
<1>4. CASE C2sOnTransferMsg(c)
  <2>1. /\ m_msgClient[c] # 0 /\ down[m_msgClient[c]] # <<>>
        /\ \E pk : down' = Send(Popped(c), pk)
        /\ UNCHANGED <<next, visit, left, up, ident, m_msgClient, report>>
      BY <1>4 DEF C2sOnTransferMsg, Uplink, c2sVars
  <2>2. LinkShape'
      BY <1>0, <2>1, PoppedQueue, SendQueue
  <2> QED BY <2>1, <2>2, UplinksStay
<1>5. ASSUME NEW outcome, C2sLoginOk(c, outcome) PROVE UplinkInv'
  <2>1. /\ m_msgClient[c] # 0 /\ down[m_msgClient[c]] # <<>>
        /\ \E S : Close(S, <<>>) /\ \E pk : down' = Send(Discard(Popped(c), S), pk)
        /\ UNCHANGED <<next, visit, left, m_msgClient>>
      BY <1>5 DEF C2sLoginOk, OnRecvMsg, Uplink
  <2>2. DOMAIN report' = C2s
      BY <1>0, <1>5 DEF C2sLoginOk
  <2>3. LinkShape'
    <3>1. PICK S, pk : Close(S, <<>>) /\ down' = Send(Discard(Popped(c), S), pk)
        BY <2>1
    <3>2. IsQueue(Discard(Popped(c), S))
        BY <2>1, PoppedQueue, DiscardQueue
    <3>3. IsQueue(down')
        BY <3>1, <3>2, SendQueue
    <3>4. IsQueue(up') /\ DOMAIN ident' = Conns
        BY <1>0, <3>1, CloseQueue
    <3> QED BY <1>0, <2>1, <2>2, <3>3, <3>4
  <2> QED BY <2>1, <2>3, UplinksStay
<1>6. CASE C2sReport(c)
  <2>1. /\ \E pk : Close({}, pk)
        /\ UNCHANGED <<next, visit, left, down, m_msgClient>>
        /\ report' = [report EXCEPT ![c] = {}]
      BY <1>6 DEF C2sReport
  <2>2. LinkShape'
      BY <1>0, <2>1, CloseQueue
  <2> QED BY <2>1, <2>2, UplinksStay
<1>7. CASE C2sLoginError(c) \/ C2sKickout(c)
  <2>1. /\ m_msgClient[c] # 0 /\ down[m_msgClient[c]] # <<>>
        /\ \E S : Close(S, <<>>) /\ (down' = Popped(c) \/ down' = Discard(Popped(c), S))
        /\ UNCHANGED <<next, visit, left, m_msgClient, report>>
      BY <1>7 DEF C2sLoginError, C2sKickout, OnRecvMsg, Uplink
  <2>2. LinkShape'
      BY <1>0, <2>1, CloseQueue, PoppedQueue, DiscardQueue
  <2> QED BY <2>1, <2>2, UplinksStay
<1>8. ASSUME NEW k, NEW u, Logoff(c, k, u) PROVE UplinkInv'
  <2>1. /\ \E pk : Close({k}, pk)
        /\ down' = Discard(down, {k})
        /\ UNCHANGED <<next, visit, left, m_msgClient, report>>
      BY <1>8 DEF Logoff
  <2>2. LinkShape'
      BY <1>0, <2>1, CloseQueue, DiscardQueue
  <2> QED BY <2>1, <2>2, UplinksStay
<1>9. ASSUME NEW k \in Conns, C2sOnRecvSession(c, k) PROVE UplinkInv'
  <2>1. /\ \E pk : down' = Send(down, pk)
        /\ \E pk : up' = Send([up EXCEPT ![k] = Tail(@)], pk)
        /\ up[k] # <<>> /\ UNCHANGED <<next, visit, left, ident, m_msgClient, report>>
      BY <1>9 DEF C2sOnRecvSession, c2sVars
  <2>2. IsQueue(up')
      BY <1>0, <2>1, PopQueue, SendQueue
  <2>3. LinkShape'
      BY <1>0, <2>1, <2>2, SendQueue
  <2> QED BY <2>1, <2>3, UplinksStay
<1>10. CASE DropAll(c)
  <2> DEFINE s == {m_msgClient[c]} \ {0}
             k == DOMAIN m_timerId2Info[c] \cup DOMAIN m_session2User[c]
  <2>1. /\ up' = Discard(up, k) /\ down' = Discard(down, k \cup s) /\ Forget(k \cup s)
        /\ m_msgClient' = [m_msgClient EXCEPT ![c] = 0] /\ left' = left \cup s
        /\ UNCHANGED <<next, visit, report>>
      BY <1>10 DEF DropAll
  <2>2. LinkShape'
      BY <1>0, <2>1, DiscardQueue DEF Forget
  <2>3. \A d \in C2s : m_msgClient'[d] = IF d = c THEN 0 ELSE m_msgClient[d]
      BY <1>0, <2>1
  <2>4. \A t \in s : t \in Conns /\ t < next /\ m_msgClient[c] # 0 /\ t = m_msgClient[c]
      BY DEF UplinkInv, IsUplink
  <2> HIDE DEF s, k
  <2>5. ASSUME NEW d \in C2s, m_msgClient'[d] # 0 PROVE IsUplink(d, m_msgClient[d])' /\ d # c
    <3>1. d # c /\ m_msgClient'[d] = m_msgClient[d] /\ IsUplink(d, m_msgClient[d])
        BY <2>3, <2>5 DEF UplinkInv
    <3>2. m_msgClient[d] \notin s
        BY <2>3, <2>4, <2>5, <3>1 DEF UplinkInv
    <3> QED BY <2>1, <3>1, <3>2 DEF IsUplink
  <2>6. \A d, e \in C2s : m_msgClient'[d] = m_msgClient'[e] /\ m_msgClient'[d] # 0 => d = e
      BY <2>3, <2>5 DEF UplinkInv
  <2>7. \A t \in left' : t \in Conns /\ t < next'
      BY <2>1, <2>4 DEF UplinkInv
  <2> QED BY <2>1, <2>2, <2>5, <2>6, <2>7 DEF UplinkInv
<1> HIDE DEF LinkShape
<1>11. ASSUME NEW u, C2sKickoutUser(c, u) PROVE UplinkInv'
    BY <1>8, <1>11 DEF C2sKickoutUser
<1>12. ASSUME NEW k, C2sOnCloseSession(c, k) PROVE UplinkInv'
    BY <1>8, <1>12 DEF C2sOnCloseSession
<1>13. CASE C2sOnCloseMsg(c) \/ C2sFini(c)
    BY <1>10, <1>13 DEF C2sOnCloseMsg, C2sFini
<1> QED
    BY <1>1, <1>2, <1>3, <1>4, <1>5, <1>6, <1>7, <1>9, <1>11, <1>12, <1>13 DEF C2sNext

\* UplinkInv holds in every state.
LEMMA UplinkInvariance == Spec => []UplinkInv
<1>1. SockInv /\ UplinkInv /\ [Next]_vars => UplinkInv'
  <2> SUFFICES ASSUME SockInv, UplinkInv, [Next]_vars PROVE UplinkInv'
      OBVIOUS
  <2>0. LinkShape
      BY DEF UplinkInv
  <2>1. CASE UNCHANGED vars
      BY <2>1, UplinksStay DEF vars, linkVars, c2sVars, UplinkInv, LinkShape, IsQueue
  <2>2. CASE ServerNext /\ UNCHANGED c2sVars
    <3>1. m_msgClient' = m_msgClient
        BY <2>2 DEF c2sVars
    <3> QED BY <2>0, <2>2, <3>1, ServerShape, UplinksStay
  <2>3. ASSUME NEW c \in C2s, C2sNext(c) PROVE UplinkInv'
      BY <2>3, NodeShape
  <2>4. ASSUME NEW c \in C2s, Connect(c) PROVE UplinkInv'
    <3>1. /\ \E a : Dial(c, Root, a)
          /\ m_msgClient' = [m_msgClient EXCEPT ![c] = next] /\ m_msgClient[c] = 0
          /\ UNCHANGED <<up, down, ident, report, left>>
        BY <2>4 DEF Connect, OnAcceptSession
    <3>2. LinkShape'
        BY <2>0, <3>1 DEF LinkShape
    <3>0. next \in Nat \ {0} /\ next' = next + 1
        BY <3>1 DEF SockInv, Dial
    <3>3. /\ DOMAIN visit = Conns /\ next \in Conns
          /\ \A k \in Conns : k # next => visit'[k] = visit[k]
          /\ visit'[next] = [user |-> c, at |-> Root] \/ visit'[next] = visit[next]
        BY <3>1, BoundsAssumption DEF SockInv, Dial, Conns
    <3>4. \A d \in C2s : m_msgClient'[d] = IF d = c THEN next ELSE m_msgClient[d]
        BY <2>0, <3>1 DEF LinkShape
    <3>5. \A k \in Conns : k \in Nat
        BY DEF Conns
    <3>8. left' = left
        BY <3>1
    <3>6. \A d \in C2s : m_msgClient'[d] # 0 => IsUplink(d, m_msgClient[d])'
      <4> SUFFICES ASSUME NEW d \in C2s, m_msgClient'[d] # 0 PROVE IsUplink(d, m_msgClient[d])'
          OBVIOUS
      <4>1. CASE d = c
          BY <3>0, <3>3, <3>4, <3>8, <4>1 DEF IsUplink, UplinkInv
      <4>2. CASE d # c
        <5>1. IsUplink(d, m_msgClient[d]) /\ m_msgClient'[d] = m_msgClient[d]
            BY <3>4, <4>2 DEF UplinkInv
        <5>2. m_msgClient[d] \in Nat /\ m_msgClient[d] # next /\ m_msgClient[d] < next'
            BY <3>0, <3>5, <5>1 DEF IsUplink
        <5>3. visit'[m_msgClient[d]] = visit[m_msgClient[d]]
            BY <3>3, <5>1, <5>2 DEF IsUplink
        <5> QED BY <3>8, <5>1, <5>2, <5>3 DEF IsUplink
      <4> QED BY <4>1, <4>2
    <3>7. \A d, e \in C2s : m_msgClient'[d] = m_msgClient'[e] /\ m_msgClient'[d] # 0 => d = e
        BY <3>0, <3>4, <3>5 DEF IsUplink, UplinkInv
    <3>9. \A k \in Conns : k >= next' => visit'[k].user = None /\ visit'[k].at = Root
      <4>1. \A k \in Conns : k >= next' => k >= next /\ visit'[k] = visit[k]
          BY <3>0, <3>3, <3>5
      <4> QED BY <4>1 DEF UplinkInv
    <3>10. \A k \in left' : k \in Conns /\ k < next'
        BY <3>0, <3>5, <3>8 DEF UplinkInv
    <3> QED BY <3>2, <3>6, <3>7, <3>9, <3>10 DEF UplinkInv
  <2>5. ASSUME NEW u \in Users, ClientConnect(u) PROVE UplinkInv'
    <3>1. /\ \E a : Dial(u, Root, a)
          /\ UNCHANGED <<up, down, ident, report, left, m_msgClient>>
        BY <2>5 DEF ClientConnect, OnAcceptSession, c2sVars
    <3>2. LinkShape'
        BY <2>0, <3>1 DEF LinkShape
    <3> QED BY <3>1, <3>2, UplinksDial
  <2>6. ASSUME NEW k \in Conns, ClientRecv(k) \/ \E u \in Ids : ClientSend(k, u)
        PROVE  UplinkInv'
    <3>1. UNCHANGED <<next, visit, left, m_msgClient, report>>
        BY <2>6 DEF ClientRecv, ClientSend, c2sVars
    <3>2. CASE ClientRecv(k)
      <4>1. /\ down[k] # <<>> /\ down' = [down EXCEPT ![k] = Tail(@)] /\ up' = up
            /\ DOMAIN ident' = DOMAIN ident
          BY <3>2 DEF ClientRecv, OnFirstPacket
      <4> QED BY <2>0, <3>1, <4>1, PopQueue, UplinksStay DEF LinkShape
    <3>3. ASSUME NEW u, ClientSend(k, u) PROVE UplinkInv'
      <4>1. UNCHANGED <<down, ident>> /\ \E pk : up' = Send(up, pk)
          BY <3>3 DEF ClientSend
      <4> QED BY <2>0, <3>1, <4>1, SendQueue, UplinksStay DEF LinkShape
    <3> QED BY <2>6, <3>2, <3>3
  <2> QED BY <2>1, <2>2, <2>3, <2>4, <2>5, <2>6 DEF Next
<1> QED BY <1>1, InitUplinks, SockInvariance, PTL DEF Spec
-----------------------------------------------------------------------------
(***************************************************************************)
(* What the commands of the server do to the contexts.                     *)
(***************************************************************************)
\* Context y is context x but for the users U that are gone.
Less(y, x, U) == y.base = x.base /\ y.isC2s = x.isC2s /\ y.subs = x.subs \ U

\* The contexts once user u has been taken away.
LEMMA WithoutUser ==
  ASSUME IndexInv, NEW u
  PROVE  /\ DOMAIN CtxWithout(u) = DOMAIN m_session2Ctx \ Dead(u)
         /\ \A s \in DOMAIN CtxWithout(u) : Less(CtxWithout(u)[s], m_session2Ctx[s], {u})
         /\ \A s \in DOMAIN m_session2Ctx :
              u \in m_session2Ctx[s].subs /\ m_session2Ctx[s].base # u =>
                IsSub(u) /\ m_user2Ctx[u] = s
<1> DEFINE S == m_session2Ctx
           C == CtxWithout(u)
<1>1. DOMAIN C = DOMAIN S \ Dead(u)
    BY DEF CtxWithout
<1>2. Agree(S, m_user2Ctx)
    BY DEF IndexInv
<1>3. ASSUME NEW s \in DOMAIN C PROVE Less(C[s], S[s], {u})
  <2>1. C[s] = IF IsSub(u) /\ s = m_user2Ctx[u] THEN [S[s] EXCEPT !.subs = @ \ {u}] ELSE S[s]
      BY <1>1, <1>3 DEF CtxWithout
  <2>2. s \in DOMAIN S /\ s \notin Dead(u) /\ IsCtx(S[s])
      BY <1>1, <1>2 DEF Agree
  <2>3. CASE IsSub(u) /\ s = m_user2Ctx[u]
      BY <2>1, <2>2, <2>3 DEF Less, IsCtx
  <2>4. CASE ~(IsSub(u) /\ s = m_user2Ctx[u])
    <3>1. ASSUME u \in S[s].subs PROVE FALSE
      <4>1. Known(u) /\ m_user2Ctx[u] = s
          BY <1>2, <2>2, <3>1 DEF Agree, Known
      <4>2. IsBase(u)
          BY <2>4, <4>1 DEF IsSub, IsBase
      <4> QED BY <2>2, <4>1, <4>2 DEF Dead
    <3>2. S[s].subs \ {u} = S[s].subs
        BY <3>1
    <3> QED BY <2>1, <2>4, <3>2 DEF Less
  <2> QED BY <2>3, <2>4
<1>4. \A s \in DOMAIN S : u \in S[s].subs /\ S[s].base # u => IsSub(u) /\ m_user2Ctx[u] = s
    BY <1>2 DEF Agree, Known, IsSub, Ctx
<1> QED BY <1>1, <1>3, <1>4

\* The command about a user that is executed.
LEMMA AddBaseEffect ==
  ASSUME IndexInv, AddBaseUser, NEW s, NEW u, s = Head(task).conn, u = Head(task).user
  PROVE  /\ Waiting(1) /\ Head(task) = task[1] /\ s \notin DOMAIN m_session2Ctx
         /\ DOMAIN m_session2Ctx' = (DOMAIN m_session2Ctx \ Dead(u)) \cup {s}
         /\ m_session2Ctx'[s].base = u /\ m_session2Ctx'[s].isC2s = (u \in C2s)
         /\ m_session2Ctx'[s].subs = {}
         /\ \A t \in DOMAIN m_session2Ctx' \ {s} :
              t \in DOMAIN m_session2Ctx /\ Less(m_session2Ctx'[t], m_session2Ctx[t], {u})
<1> DEFINE C == CtxWithout(u)
<1>1. /\ task # <<>> /\ Head(task).cmd = "accept"
      /\ m_session2Ctx' = [t \in DOMAIN C \cup {s} |->
           IF t = s THEN [base |-> u, subs |-> {}, isC2s |-> u \in C2s] ELSE C[t]]
    BY DEF AddBaseUser, Command
<1>2. 1 \in DOMAIN task /\ Head(task) = task[1]
    BY <1>1, TailTask DEF IndexInv, TaskIsSeq
<1>3. Waiting(1) /\ s \notin DOMAIN m_session2Ctx
    BY <1>1, <1>2 DEF Waiting, IndexInv, Fresh
<1>4. DOMAIN C = DOMAIN m_session2Ctx \ Dead(u)
      /\ \A t \in DOMAIN C : Less(C[t], m_session2Ctx[t], {u})
    BY WithoutUser
<1> HIDE DEF C
<1>5. m_session2Ctx'[s] = [base |-> u, subs |-> {}, isC2s |-> u \in C2s]
    BY <1>1
<1>6. \A t \in DOMAIN C : t # s /\ m_session2Ctx'[t] = C[t]
    BY <1>1, <1>3, <1>4
<1>7. DOMAIN m_session2Ctx' = DOMAIN C \cup {s}
    BY <1>1
<1> QED BY <1>2, <1>3, <1>4, <1>5, <1>6, <1>7

\* The contexts once a C2S has logged its client u in: u goes from everywhere else.
LEMMA AddSubEffect ==
  ASSUME IndexInv, AddSubUser, NEW c, c = Head(task).c2s, NEW u, u = Head(task).msg.user,
         NEW s, s = m_user2Ctx[c],
         u # c, Known(c), Ctx(c).isC2s, Ctx(c).base = c
  PROVE  /\ s \in DOMAIN m_session2Ctx' /\ m_session2Ctx[s].base = c
         /\ DOMAIN m_session2Ctx' = DOMAIN m_session2Ctx \ Dead(u)
         /\ \A t \in DOMAIN m_session2Ctx' :
              /\ t # s => Less(m_session2Ctx'[t], m_session2Ctx[t], {u})
              /\ m_session2Ctx'[t].base = m_session2Ctx[t].base
              /\ m_session2Ctx'[t].isC2s = m_session2Ctx[t].isC2s
         /\ m_session2Ctx'[s].subs = m_session2Ctx[s].subs \cup {u}
<1> DEFINE C == CtxWithout(u)
<1>1. m_session2Ctx' = [C EXCEPT ![s].subs = @ \cup {u}]
    BY DEF AddSubUser
<1>2. DOMAIN C = DOMAIN m_session2Ctx \ Dead(u)
      /\ \A t \in DOMAIN C : Less(C[t], m_session2Ctx[t], {u})
    BY WithoutUser
<1>3. s \in DOMAIN m_session2Ctx /\ m_session2Ctx[s].base = c
    BY DEF IndexInv, Agree, Known, Ctx
<1>4. s \in DOMAIN C
    BY <1>3 DEF CtxWithout, Dead, IsBase, Ctx, Known
<1>5. IsCtx(C[s])
  <2>1. Agree(C, UserWithout(u))
      BY RemoveAgrees DEF IndexInv
  <2> HIDE DEF C
  <2> QED BY <1>4, <2>1 DEF Agree
<1> HIDE DEF C
<1>6. m_session2Ctx'[s] = [C[s] EXCEPT !.subs = C[s].subs \cup {u}]
      /\ \A t \in DOMAIN C \ {s} : m_session2Ctx'[t] = C[t]
    BY <1>1, <1>4
<1>7. /\ m_session2Ctx'[s].base = C[s].base /\ m_session2Ctx'[s].isC2s = C[s].isC2s
      /\ m_session2Ctx'[s].subs = C[s].subs \cup {u}
    BY <1>5, <1>6 DEF IsCtx
<1>8. DOMAIN m_session2Ctx' = DOMAIN C
    BY <1>1
<1>9. C[s].subs \cup {u} = m_session2Ctx[s].subs \cup {u}
    BY <1>2, <1>4 DEF Less
<1>10. \A t \in DOMAIN C : C[t].base = m_session2Ctx[t].base /\ C[t].isC2s = m_session2Ctx[t].isC2s
    BY <1>2 DEF Less
<1>11. \A t \in DOMAIN C : t # s => Less(m_session2Ctx'[t], m_session2Ctx[t], {u})
    BY <1>2, <1>6
<1>12. \A t \in DOMAIN C : /\ m_session2Ctx'[t].base = m_session2Ctx[t].base
                            /\ m_session2Ctx'[t].isC2s = m_session2Ctx[t].isC2s
  <2>1. \A t \in DOMAIN C : t # s => m_session2Ctx'[t] = C[t]
      BY <1>6
  <2> QED BY <1>4, <1>7, <1>10, <2>1
<1> QED BY <1>2, <1>3, <1>4, <1>7, <1>8, <1>9, <1>11, <1>12

\* The commands that only remove: who goes, with which sessions, what is sent.
LEMMA RemoveEffect ==
  ASSUME IndexInv, ClientLogout \/ AsyncOnCloseSession \/ AsyncKickoutUser
  PROVE  /\ rsp = {} /\ rsp' = {} /\ UNCHANGED <<next, visit, left, alive>>
         /\ task # <<>> /\ task' = Tail(task)
         /\ \/ m_session2Ctx' = m_session2Ctx
            \/ \E u : m_session2Ctx' = CtxWithout(u)
<1>1. CASE AsyncKickoutUser
    BY <1>1 DEF AsyncKickoutUser, Command
<1>2. CASE ClientLogout
  <2>1. /\ rsp = {} /\ rsp' = {} /\ UNCHANGED <<next, visit, left, alive>>
        /\ task # <<>> /\ task' = Tail(task)
      BY <1>2 DEF ClientLogout, Command, Nothing, linkVars
  <2> DEFINE u == Head(task).msg.user
             c == Head(task).c2s
  <2>2. CASE u # c /\ Known(u) /\ Ctx(u).isC2s /\ Ctx(u).base = c
    <3>1. IsSub(u)
        BY <2>2 DEF IsSub
    <3>2. m_session2Ctx' = CtxWithout(u)
        BY <1>2, <2>2, <3>1, LogoutRemoves DEF ClientLogout
    <3> QED BY <2>1, <3>2
  <2>3. CASE ~(u # c /\ Known(u) /\ Ctx(u).isC2s /\ Ctx(u).base = c)
    <3>1. m_session2Ctx' = m_session2Ctx
        BY <1>2, <2>3 DEF ClientLogout, Nothing
    <3> QED BY <2>1, <3>1
  <2> QED BY <2>2, <2>3
<1>3. CASE AsyncOnCloseSession
  <2>1. /\ rsp = {} /\ rsp' = {} /\ UNCHANGED <<next, visit, left, alive>>
        /\ task # <<>> /\ task' = Tail(task)
      BY <1>3 DEF AsyncOnCloseSession, Command, Nothing, linkVars
  <2> DEFINE s == Head(task).conn
             b == m_session2Ctx[s].base
  <2>2. CASE s \in DOMAIN m_session2Ctx
    <3>1. m_session2Ctx' = CtxWithout(b)
        BY <1>3, <2>2, CloseRemoves DEF AsyncOnCloseSession, IndexInv
    <3> QED BY <2>1, <3>1
  <2>3. CASE s \notin DOMAIN m_session2Ctx
    <3>1. m_session2Ctx' = m_session2Ctx
        BY <1>3, <2>3 DEF AsyncOnCloseSession, Nothing
    <3> QED BY <2>1, <3>1
  <2> QED BY <2>2, <2>3
<1> QED BY <1>1, <1>2, <1>3
-----------------------------------------------------------------------------
(***************************************************************************)
(* What a step does to the packets of one connection: the oldest go, and   *)
(* one may come.                                                           *)
(***************************************************************************)
Slid(a, r) == \E n \in Nat : \A i \in DOMAIN a : i \in Nat /\ i + n \in DOMAIN r /\ a[i] = r[i + n]
SlidNew(a, r, e) ==
  \E n \in Nat : \A i \in DOMAIN a :
    /\ i \in Nat
    /\ \/ i + n \in DOMAIN r /\ a[i] = r[i + n]
       \/ i + n = Len(r) + 1 /\ a[i] = e

\* The ways a queue slides: it stays, it is emptied, its oldest packet goes.
LEMMA SlidForms ==
  ASSUME NEW r, IsSeq(r), NEW e
  PROVE  /\ Slid(r, r) /\ Slid(<<>>, r) /\ (r # <<>> => Slid(Tail(r), r))
         /\ SlidNew(Append(r, e), r, e) /\ SlidNew(Append(<<>>, e), r, e)
         /\ r # <<>> => SlidNew(Append(Tail(r), e), r, e)
<1>1. Len(r) \in Nat /\ DOMAIN r = 1..Len(r)
    BY AppendIsSeq
<1>2. Slid(r, r)
  <2>1. \A i \in DOMAIN r : i \in Nat /\ i + 0 \in DOMAIN r /\ r[i] = r[i + 0]
      BY <1>1
  <2> QED BY <2>1 DEF Slid
<1>3. Slid(<<>>, r)
    BY DEF Slid
<1>4. ASSUME r # <<>> PROVE Slid(Tail(r), r) /\ SlidNew(Append(Tail(r), e), r, e)
  <2> DEFINE a == Tail(r)
             b == Append(a, e)
  <2>1. /\ IsSeq(a) /\ Len(r) \in Nat \ {0} /\ DOMAIN a = 1..(Len(r) - 1)
        /\ Len(a) = Len(r) - 1 /\ \A i \in 1..(Len(r) - 1) : a[i] = r[i + 1]
      BY <1>4, TailIsSeq
  <2>2. /\ DOMAIN b = 1..(Len(a) + 1) /\ \A i \in 1..Len(a) : b[i] = a[i]
        /\ b[Len(a) + 1] = e
      BY <2>1, AppendIsSeq
  <2> HIDE DEF a, b
  <2>3. \A i \in DOMAIN a : i \in Nat /\ i + 1 \in DOMAIN r /\ a[i] = r[i + 1]
      BY <1>1, <2>1
  <2>4. \A i \in DOMAIN b : i \in Nat /\ \/ i + 1 \in DOMAIN r /\ b[i] = r[i + 1]
                                         \/ i + 1 = Len(r) + 1 /\ b[i] = e
      BY <1>1, <2>1, <2>2
  <2>5. Slid(a, r) /\ SlidNew(b, r, e)
      BY <2>3, <2>4 DEF Slid, SlidNew
  <2> QED BY <2>5 DEF a, b
<1>5. SlidNew(Append(r, e), r, e)
  <2> DEFINE b == Append(r, e)
  <2>1. /\ DOMAIN b = 1..(Len(r) + 1) /\ \A i \in 1..Len(r) : b[i] = r[i]
        /\ b[Len(r) + 1] = e
      BY AppendIsSeq
  <2> HIDE DEF b
  <2>2. \A i \in DOMAIN b : i \in Nat /\ \/ i + 0 \in DOMAIN r /\ b[i] = r[i + 0]
                                         \/ i + 0 = Len(r) + 1 /\ b[i] = e
      BY <1>1, <2>1
  <2>3. SlidNew(b, r, e)
      BY <2>2 DEF SlidNew
  <2> QED BY <2>3 DEF b
<1>6. SlidNew(Append(<<>>, e), r, e)
  <2> DEFINE a == <<>>
             b == Append(a, e)
  <2>1. IsSeq(a) /\ Len(a) = 0
      BY EmptyIsSeq
  <2>2. DOMAIN b = 1..(Len(a) + 1) /\ b[Len(a) + 1] = e
      BY <2>1, AppendIsSeq
  <2> HIDE DEF a, b
  <2>3. \A i \in DOMAIN b : i \in Nat /\ i + Len(r) = Len(r) + 1 /\ b[i] = e
      BY <1>1, <2>1, <2>2
  <2>4. SlidNew(b, r, e)
      BY <1>1, <2>3 DEF SlidNew
  <2> QED BY <2>4 DEF a, b
<1> QED BY <1>2, <1>3, <1>4, <1>5, <1>6

\* Every packet under way was under way before, or is the one that has come.
LEMMA SlidFrom ==
  ASSUME NEW a, NEW r, NEW e
  PROVE  /\ Slid(a, r) => \A i \in DOMAIN a : \E j \in DOMAIN r : a[i] = r[j]
         /\ SlidNew(a, r, e) => \A i \in DOMAIN a : a[i] = e \/ \E j \in DOMAIN r : a[i] = r[j]
BY DEF Slid, SlidNew

(***************************************************************************)
(* What the server sends, to whom.                                         *)
(***************************************************************************)
ServerSays(t, e) ==
  /\ t \notin left
  /\ \/ e.type \in {"data", "kickout", "login_error"} /\ t \in DOMAIN m_session2Ctx
     \/ \E r \in rsp : t = r.conn /\ e = r.msg /\ rsp' = {}
ServerDown(t) ==
  \/ Slid(down'[t], down[t])
  \/ \E e : ServerSays(t, e) /\ SlidNew(down'[t], down[t], e)

ServerEffects ==
  /\ \A t \in Conns : ServerDown(t) /\ Slid(up'[t], up[t])
  /\ \A t \in Conns : visit[t].user \in C2s => ident'[t] = ident[t]
  /\ \A t \in Conns : ident'[t] = ident[t] \/ ident'[t] = None

\* What SendDown does to each connection.
LEMMA SendDownEffect ==
  ASSUME IsQueue(down), NEW pk, SendDown(pk),
         \A t \in DOMAIN pk \ left : ServerSays(t, pk[t])
  PROVE  \A t \in Conns : ServerDown(t)
<1> SUFFICES ASSUME NEW t \in Conns PROVE ServerDown(t)
    OBVIOUS
<1>1. \/ down'[t] = down[t]
      \/ t \in DOMAIN pk \ left /\ down'[t] = Append(down[t], pk[t])
    BY SendDownQueue
<1>2. IsSeq(down[t])
    BY DEF IsQueue
<1>3. Slid(down[t], down[t]) /\ SlidNew(Append(down[t], pk[t]), down[t], pk[t])
    BY <1>2, SlidForms
<1> QED BY <1>1, <1>3 DEF ServerDown

\* What DeleteSessions does to each connection.
LEMMA DeleteEffect ==
  ASSUME LinkShape, NEW S, NEW pk, DeleteSessions(S, pk),
         \A t \in DOMAIN pk \ left : ServerSays(t, pk[t])
  PROVE  /\ \A t \in Conns : ServerDown(t) /\ Slid(up'[t], up[t])
         /\ \A t \in Conns : visit[t].user \in C2s => ident'[t] = ident[t]
         /\ \A t \in Conns : ident'[t] = ident[t] \/ ident'[t] = None
<1>1. /\ \A t \in Conns : /\ up'[t] = IF t \in S THEN <<>> ELSE up[t]
                          /\ ident'[t] = IF t \in Clients(S) THEN None ELSE ident[t]
      /\ \A t \in Conns : LET q == IF t \in Clients(S) THEN <<>> ELSE down[t] IN
           \/ down'[t] = q
           \/ t \in DOMAIN pk \ left /\ down'[t] = Append(q, pk[t])
    BY DeleteQueue DEF LinkShape
<1>2. \A t \in Conns : IsSeq(down[t]) /\ IsSeq(up[t])
    BY DEF LinkShape, IsQueue
<1>3. ASSUME NEW t \in Conns PROVE ServerDown(t)
  <2>1. \/ down'[t] \in {down[t], <<>>}
        \/ t \in DOMAIN pk \ left /\ down'[t] \in {Append(down[t], pk[t]), Append(<<>>, pk[t])}
      BY <1>1
  <2>2. /\ Slid(down[t], down[t]) /\ SlidNew(Append(down[t], pk[t]), down[t], pk[t])
        /\ Slid(<<>>, down[t]) /\ SlidNew(Append(<<>>, pk[t]), down[t], pk[t])
      BY <1>2, SlidForms
  <2> QED BY <2>1, <2>2 DEF ServerDown
<1>4. \A t \in Conns : Slid(up'[t], up[t])
  <2>1. \A t \in Conns : Slid(up[t], up[t]) /\ Slid(<<>>, up[t])
      BY <1>2, SlidForms
  <2> QED BY <1>1, <2>1
<1>5. \A t \in Conns : visit[t].user \in C2s => t \notin Clients(S)
    BY DEF Clients
<1> QED BY <1>1, <1>3, <1>4, <1>5

\* NotifyKickout goes to a connection the server has.
LEMMA NotifySays ==
  ASSUME IndexInv, NEW u, NEW told
  PROVE  \A t \in DOMAIN Notify(u, told) \ left :
           ServerSays(t, Notify(u, told)[t]) /\ IsSub(u) /\ told /\ t = m_user2Ctx[u]
             /\ Notify(u, told)[t] = Kickout(u)
BY DEF Notify, ServerSays, IsSub, Known, IndexInv, Agree, Kickout

\* What a step of the server does to the packets and numbers of each connection.
LEMMA ServerEffect ==
  ASSUME IndexInv, UplinkInv, ServerNext, UNCHANGED c2sVars
  PROVE  ServerEffects
<1>0. LinkShape /\ IsQueue(down) /\ IsQueue(up)
    BY DEF UplinkInv, LinkShape
<1>a. \A t \in Conns : Slid(down[t], down[t]) /\ Slid(up[t], up[t])
    BY <1>0, SlidForms DEF IsQueue
<1>b. ASSUME UNCHANGED <<up, down, ident>> PROVE ServerEffects
    BY <1>a, <1>b DEF ServerDown, ServerEffects
<1>c. ASSUME NEW pk, SendDown(pk), \A t \in DOMAIN pk \ left : ServerSays(t, pk[t]),
             UNCHANGED <<up, ident>>
      PROVE  ServerEffects
    BY <1>0, <1>a, <1>c, SendDownEffect DEF ServerEffects
<1>d. ASSUME NEW S, NEW pk, DeleteSessions(S, pk),
             \A t \in DOMAIN pk \ left : ServerSays(t, pk[t])
      PROVE  ServerEffects
    BY <1>0, <1>d, DeleteEffect DEF ServerEffects
<1>1. CASE \/ \E u : KickoutUser(u)
           \/ \E s : OnCloseSession(s)
           \/ RejectSession \/ ClientLogout \/ DrainCommand \/ Fini
    BY <1>1, <1>b DEF KickoutUser, OnCloseSession, RejectSession, ClientLogout, DrainCommand,
                      Fini, Nothing, linkVars
<1>2. ASSUME NEW u, SendMsg(u) PROVE ServerEffects
  <2> DEFINE pk == [s \in {m_user2Ctx[u]} |-> Data(Root, u)]
  <2>1. SendDown(pk) /\ UNCHANGED <<up, ident>> /\ Known(u)
      BY <1>2 DEF SendMsg
  <2>2. \A t \in DOMAIN pk \ left : ServerSays(t, pk[t])
      BY <2>1 DEF ServerSays, Known, IndexInv, Agree, Data
  <2> HIDE DEF pk
  <2> QED BY <2>1, <2>2, <1>c
<1>3. ASSUME NEW s \in Conns, OnRecvSession(s) PROVE ServerEffects
  <2> DEFINE m == Head(up[s])
             ctx == m_session2Ctx[s]
             ok == m.src = ctx.base \/ m.src \in ctx.subs
             pk == [t \in IF ok /\ m.type = "data" /\ Known(m.dst)
                            THEN {m_user2Ctx[m.dst]} ELSE {} |-> m]
  <2>1. /\ SendDown(pk) /\ UNCHANGED ident /\ up[s] # <<>>
        /\ up' = [up EXCEPT ![s] = Tail(@)]
      BY <1>3 DEF OnRecvSession
  <2>2. \A t \in DOMAIN pk \ left : ServerSays(t, pk[t])
      BY DEF ServerSays, Known, IndexInv, Agree
  <2> HIDE DEF pk
  <2>3. \A t \in Conns : ServerDown(t)
      BY <1>0, <2>1, <2>2, SendDownEffect
  <2>4. \A t \in Conns : up'[t] = IF t = s THEN Tail(up[t]) ELSE up[t]
      BY <1>0, <2>1, PopQueue
  <2>5. Slid(Tail(up[s]), up[s])
      BY <1>0, <2>1, SlidForms DEF IsQueue
  <2>6. \A t \in Conns : Slid(up'[t], up[t])
      BY <1>a, <2>4, <2>5
  <2> QED BY <2>1, <2>3, <2>6 DEF ServerEffects
<1>4. CASE AddBaseUser
  <2> DEFINE u == Head(task).user
             pk == Notify(u, TRUE)
  <2>1. DeleteSessions(Dead(u), pk)
      BY <1>4 DEF AddBaseUser
  <2>2. \A t \in DOMAIN pk \ left : ServerSays(t, pk[t])
      BY NotifySays
  <2> HIDE DEF pk, u
  <2> QED BY <2>1, <2>2, <1>d
<1>5. CASE AsyncKickoutUser
  <2> DEFINE u == Head(task).user
             pk == Notify(u, TRUE)
  <2>1. DeleteSessions(Dead(u), pk)
      BY <1>5 DEF AsyncKickoutUser
  <2>2. \A t \in DOMAIN pk \ left : ServerSays(t, pk[t])
      BY NotifySays
  <2> HIDE DEF pk, u
  <2> QED BY <2>1, <2>2, <1>d
<1>6. CASE AddSubUser
  <2> DEFINE u == Head(task).msg.user
             told == Known(u) /\ Head(task).c2s # Ctx(u).base
             pk == Notify(u, told)
  <2>1. DeleteSessions(Dead(u), pk) \/ UNCHANGED <<up, down, ident>>
      BY <1>6 DEF AddSubUser, Nothing, linkVars
  <2>2. \A t \in DOMAIN pk \ left : ServerSays(t, pk[t])
      BY NotifySays
  <2> HIDE DEF pk, u
  <2> QED BY <2>1, <2>2, <1>b, <1>d
<1>7. CASE LoginRefused
  <2> DEFINE pk == [s \in {Head(task).conn} \cap DOMAIN m_session2Ctx |->
                      LoginError(Head(task).msg.index)]
  <2>1. SendDown(pk) /\ UNCHANGED <<up, ident>>
      BY <1>7 DEF LoginRefused
  <2>2. \A t \in DOMAIN pk \ left : ServerSays(t, pk[t])
      BY DEF ServerSays, LoginError
  <2> HIDE DEF pk
  <2> QED BY <2>1, <2>2, <1>c
<1>8. CASE AsyncOnCloseSession \/ FiniSessions
  <2>1. UNCHANGED <<up, down, ident>> \/ \E S : DeleteSessions(S, <<>>)
      BY <1>8 DEF AsyncOnCloseSession, FiniSessions, Nothing, linkVars
  <2>2. \A t \in DOMAIN <<>> \ left : ServerSays(t, (<<>>)[t])
      OBVIOUS
  <2> QED BY <2>1, <2>2, <1>b, <1>d
<1>9. CASE Respond
  <2>1. PICK r \in rsp : SendDown([s \in {r.conn} |-> r.msg])
      BY <1>9 DEF Respond
  <2>2. UNCHANGED <<up, ident>> /\ rsp' = {}
      BY <1>9 DEF Respond
  <2> DEFINE pk == [s \in {r.conn} |-> r.msg]
  <2>3. \A t \in DOMAIN pk \ left : ServerSays(t, pk[t])
      BY <2>2 DEF ServerSays
  <2>4. SendDown(pk)
      BY <2>1
  <2> HIDE DEF pk
  <2> QED BY <2>2, <2>3, <2>4, <1>c
<1> QED
    BY <1>1, <1>2, <1>3, <1>4, <1>5, <1>6, <1>7, <1>8, <1>9 DEF ServerNext
-----------------------------------------------------------------------------
(***************************************************************************)
(* What a node sends to the server and to its clients.                     *)
(***************************************************************************)
Departs(c, u) ==
  u \in report[c] \/ \E k \in DOMAIN m_session2User[c] :
                       m_session2User[c][k] = u /\ k \notin AtNode(c)'
NodeSays(c, e) ==
  LET s == m_msgClient[c] IN
  /\ s # 0 /\ ident[s] # None
  /\ \/ e.type = "data"
     \/ e.type = "logout" /\ e.src = ident[s] /\ Departs(c, e.user)
     \/ /\ e.type = "login" /\ e.index = next /\ e.user \in Users /\ next \in Conns
        /\ next \in DOMAIN m_timerId2Info'[c]
        /\ visit'[next].user = e.user /\ visit'[next].at = c
NodeUp(c, t) ==
  \/ Slid(up'[t], up[t])
  \/ \E e : t = m_msgClient[c] /\ NodeSays(c, e) /\ SlidNew(up'[t], up[t], e)
NodeDown(c, t) ==
  \/ Slid(down'[t], down[t])
  \/ \E e : t \in AtNode(c) /\ e.type \in {"data", "response"} /\ SlidNew(down'[t], down[t], e)
NodeIdent(c, t) ==
  \/ ident'[t] = ident[t]
  \/ ident'[t] = None /\ t \in AtNode(c)
  \/ ident'[t] = None /\ t = m_msgClient[c] /\ m_msgClient'[c] = 0
  \/ t = m_msgClient[c] /\ ident[t] = None /\ down[t] # <<>>
NodeEffects(c) == \A t \in Conns : NodeUp(c, t) /\ NodeDown(c, t) /\ NodeIdent(c, t)

\* The uplink of a node is none of its clients' connections.
LEMMA UplinkApart ==
  ASSUME SockInv, UplinkInv, NEW c \in C2s, NEW d \in C2s, NEW k \in AtNode(d)
  PROVE  k # m_msgClient[c] /\ k \in Conns /\ 0 \notin Conns
<1>1. visit[k].at = d /\ k \in Conns /\ 0 \notin Conns
    BY DEF SockInv, Conns
<1>2. m_msgClient[c] # 0 => visit[m_msgClient[c]].at = Root
    BY DEF UplinkInv, IsUplink
<1> QED BY <1>1, <1>2, NamesAssumption

\* Packets are taken or discarded, and pk is sent.
Shorter(d, q) ==
  IsQueue(d) /\ \A t \in Conns : \/ d[t] = q[t] \/ d[t] = <<>>
                                 \/ q[t] # <<>> /\ d[t] = Tail(q[t])

\* A queue that got shorter has slid, and Send adds one packet to it.
LEMMA QueueSlides ==
  ASSUME NEW q, IsQueue(q), NEW d, Shorter(d, q), NEW pk
  PROVE  /\ \A t \in Conns : Slid(d[t], q[t])
         /\ \A t \in Conns : \/ Slid(Send(d, pk)[t], q[t])
                             \/ t \in DOMAIN pk /\ SlidNew(Send(d, pk)[t], q[t], pk[t])
<1>1. \A t \in Conns : Send(d, pk)[t] = d[t] \/ (t \in DOMAIN pk /\ Send(d, pk)[t] = Append(d[t], pk[t]))
    BY SendQueue DEF Shorter
<1>2. ASSUME NEW t \in Conns PROVE Slid(d[t], q[t]) /\ SlidNew(Append(d[t], pk[t]), q[t], pk[t])
  <2>1. /\ Slid(q[t], q[t]) /\ SlidNew(Append(q[t], pk[t]), q[t], pk[t])
        /\ Slid(<<>>, q[t]) /\ SlidNew(Append(<<>>, pk[t]), q[t], pk[t])
        /\ q[t] # <<>> => /\ Slid(Tail(q[t]), q[t])
                          /\ SlidNew(Append(Tail(q[t]), pk[t]), q[t], pk[t])
      BY SlidForms DEF IsQueue
  <2>2. \/ d[t] = q[t] \/ d[t] = <<>>
        \/ q[t] # <<>> /\ d[t] = Tail(q[t])
      BY DEF Shorter
  <2> QED BY <2>1, <2>2
<1> QED BY <1>1, <1>2

\* The ways queues get shorter.
LEMMA ShorterForms ==
  ASSUME NEW q, IsQueue(q)
  PROVE  /\ Shorter(q, q)
         /\ \A S : Shorter(Discard(q, S), q)
         /\ \A t \in Conns : q[t] # <<>> => Shorter([q EXCEPT ![t] = Tail(@)], q)
<1>1. Shorter(q, q)
    BY DEF Shorter
<1>2. ASSUME NEW S PROVE Shorter(Discard(q, S), q)
    BY DiscardQueue DEF Shorter
<1>3. ASSUME NEW t \in Conns, q[t] # <<>> PROVE Shorter([q EXCEPT ![t] = Tail(@)], q)
  <2> DEFINE d == [q EXCEPT ![t] = Tail(@)]
  <2>1. IsQueue(d) /\ \A k \in Conns : d[k] = IF k = t THEN Tail(q[k]) ELSE q[k]
      BY <1>3, PopQueue
  <2> HIDE DEF d
  <2>2. Shorter(d, q)
      BY <1>3, <2>1 DEF Shorter
  <2> QED BY <2>2 DEF d
<1> QED BY <1>1, <1>2, <1>3

\* The packets of the uplink, less the next one.
LEMMA PoppedShorter ==
  ASSUME UplinkInv, NEW c \in C2s, m_msgClient[c] # 0, down[m_msgClient[c]] # <<>>, NEW S
  PROVE  /\ Shorter(Popped(c), down)
         /\ S \subseteq AtNode(c) /\ SockInv => Shorter(Discard(Popped(c), S), down)
<1>1. m_msgClient[c] \in Conns /\ IsQueue(down)
    BY DEF UplinkInv, IsUplink, LinkShape
<1>2. Shorter(Popped(c), down)
    BY <1>1, ShorterForms DEF Popped
<1>3. ASSUME S \subseteq AtNode(c), SockInv PROVE Shorter(Discard(Popped(c), S), down)
  <2> DEFINE p == Popped(c)
             d == Discard(p, S)
  <2>1. Shorter(p, down)
      BY <1>2
  <2> HIDE DEF p
  <2>2. IsQueue(d) /\ \A k \in Conns : d[k] = IF k \in S THEN <<>> ELSE p[k]
      BY <2>1, DiscardQueue DEF Shorter
  <2> HIDE DEF d
  <2>3. Shorter(d, down)
      BY <2>1, <2>2 DEF Shorter
  <2> QED BY <2>3 DEF d, p
<1> QED BY <1>2, <1>3

\* A node sends only to its own clients, never a login_ok.
LEMMA NodeDownEffect ==
  ASSUME UplinkInv, NEW c, NEW d, Shorter(d, down), NEW pk,
         DOMAIN pk \subseteq AtNode(c), \A t \in DOMAIN pk : pk[t].type \in {"data", "response"},
         down' = Send(d, pk)
  PROVE  \A t \in Conns : NodeDown(c, t)
<1>0. IsQueue(down)
    BY DEF UplinkInv, LinkShape
<1>1. /\ \A t \in Conns : Slid(d[t], down[t])
      /\ \A t \in Conns : \/ Slid(Send(d, pk)[t], down[t])
                          \/ t \in DOMAIN pk /\ SlidNew(Send(d, pk)[t], down[t], pk[t])
    BY <1>0, QueueSlides
<1> QED BY <1>1 DEF NodeDown

\* A step of a node that sends nothing.
LEMMA NodeQueuesShrink ==
  ASSUME UplinkInv, NEW c
  PROVE  /\ Shorter(down', down) => \A t \in Conns : NodeDown(c, t)
         /\ Shorter(up', up) => \A t \in Conns : NodeUp(c, t)
<1>0. IsQueue(down) /\ IsQueue(up)
    BY DEF UplinkInv, LinkShape
<1>1. ASSUME Shorter(down', down) PROVE \A t \in Conns : Slid(down'[t], down[t])
    BY <1>0, <1>1, QueueSlides
<1>2. ASSUME Shorter(up', up) PROVE \A t \in Conns : Slid(up'[t], up[t])
    BY <1>0, <1>2, QueueSlides
<1> QED BY <1>1, <1>2 DEF NodeDown, NodeUp

\* A node speaks up its own uplink.
LEMMA NodeUpEffect ==
  ASSUME UplinkInv, NEW c, NEW d, Shorter(d, up), NEW pk,
         \A t \in DOMAIN pk : t = m_msgClient[c] /\ NodeSays(c, pk[t]),
         up' = Send(d, pk)
  PROVE  \A t \in Conns : NodeUp(c, t)
<1>0. IsQueue(up)
    BY DEF UplinkInv, LinkShape
<1>1. /\ \A t \in Conns : Slid(d[t], up[t])
      /\ \A t \in Conns : \/ Slid(Send(d, pk)[t], up[t])
                          \/ t \in DOMAIN pk /\ SlidNew(Send(d, pk)[t], up[t], pk[t])
    BY <1>0, QueueSlides
<1> QED BY <1>1 DEF NodeUp

\* What closing connections S of node c does to each connection.
LEMMA CloseEffect ==
  ASSUME UplinkInv, NEW c \in C2s, NEW S, S \subseteq AtNode(c), NEW pk, Close(S, pk),
         \A t \in DOMAIN pk : t = m_msgClient[c] /\ NodeSays(c, pk[t])
  PROVE  \A t \in Conns : NodeUp(c, t) /\ NodeIdent(c, t)
<1>1. IsQueue(up) /\ DOMAIN ident = Conns
    BY DEF UplinkInv, LinkShape
<1>2. \A t \in Conns : ident'[t] = IF t \in S THEN None ELSE ident[t]
    BY <1>1, CloseQueue
<1>3. Shorter(Discard(up, S), up) /\ up' = Send(Discard(up, S), pk)
    BY <1>1, ShorterForms DEF Close
<1>4. \A t \in Conns : NodeUp(c, t)
    BY <1>3, NodeUpEffect
<1> QED BY <1>2, <1>4 DEF NodeIdent

\* A logout that node c reports.
LEMMA ReportSays ==
  ASSUME UplinkInv, NEW c \in C2s, NEW u, Departs(c, u), ident[m_msgClient[c]] # None \/ m_msgClient[c] = 0
  PROVE  /\ DOMAIN ReportLogout(c, u) = {m_msgClient[c]} \ {0}
         /\ \A t \in DOMAIN ReportLogout(c, u) :
           /\ t = m_msgClient[c] /\ NodeSays(c, ReportLogout(c, u)[t])
           /\ ReportLogout(c, u)[t] = Logout(ident[t], u)
BY DEF ReportLogout, NodeSays, Logout

\* A client of node c goes; k is its connection.
LEMMA LogoffEffect ==
  ASSUME C2sInv, SockInv, UplinkInv, PlaceInv, NEW c \in C2s, NEW k, NEW u,
         k \in DOMAIN m_session2User[c], m_session2User[c][k] = u, Logoff(c, k, u)
  PROVE  NodeEffects(c)
<1>1. /\ m_session2User' = [m_session2User EXCEPT ![c] = Erase(@, {k})]
      /\ Close({k}, ReportLogout(c, u)) /\ down' = Discard(down, {k})
      /\ m_timerId2Info' = m_timerId2Info
    BY DEF Logoff
<1>2. k \in AtNode(c) /\ k \notin AtNode(c)'
  <2>1. k \notin DOMAIN m_timerId2Info[c] /\ DOMAIN m_session2User = C2s
      BY DEF C2sInv, NodeInv, TablesOfNodes
  <2>2. DOMAIN m_session2User'[c] = DOMAIN m_session2User[c] \ {k}
      BY <1>1, <2>1 DEF Erase
  <2> QED BY <1>1, <2>1, <2>2 DEF AtNode
<1>3. Departs(c, u)
    BY <1>2 DEF Departs
<1>4. m_msgClient[c] # 0 /\ ident[m_msgClient[c]] # None
    BY <1>2 DEF PlaceInv, Linked
<1>5. \A t \in DOMAIN ReportLogout(c, u) : t = m_msgClient[c] /\ NodeSays(c, ReportLogout(c, u)[t])
    BY <1>3, <1>4, ReportSays
<1>6. \A t \in Conns : NodeUp(c, t) /\ NodeIdent(c, t)
    BY <1>1, <1>2, <1>5, CloseEffect
<1>7. \A t \in Conns : NodeDown(c, t)
  <2>1. Shorter(Discard(down, {k}), down)
      BY ShorterForms DEF UplinkInv, LinkShape
  <2> QED BY <1>1, <2>1, NodeQueuesShrink
<1> QED BY <1>6, <1>7 DEF NodeEffects

\* What a step of a node does to the packets and numbers of each connection.
LEMMA NodeEffect ==
  ASSUME C2sInv, SockInv, UplinkInv, PlaceInv, NEW c \in C2s, C2sNext(c)
  PROVE  NodeEffects(c)
<1>0. IsQueue(up) /\ IsQueue(down) /\ Shorter(up, up) /\ Shorter(down, down)
    BY ShorterForms DEF UplinkInv, LinkShape
<1>a. /\ up' = up => \A t \in Conns : NodeUp(c, t)
      /\ down' = down => \A t \in Conns : NodeDown(c, t)
      /\ ident' = ident => \A t \in Conns : NodeIdent(c, t)
    BY <1>0, NodeQueuesShrink DEF NodeIdent
<1>b. \A t \in DOMAIN <<>> : t = m_msgClient[c] /\ NodeSays(c, (<<>>)[t])
    OBVIOUS
<1>1. ASSUME NEW u \in Users, C2sAcceptSession(c, u) PROVE NodeEffects(c)
  <2> DEFINE s == m_msgClient[c]
             accept == /\ c \in serving /\ C2sUser(c) # None /\ u # C2sUser(c)
                       /\ Cardinality(DOMAIN m_timerId2Info[c]) < MaxPendingC2s
                       /\ ~Full(up, s)
             pk == [t \in IF accept THEN {s} ELSE {} |-> Login(ident[t], next, u)]
  <2>1. /\ Dial(u, c, accept) /\ up' = Send(up, pk) /\ UNCHANGED <<down, ident>>
        /\ m_timerId2Info' = IF accept THEN [m_timerId2Info EXCEPT ![c] = Put(@, next, u)]
                                       ELSE m_timerId2Info
      BY <1>1 DEF C2sAcceptSession
  <2>2. ASSUME accept PROVE NodeSays(c, Login(ident[s], next, u))
    <3>1. s # 0 /\ ident[s] # None
        BY <2>2 DEF C2sUser
    <3>2. DOMAIN m_timerId2Info = C2s /\ DOMAIN visit = Conns /\ next \in Conns
        BY <2>1, BoundsAssumption DEF C2sInv, TablesOfNodes, SockInv, Dial, Conns
    <3>3. visit' = [visit EXCEPT ![next] = [user |-> u, at |-> c]]
        BY <2>1, <2>2 DEF Dial
    <3>4. visit'[next].user = u /\ visit'[next].at = c
        BY <3>2, <3>3
    <3>5. m_timerId2Info'[c] = Put(m_timerId2Info[c], next, u)
        BY <2>1, <2>2, <3>2
    <3>6. next \in DOMAIN m_timerId2Info'[c]
        BY <3>5 DEF Put
    <3> QED BY <3>1, <3>2, <3>4, <3>6 DEF NodeSays, Login
  <2>3. \A t \in DOMAIN pk : t = m_msgClient[c] /\ NodeSays(c, pk[t])
      BY <2>2
  <2> HIDE DEF pk, accept
  <2>4. \A t \in Conns : NodeUp(c, t)
      BY <1>0, <2>1, <2>3, NodeUpEffect
  <2> QED BY <1>a, <2>1, <2>4 DEF NodeEffects
<1>2. ASSUME NEW k, C2sOnTimer(c, k) PROVE NodeEffects(c)
  <2>1. Close({k}, <<>>) /\ down' = down /\ {k} \subseteq AtNode(c)
      BY <1>2 DEF C2sOnTimer, AtNode
  <2>2. \A t \in Conns : NodeUp(c, t) /\ NodeIdent(c, t)
      BY <1>b, <2>1, CloseEffect
  <2> QED BY <1>a, <2>1, <2>2 DEF NodeEffects
<1>3. CASE C2sOnOkMsg(c)
  <2>1. /\ m_msgClient[c] # 0 /\ down[m_msgClient[c]] # <<>> /\ down' = Popped(c)
        /\ ident[m_msgClient[c]] = None
        /\ OnFirstPacket(m_msgClient[c]) /\ up' = up
      BY <1>3 DEF C2sOnOkMsg
  <2>2. \A t \in Conns : NodeDown(c, t)
      BY <2>1, PoppedShorter, NodeQueuesShrink
  <2>3. \A t \in Conns : NodeIdent(c, t)
      BY <2>1 DEF NodeIdent, OnFirstPacket, UplinkInv, LinkShape
  <2> QED BY <1>a, <2>1, <2>2, <2>3 DEF NodeEffects
<1>4. CASE C2sOnTransferMsg(c)
  <2> DEFINE m == Msg(c)
             to == IF /\ m.type = "data" /\ m.dst # ident[m_msgClient[c]]
                      /\ m.dst \in DOMAIN m_user2Session[c]
                     THEN {m_user2Session[c][m.dst]} ELSE {}
             pk == [k \in to |-> m]
  <2>1. /\ m_msgClient[c] # 0 /\ down[m_msgClient[c]] # <<>>
        /\ down' = Send(Popped(c), pk) /\ UNCHANGED <<up, ident>>
      BY <1>4 DEF C2sOnTransferMsg, Uplink
  <2>2. DOMAIN pk \subseteq AtNode(c) /\ \A t \in DOMAIN pk : pk[t].type \in {"data", "response"}
      BY DEF C2sInv, NodeInv, Inverses, AtNode
  <2> HIDE DEF pk
  <2>3. \A t \in Conns : NodeDown(c, t)
      BY <2>1, <2>2, PoppedShorter, NodeDownEffect
  <2> QED BY <1>a, <2>1, <2>3 DEF NodeEffects
<1>5. ASSUME NEW outcome, C2sLoginOk(c, outcome) PROVE NodeEffects(c)
  <2> DEFINE m     == Msg(c)
             k     == m.index
             u     == m.user
             known == k \in DOMAIN m_timerId2Info[c]
             new   == outcome # "no session"
             old   == IF known /\ new /\ u \in DOMAIN m_user2Session[c]
                        THEN {m_user2Session[c][u]} ELSE {}
             ok    == known /\ outcome = "ok"
             closed == old \cup IF known /\ ~ok THEN {k} ELSE {}
             pk    == [j \in IF ok THEN {k} ELSE {} |-> Response(u)]
  <2>1. /\ m_msgClient[c] # 0 /\ down[m_msgClient[c]] # <<>>
        /\ Close(closed, <<>>) /\ down' = Send(Discard(Popped(c), closed), pk)
      BY <1>5 DEF C2sLoginOk, OnRecvMsg, Uplink
  <2>2. closed \subseteq AtNode(c)
    <3>0. u \in DOMAIN m_user2Session[c] => m_user2Session[c][u] \in AtNode(c)
      <4> HIDE DEF u
      <4> QED BY DEF C2sInv, NodeInv, Inverses, AtNode
    <3>1. old \subseteq AtNode(c)
      <4> HIDE DEF u, known, new
      <4> QED BY <3>0
    <3>2. known => k \in AtNode(c)
        BY DEF AtNode
    <3> HIDE DEF old, k, ok
    <3> QED BY <3>1, <3>2
  <2>3. DOMAIN pk \subseteq AtNode(c) /\ \A t \in DOMAIN pk : pk[t].type \in {"data", "response"}
      BY DEF AtNode, Response
  <2> HIDE DEF closed, pk
  <2>4. \A t \in Conns : NodeUp(c, t) /\ NodeIdent(c, t)
      BY <1>b, <2>1, <2>2, CloseEffect
  <2>5. \A t \in Conns : NodeDown(c, t)
      BY <2>1, <2>2, <2>3, PoppedShorter, NodeDownEffect
  <2> QED BY <2>4, <2>5 DEF NodeEffects
<1>6. CASE C2sReport(c)
  <2>1. PICK u \in report[c] : Close({}, ReportLogout(c, u)) /\ down' = down
      BY <1>6 DEF C2sReport
  <2>2. ident[m_msgClient[c]] # None \/ m_msgClient[c] = 0
      BY <2>1 DEF PlaceInv, Linked
  <2>3. Departs(c, u)
      BY DEF Departs
  <2>4. \A t \in DOMAIN ReportLogout(c, u) : t = m_msgClient[c] /\ NodeSays(c, ReportLogout(c, u)[t])
      BY <2>2, <2>3, ReportSays
  <2>5. \A t \in Conns : NodeUp(c, t) /\ NodeIdent(c, t)
      BY <2>1, <2>4, CloseEffect
  <2> QED BY <1>a, <2>1, <2>5 DEF NodeEffects
<1>7. CASE C2sLoginError(c)
  <2> DEFINE k == {Msg(c).index} \cap DOMAIN m_timerId2Info[c]
  <2>1. /\ m_msgClient[c] # 0 /\ down[m_msgClient[c]] # <<>>
        /\ Close(k, <<>>) /\ down' = Popped(c)
      BY <1>7 DEF C2sLoginError, OnRecvMsg, Uplink
  <2>2. k \subseteq AtNode(c)
      BY DEF AtNode
  <2> HIDE DEF k
  <2>3. \A t \in Conns : NodeUp(c, t) /\ NodeIdent(c, t)
      BY <1>b, <2>1, <2>2, CloseEffect
  <2>4. \A t \in Conns : NodeDown(c, t)
      BY <2>1, PoppedShorter, NodeQueuesShrink
  <2> QED BY <2>3, <2>4 DEF NodeEffects
<1>8. CASE C2sKickout(c)
  <2> DEFINE u == Msg(c).user
             k == IF u \in DOMAIN m_user2Session[c] THEN {m_user2Session[c][u]} ELSE {}
  <2>1. /\ m_msgClient[c] # 0 /\ down[m_msgClient[c]] # <<>>
        /\ Close(k, <<>>) /\ down' = Discard(Popped(c), k)
      BY <1>8 DEF C2sKickout, OnRecvMsg, Uplink
  <2>2. k \subseteq AtNode(c)
      BY DEF C2sInv, NodeInv, Inverses, AtNode
  <2> HIDE DEF k
  <2>3. \A t \in Conns : NodeUp(c, t) /\ NodeIdent(c, t)
      BY <1>b, <2>1, <2>2, CloseEffect
  <2>4. \A t \in Conns : NodeDown(c, t)
      BY <2>1, <2>2, PoppedShorter, NodeQueuesShrink
  <2> QED BY <2>3, <2>4 DEF NodeEffects
<1>9. ASSUME NEW k \in Conns, C2sOnRecvSession(c, k) PROVE NodeEffects(c)
  <2> DEFINE m     == Head(up[k])
             ok    == k \in DOMAIN m_session2User[c] /\ m.src = m_session2User[c][k]
             local == m.dst \in DOMAIN m_user2Session[c]
             pk == [j \in IF ok /\ local THEN {m_user2Session[c][m.dst]} ELSE {} |-> m]
             qk == [s \in IF ok /\ ~local THEN {m_msgClient[c]} \ {0} ELSE {} |-> m]
             d == [up EXCEPT ![k] = Tail(@)]
  <2>1. /\ k \in DOMAIN m_session2User[c] /\ up[k] # <<>>
        /\ down' = Send(down, pk) /\ up' = Send(d, qk) /\ ident' = ident
      BY <1>9 DEF C2sOnRecvSession
  <2>2. m.type = "data"
    <3>1. Head(up[k]) = up[k][1] /\ 1 \in DOMAIN up[k]
        BY <1>0, <2>1, TailIsSeq DEF IsQueue
    <3>2. visit[k].user \in Users
        BY <2>1 DEF PlaceInv, NodeFits, AtNode
    <3> QED BY <3>1, <3>2, NamesAssumption DEF PlaceInv, NodesSpeak
  <2>3. k \in AtNode(c) /\ (m_msgClient[c] # 0 => ident[m_msgClient[c]] # None)
      BY <2>1 DEF PlaceInv, Linked, AtNode
  <2>4. DOMAIN pk \subseteq AtNode(c) /\ \A t \in DOMAIN pk : pk[t].type \in {"data", "response"}
      BY <2>2 DEF C2sInv, NodeInv, Inverses, AtNode
  <2>5. \A t \in DOMAIN qk : t = m_msgClient[c] /\ NodeSays(c, qk[t])
      BY <2>2, <2>3 DEF NodeSays
  <2>6. Shorter(d, up)
      BY <1>0, <2>1, ShorterForms
  <2> HIDE DEF pk, qk, d
  <2>7. \A t \in Conns : NodeDown(c, t)
      BY <1>0, <2>1, <2>4, NodeDownEffect
  <2>8. \A t \in Conns : NodeUp(c, t)
      BY <2>1, <2>5, <2>6, NodeUpEffect
  <2> QED BY <1>a, <2>1, <2>7, <2>8 DEF NodeEffects
<1>10. CASE DropAll(c)
  <2> DEFINE s == {m_msgClient[c]} \ {0}
             k == AtNode(c)
  <2>1. /\ up' = Discard(up, k) /\ down' = Discard(down, k \cup s) /\ Forget(k \cup s)
        /\ m_msgClient' = [m_msgClient EXCEPT ![c] = 0]
      BY <1>10 DEF DropAll, AtNode
  <2>2. Shorter(up', up) /\ Shorter(down', down)
      BY <1>0, <2>1, ShorterForms
  <2>3. m_msgClient'[c] = 0
      BY <2>1 DEF UplinkInv, LinkShape
  <2>4. \A t \in Conns : NodeIdent(c, t)
      BY <2>1, <2>3 DEF Forget, NodeIdent
  <2> QED BY <2>2, <2>4, NodeQueuesShrink DEF NodeEffects
<1>11. ASSUME NEW u, C2sKickoutUser(c, u) PROVE NodeEffects(c)
  <2>1. u \in DOMAIN m_user2Session[c] /\ Logoff(c, m_user2Session[c][u], u)
      BY <1>11 DEF C2sKickoutUser
  <2>2. m_user2Session[c][u] \in DOMAIN m_session2User[c]
        /\ m_session2User[c][m_user2Session[c][u]] = u
      BY <2>1 DEF C2sInv, NodeInv, Inverses
  <2> QED BY <2>1, <2>2, LogoffEffect
<1>12. ASSUME NEW k, C2sOnCloseSession(c, k) PROVE NodeEffects(c)
    BY <1>12, LogoffEffect DEF C2sOnCloseSession
<1>13. CASE C2sOnCloseMsg(c) \/ C2sFini(c)
    BY <1>10, <1>13 DEF C2sOnCloseMsg, C2sFini
<1> QED
    BY <1>1, <1>2, <1>3, <1>4, <1>5, <1>6, <1>7, <1>8, <1>9, <1>11, <1>12, <1>13 DEF C2sNext
-----------------------------------------------------------------------------
(***************************************************************************)
(* The commands of the server's task: they go from the head, and a thread  *)
(* of the reactor appends one, which may be a login or logout it has taken *)
(* from the connection of a C2S.                                           *)
(***************************************************************************)
Moved(e) ==
  \E s \in Conns :
    /\ alive /\ s \in DOMAIN m_session2Ctx /\ up[s] # <<>> /\ OnRecvSession(s)
    /\ m_session2Ctx[s].isC2s /\ up[s][1].src = m_session2Ctx[s].base
    /\ up[s][1].type \in {"login", "logout"}
    /\ e = [cmd |-> "recv", conn |-> s, msg |-> up[s][1], c2s |-> m_session2Ctx[s].base]
TaskNews(e) == e.cmd = "kickout" \/ e.cmd = "close" \/ Moved(e)
TaskEffect ==
  \/ task' = task \/ (task # <<>> /\ task' = Tail(task))
  \/ \E e : task' = Append(task, e) /\ TaskNews(e)

\* Where a command of the server comes from.
LEMMA ServerTask ==
  ASSUME UplinkInv, ServerNext
  PROVE  TaskEffect
<1>1. ASSUME NEW u, KickoutUser(u) \/ SendMsg(u) PROVE TaskEffect
    BY <1>1 DEF KickoutUser, SendMsg, serverVars, TaskEffect, TaskNews
<1>2. ASSUME NEW s \in Conns, OnRecvSession(s) PROVE TaskEffect
  <2> DEFINE m   == Head(up[s])
             ctx == m_session2Ctx[s]
             e   == [cmd |-> "recv", conn |-> s, msg |-> m, c2s |-> m.src]
  <2>1. alive /\ s \in DOMAIN m_session2Ctx /\ up[s] # <<>>
      BY <1>2 DEF OnRecvSession
  <2>2. m = up[s][1]
      BY <2>1, TailIsSeq DEF UplinkInv, LinkShape, IsQueue
  <2>3. \/ task' = task
        \/ /\ task' = Append(task, e)
           /\ ctx.isC2s /\ m.src = ctx.base /\ m.type \in {"login", "logout"}
      BY <1>2 DEF OnRecvSession
  <2>4. ASSUME ctx.isC2s, m.src = ctx.base, m.type \in {"login", "logout"} PROVE Moved(e)
      BY <1>2, <2>1, <2>2, <2>4 DEF Moved
  <2> HIDE DEF e, ctx, m
  <2> QED BY <2>3, <2>4 DEF TaskEffect, TaskNews
<1>3. ASSUME NEW s, OnCloseSession(s) PROVE TaskEffect
    BY <1>3 DEF OnCloseSession, TaskEffect, TaskNews
<1>4. CASE Respond \/ Fini \/ FiniSessions
    BY <1>4 DEF Respond, Fini, FiniSessions, TaskEffect
<1>5. CASE RejectSession \/ AddBaseUser \/ LoginRefused \/ AsyncKickoutUser
    BY <1>5 DEF RejectSession, AddBaseUser, LoginRefused, AsyncKickoutUser, Command, TaskEffect
<1>6. CASE AddSubUser \/ ClientLogout \/ AsyncOnCloseSession \/ DrainCommand
    BY <1>6 DEF AddSubUser, ClientLogout, AsyncOnCloseSession, DrainCommand, Command, TaskEffect
<1> QED BY <1>1, <1>2, <1>3, <1>4, <1>5, <1>6 DEF ServerNext

\* Every command was there before, or is the one appended.
LEMMA TaskFrom ==
  ASSUME IndexInv, TaskEffect
  PROVE  \/ \A i \in DOMAIN task' : \E j \in DOMAIN task : task'[i] = task[j]
         \/ \E e : TaskNews(e) /\ \A i \in DOMAIN task' :
                     task'[i] = e \/ \E j \in DOMAIN task : task'[i] = task[j]
<1>1. IsSeq(task)
    BY DEF IndexInv, TaskIsSeq, IsSeq
<1>2. CASE task' = task
    BY <1>2
<1>3. CASE task # <<>> /\ task' = Tail(task)
  <2>1. Slid(task', task)
      BY <1>1, <1>3, SlidForms
  <2> QED BY <2>1 DEF Slid
<1>4. ASSUME NEW e, task' = Append(task, e), TaskNews(e)
      PROVE  \A i \in DOMAIN task' : task'[i] = e \/ \E j \in DOMAIN task : task'[i] = task[j]
  <2>1. SlidNew(task', task, e)
      BY <1>1, <1>4, SlidForms
  <2> QED BY <2>1, SlidFrom
<1> QED BY <1>2, <1>3, <1>4 DEF TaskEffect

\* No command that the server's own threads append waits with a connection.
LEMMA WaitersFrom ==
  ASSUME IndexInv, TaskEffect
  PROVE  \A i \in DOMAIN task' : Waiting(i)' => \E j \in DOMAIN task : Waiting(j) /\ task'[i] = task[j]
<1>1. \A e : TaskNews(e) => e.cmd # "accept"
    BY DEF TaskNews, Moved
<1> QED BY <1>1, TaskFrom DEF Waiting
-----------------------------------------------------------------------------
\* The server keeps contexts for the users that made the connections.
LEMMA ServerCtxFits ==
  ASSUME IndexInv, SockInv, PlaceInv, ServerNext, visit' = visit
  PROVE  CtxFits'
<1>0. CtxFits /\ WaitersFit
    BY DEF PlaceInv
<1>a. ASSUME m_session2Ctx' = m_session2Ctx PROVE CtxFits'
    BY <1>0, <1>a DEF CtxFits
<1>b. ASSUME NEW u, m_session2Ctx' = CtxWithout(u) PROVE CtxFits'
  <2>1. \A s \in DOMAIN m_session2Ctx' :
          s \in DOMAIN m_session2Ctx /\ Less(m_session2Ctx'[s], m_session2Ctx[s], {u})
      BY <1>b, WithoutUser
  <2> QED BY <1>0, <2>1 DEF CtxFits, Less
<1>1. CASE \/ \E u : KickoutUser(u) \/ SendMsg(u)
           \/ \E s : OnRecvSession(s) \/ OnCloseSession(s)
           \/ RejectSession \/ Respond \/ LoginRefused \/ DrainCommand \/ FiniSessions
    BY <1>1, <1>a DEF KickoutUser, SendMsg, OnRecvSession, OnCloseSession, RejectSession, Respond,
         LoginRefused, DrainCommand, FiniSessions, Nothing, serverVars
<1>2. CASE ClientLogout \/ AsyncOnCloseSession \/ AsyncKickoutUser
    BY <1>2, <1>a, <1>b, RemoveEffect
<1>3. CASE Fini
    BY <1>3 DEF Fini, Without, CtxFits
<1>4. CASE AddBaseUser
  <2> DEFINE s == Head(task).conn
             u == Head(task).user
  <2>1. /\ Waiting(1) /\ Head(task) = task[1]
        /\ m_session2Ctx'[s].base = u /\ m_session2Ctx'[s].isC2s = (u \in C2s)
        /\ m_session2Ctx'[s].subs = {}
        /\ \A t \in DOMAIN m_session2Ctx' \ {s} :
             t \in DOMAIN m_session2Ctx /\ Less(m_session2Ctx'[t], m_session2Ctx[t], {u})
      BY <1>4, AddBaseEffect
  <2>2. visit[s].user = u /\ u \in Ids
      BY <1>0, <2>1 DEF WaitersFit, Waiting
  <2> HIDE DEF s, u
  <2> QED BY <1>0, <2>1, <2>2 DEF CtxFits, Less
<1>5. CASE AddSubUser
  <2> DEFINE c == Head(task).c2s
             u == Head(task).msg.user
             s == m_user2Ctx[c]
  <2>1. CASE u # c /\ Known(c) /\ Ctx(c).isC2s /\ Ctx(c).base = c
    <3>1. /\ s \in DOMAIN m_session2Ctx' /\ m_session2Ctx[s].base = c
          /\ DOMAIN m_session2Ctx' = DOMAIN m_session2Ctx \ Dead(u)
          /\ \A t \in DOMAIN m_session2Ctx' :
               /\ t # s => Less(m_session2Ctx'[t], m_session2Ctx[t], {u})
               /\ m_session2Ctx'[t].base = m_session2Ctx[t].base
               /\ m_session2Ctx'[t].isC2s = m_session2Ctx[t].isC2s
          /\ m_session2Ctx'[s].subs = m_session2Ctx[s].subs \cup {u}
      <4>1. c = Head(task).c2s /\ u = Head(task).msg.user /\ s = m_user2Ctx[c]
          OBVIOUS
      <4> HIDE DEF s, u, c
      <4> QED BY <1>5, <2>1, <4>1, AddSubEffect
    <3> HIDE DEF s, u, c
    <3>2. \A t \in DOMAIN m_session2Ctx' : m_session2Ctx'[t].base \notin m_session2Ctx'[t].subs
        BY <1>0, <2>1, <3>1 DEF CtxFits, Less
    <3> QED BY <1>0, <3>1, <3>2 DEF CtxFits
  <2>2. CASE ~(u # c /\ Known(c) /\ Ctx(c).isC2s /\ Ctx(c).base = c)
    <3>1. m_session2Ctx' = m_session2Ctx
        BY <1>5, <2>2 DEF AddSubUser, Nothing
    <3> QED BY <3>1, <1>a
  <2> QED BY <2>1, <2>2
<1> QED BY <1>1, <1>2, <1>3, <1>4, <1>5 DEF ServerNext

\* A response goes to a connection the server holds.
LEMMA ServerHeld ==
  ASSUME IndexInv, SockInv, PlaceInv, ServerNext, visit' = visit
  PROVE  HeldFits'
<1>0. CtxFits /\ HeldFits
    BY DEF PlaceInv
<1>a. ASSUME UNCHANGED <<m_session2Ctx, fini>>, rsp' \subseteq rsp PROVE HeldFits'
    BY <1>0, <1>a DEF HeldFits
<1>b. ASSUME rsp' = {}, fini' = fini PROVE HeldFits'
    BY <1>0, <1>b DEF HeldFits
<1>1. CASE \/ \E u : KickoutUser(u) \/ SendMsg(u)
           \/ \E s : OnRecvSession(s) \/ OnCloseSession(s)
           \/ RejectSession \/ Respond \/ LoginRefused \/ DrainCommand
    BY <1>1, <1>a DEF KickoutUser, SendMsg, OnRecvSession, OnCloseSession, RejectSession, Respond,
         LoginRefused, DrainCommand, Nothing, serverVars
<1>2. CASE ClientLogout \/ AsyncOnCloseSession \/ AsyncKickoutUser
  <2>1. fini' = fini
      BY <1>2 DEF ClientLogout, AsyncOnCloseSession, AsyncKickoutUser
  <2> QED BY <1>2, <1>b, <2>1, RemoveEffect
<1>3. CASE Fini
  <2>1. alive /\ fini' = DOMAIN m_session2Ctx /\ rsp' = rsp
      BY <1>3 DEF Fini
  <2>2. fini = {}
      BY <2>1 DEF SockInv, ServerParts
  <2> QED BY <1>0, <2>1, <2>2 DEF HeldFits, CtxFits
<1>4. CASE FiniSessions
    BY <1>4 DEF FiniSessions, HeldFits
<1>5. CASE AddBaseUser
  <2> DEFINE s == Head(task).conn
             u == Head(task).user
  <2>1. s \in DOMAIN m_session2Ctx'
      BY <1>5, AddBaseEffect
  <2>2. rsp' = {[conn |-> s, msg |-> Response(u), user |-> u]} /\ fini' = fini
      BY <1>5 DEF AddBaseUser
  <2> HIDE DEF s, u
  <2> QED BY <1>0, <2>1, <2>2 DEF HeldFits
<1>6. CASE AddSubUser
  <2> DEFINE c == Head(task).c2s
             u == Head(task).msg.user
             s == m_user2Ctx[c]
             k == Head(task).msg.index
  <2>1. CASE u # c /\ Known(c) /\ Ctx(c).isC2s /\ Ctx(c).base = c
    <3>1. s \in DOMAIN m_session2Ctx'
        BY <1>6, <2>1, AddSubEffect
    <3>2. rsp' = {[conn |-> s, msg |-> LoginOk(k, u), user |-> u]} /\ fini' = fini
        BY <1>6, <2>1 DEF AddSubUser
    <3> HIDE DEF s, u, c, k
    <3> QED BY <1>0, <3>1, <3>2 DEF HeldFits
  <2>2. CASE ~(u # c /\ Known(c) /\ Ctx(c).isC2s /\ Ctx(c).base = c)
    <3>1. UNCHANGED <<m_session2Ctx, fini, rsp>>
        BY <1>6, <2>2 DEF AddSubUser, Nothing
    <3> QED BY <3>1, <1>a
  <2> QED BY <2>1, <2>2
<1> QED BY <1>1, <1>2, <1>3, <1>4, <1>5, <1>6 DEF ServerNext
-----------------------------------------------------------------------------
\* Nothing comes of nothing.
LEMMA SlidEmpty ==
  ASSUME NEW a, IsSeq(a), NEW r, r = <<>>, Slid(a, r)
  PROVE  a = <<>>
<1>1. DOMAIN a = {}
    BY DEF Slid
<1>2. Len(a) \in Nat /\ DOMAIN a = 1..Len(a)
    BY DEF IsSeq
<1>3. Len(a) = 0
    BY <1>1, <1>2
<1> QED BY <1>3 DEF IsSeq

\* An uplink that has been told its number is one the server has accepted.
LEMMA ToldIsMade ==
  ASSUME UplinkInv, PlaceInv, NEW c \in C2s, m_msgClient[c] # 0,
         ident[m_msgClient[c]] # None \/ down[m_msgClient[c]] # <<>>
  PROVE  visit[m_msgClient[c]].user = c /\ m_msgClient[c] \in Conns
<1>1. m_msgClient[c] \in Conns /\ visit[m_msgClient[c]].user \in {c, None}
    BY DEF UplinkInv, IsUplink
<1> QED BY <1>1 DEF PlaceInv, Silent

\* Whom the server can send to.
LEMMA SaysToSomebody ==
  ASSUME IndexInv, SockInv, PlaceInv, NEW t, NEW e, ServerSays(t, e)
  PROVE  visit[t].user \in Ids /\ t \in AtServer /\ t \notin Waiters(task)
<1>1. t \in DOMAIN m_session2Ctx \cup fini
    BY DEF ServerSays, PlaceInv, HeldFits
<1>2. visit[t].user \in Ids
    BY <1>1 DEF PlaceInv, HeldFits, CtxFits
<1>3. t \notin Waiters(task)
    BY <1>1 DEF IndexInv, Fresh, Waiting, Waiters, SockInv, ServerParts
<1> QED BY <1>1, <1>2, <1>3 DEF AtServer

\* The server keeps everything in its place.
LEMMA ServerPlace ==
  ASSUME IndexInv, SockInv, UplinkInv, UplinkInv', PlaceInv, ServerNext, UNCHANGED c2sVars
  PROVE  PlaceInv'
<1>0. /\ visit' = visit /\ ServerEffects /\ TaskEffect
      /\ UNCHANGED <<serving, m_msgClient, m_timerId2Info, m_session2User, report>>
    BY ServerShape, ServerEffect, ServerTask DEF UplinkInv, c2sVars
<1>1. CtxFits' /\ HeldFits'
    BY <1>0, ServerCtxFits, ServerHeld
<1>2. NodeFits'
    BY <1>0 DEF PlaceInv, NodeFits, AtNode
<1>3. \A t \in Conns : IsSeq(up'[t]) /\ IsSeq(down'[t])
    BY DEF UplinkInv, LinkShape, IsQueue
<1>4. Silent'
  <2> SUFFICES ASSUME NEW t \in Conns, visit[t].user = None
               PROVE  up'[t] = <<>> /\ down'[t] = <<>> /\ ident'[t] = None
      BY <1>0 DEF Silent
  <2>1. up[t] = <<>> /\ down[t] = <<>> /\ ident[t] = None
      BY DEF PlaceInv, Silent
  <2>2. Slid(down'[t], down[t])
    <3>1. \A e : ~ServerSays(t, e)
        BY SaysToSomebody, NamesAssumption DEF Ids
    <3> QED BY <1>0, <3>1 DEF ServerEffects, ServerDown
  <2>3. Slid(up'[t], up[t]) /\ ident'[t] = None
      BY <1>0, <2>1 DEF ServerEffects
  <2> QED BY <1>3, <2>1, <2>2, <2>3, SlidEmpty
<1>5. NodesSpeak'
  <2> SUFFICES ASSUME NEW t \in Conns, NEW i \in DOMAIN up'[t]
               PROVE  up'[t][i].type \in {"data", "login", "logout"}
                        /\ (up'[t][i].type # "data" => visit[t].user \in C2s)
      BY <1>0 DEF NodesSpeak
  <2>1. \E j \in DOMAIN up[t] : up'[t][i] = up[t][j]
      BY <1>0 DEF ServerEffects, Slid
  <2> QED BY <2>1 DEF PlaceInv, NodesSpeak
<1>6. WaitersFit'
  <2> SUFFICES ASSUME NEW i \in DOMAIN task', Waiting(i)'
               PROVE  /\ visit[task'[i].conn].user = task'[i].user /\ task'[i].user \in Ids
                      /\ down'[task'[i].conn] = <<>>
      BY <1>0 DEF WaitersFit
  <2>1. PICK j \in DOMAIN task : Waiting(j) /\ task'[i] = task[j]
      BY <1>0, WaitersFrom
  <2> DEFINE k == task[j].conn
  <2>2. /\ visit[k].user = task[j].user /\ task[j].user \in Ids /\ down[k] = <<>>
      BY <2>1 DEF PlaceInv, WaitersFit
  <2>3. k \in Waiters(task)
      BY <2>1 DEF Waiting, Waiters
  <2>4. k \in Conns
      BY <2>3 DEF SockInv, AtServer
  <2> HIDE DEF k
  <2>5. Slid(down'[k], down[k])
    <3>1. \A e : ~ServerSays(k, e)
        BY <2>3, SaysToSomebody
    <3> QED BY <1>0, <2>4, <3>1 DEF ServerEffects, ServerDown
  <2>6. down'[k] = <<>>
      BY <1>3, <2>2, <2>4, <2>5, SlidEmpty
  <2> QED BY <2>1, <2>2, <2>6 DEF k
<1>7. Linked'
  <2>1. \A c \in C2s : m_msgClient[c] # 0 /\ ident[m_msgClient[c]] # None =>
                         ident'[m_msgClient[c]] = ident[m_msgClient[c]]
      BY <1>0, ToldIsMade DEF ServerEffects
  <2> QED BY <1>0, <2>1 DEF PlaceInv, Linked, AtNode, Named
<1> QED BY <1>1, <1>2, <1>4, <1>5, <1>6, <1>7 DEF PlaceInv
-----------------------------------------------------------------------------
(***************************************************************************)
(* What a step of a node does to its own tables.                           *)
(***************************************************************************)
Told(c) == m_msgClient[c] # 0 /\ ident[m_msgClient[c]] # None
NodeVisits == /\ \A k \in Conns : k # next => visit'[k] = visit[k]
              /\ \A k \in Conns : visit'[k].user = None => visit[k].user = None
Keeps(c) ==
  /\ m_msgClient'[c] = m_msgClient[c] /\ serving' = serving
  /\ \/ report'[c] \subseteq report[c]
     \/ Told(c) /\ \E u : report'[c] = {u}
  /\ \A k \in AtNode(c)' :
       \/ k \in AtNode(c)
       \/ Told(c) /\ k = next /\ next \in Conns /\ visit'[next].user \in Users
Drops(c) ==
  /\ m_msgClient'[c] = 0 /\ AtNode(c)' = {} /\ report'[c] = report[c]
  /\ serving' \subseteq serving
  /\ report[c] = {} \/ c \notin serving'
  /\ \A d \in C2s \ {c} : d \in serving => d \in serving'
NodeTables(c) ==
  /\ NodeVisits /\ (Keeps(c) \/ Drops(c))
  /\ \A d \in C2s \ {c} :
       m_msgClient'[d] = m_msgClient[d] /\ report'[d] = report[d] /\ AtNode(d)' = AtNode(d)

\* Where a connection in a table of a node comes from.
LEMMA NodeTable ==
  ASSUME C2sInv, SockInv, UplinkInv, NEW c \in C2s, C2sNext(c)
  PROVE  NodeTables(c)
<1>0. DOMAIN m_timerId2Info = C2s /\ DOMAIN m_session2User = C2s /\ DOMAIN report = C2s
      /\ DOMAIN m_msgClient = C2s
    BY DEF C2sInv, TablesOfNodes, UplinkInv, LinkShape
<1>a. ASSUME UNCHANGED <<next, visit, m_msgClient, serving, m_timerId2Info, m_session2User, report>>
      PROVE  NodeTables(c)
    BY <1>a DEF NodeTables, NodeVisits, Keeps, AtNode
<1>1. ASSUME NEW u \in Users, C2sAcceptSession(c, u) PROVE NodeTables(c)
  <2>1. /\ UNCHANGED <<serving, m_msgClient, m_session2User, report>>
        /\ \/ UNCHANGED <<visit, m_timerId2Info>>
           \/ /\ Told(c) /\ next + calls <= MaxInputs
              /\ visit' = [visit EXCEPT ![next] = [user |-> u, at |-> c]]
              /\ m_timerId2Info' = [m_timerId2Info EXCEPT ![c] = Put(@, next, u)]
      BY <1>1 DEF C2sAcceptSession, Dial, C2sUser, Told
  <2>2. CASE UNCHANGED <<visit, m_timerId2Info>>
      BY <2>1, <2>2 DEF NodeTables, NodeVisits, Keeps, AtNode
  <2>3. CASE /\ Told(c) /\ next + calls <= MaxInputs
             /\ visit' = [visit EXCEPT ![next] = [user |-> u, at |-> c]]
             /\ m_timerId2Info' = [m_timerId2Info EXCEPT ![c] = Put(@, next, u)]
    <3>1. DOMAIN visit = Conns /\ next \in Conns
        BY <2>3, BoundsAssumption DEF SockInv, Conns
    <3>2. visit'[next].user = u /\ \A k \in Conns : k # next => visit'[k] = visit[k]
        BY <2>3, <3>1
    <3>3. NodeVisits
        BY <3>2, NamesAssumption DEF NodeVisits
    <3>4. m_timerId2Info'[c] = Put(m_timerId2Info[c], next, u)
          /\ \A d \in C2s \ {c} : m_timerId2Info'[d] = m_timerId2Info[d]
        BY <1>0, <2>3
    <3>5. \A k \in AtNode(c)' : k \in AtNode(c) \/ k = next
        BY <2>1, <3>4 DEF AtNode, Put
    <3>6. Keeps(c)
        BY <2>1, <2>3, <3>1, <3>2, <3>5 DEF Keeps
    <3>7. \A d \in C2s \ {c} :
            m_msgClient'[d] = m_msgClient[d] /\ report'[d] = report[d] /\ AtNode(d)' = AtNode(d)
        BY <2>1, <3>4 DEF AtNode
    <3> QED BY <3>3, <3>6, <3>7 DEF NodeTables
  <2> QED BY <2>1, <2>2, <2>3
<1>2. ASSUME NEW k, C2sOnTimer(c, k) PROVE NodeTables(c)
  <2>1. /\ UNCHANGED <<next, visit, serving, m_msgClient, m_session2User, report>>
        /\ m_timerId2Info' = [m_timerId2Info EXCEPT ![c] = Erase(@, {k})]
      BY <1>2 DEF C2sOnTimer
  <2> QED BY <1>0, <2>1 DEF NodeTables, NodeVisits, Keeps, AtNode, Erase
<1>3. CASE C2sOnOkMsg(c) \/ C2sOnTransferMsg(c)
    BY <1>3, <1>a DEF C2sOnOkMsg, C2sOnTransferMsg, c2sVars
<1>4. ASSUME NEW k, C2sOnRecvSession(c, k) PROVE NodeTables(c)
    BY <1>4, <1>a DEF C2sOnRecvSession, c2sVars
<1>5. ASSUME NEW outcome, C2sLoginOk(c, outcome) PROVE NodeTables(c)
  <2> DEFINE T == m_timerId2Info'[c]
             F == m_session2User'[c]
             R == report'[c]
             k == Msg(c).index
             u == Msg(c).user
             known == k \in DOMAIN m_timerId2Info[c]
             ok == known /\ outcome = "ok"
  <2>1. /\ UNCHANGED <<next, visit, serving, m_msgClient>> /\ Told(c)
        /\ \A d \in C2s \ {c} : /\ m_timerId2Info'[d] = m_timerId2Info[d]
                                /\ m_session2User'[d] = m_session2User[d]
                                /\ report'[d] = report[d]
      BY <1>0, <1>5 DEF C2sLoginOk, OnRecvMsg, Uplink, Told
  <2>2. T = Erase(m_timerId2Info[c], {k}) /\ R = IF ok THEN {} ELSE {u}
      BY <1>0, <1>5 DEF C2sLoginOk
  <2>3. \E old : F = IF ok THEN Put(Erase(m_session2User[c], old), k, u)
                           ELSE Erase(m_session2User[c], old)
      BY <1>0, <1>5 DEF C2sLoginOk
  <2>4. DOMAIN T \subseteq DOMAIN m_timerId2Info[c]
      BY <2>2 DEF Erase
  <2>5. DOMAIN F \subseteq AtNode(c)
    <3>1. PICK old : F = IF ok THEN Put(Erase(m_session2User[c], old), k, u)
                               ELSE Erase(m_session2User[c], old)
        BY <2>3
    <3> HIDE DEF k, F
    <3> QED BY <3>1 DEF AtNode, Put, Erase
  <2> HIDE DEF T, F, R, k, u
  <2>6. AtNode(c)' \subseteq AtNode(c)
      BY <2>4, <2>5 DEF AtNode, T, F
  <2>7. R \subseteq report[c] \/ \E v : R = {v}
      BY <2>2
  <2>8. Keeps(c)
      BY <2>1, <2>6, <2>7 DEF Keeps, R
  <2> QED BY <2>1, <2>8 DEF NodeTables, NodeVisits, AtNode
<1>6. CASE C2sReport(c)
  <2>1. /\ UNCHANGED <<next, visit, serving, m_msgClient, m_timerId2Info, m_session2User>>
        /\ report' = [report EXCEPT ![c] = {}]
      BY <1>6 DEF C2sReport
  <2> QED BY <1>0, <2>1 DEF NodeTables, NodeVisits, Keeps, AtNode
<1>7. CASE C2sLoginError(c)
  <2>1. /\ UNCHANGED <<next, visit, serving, m_msgClient, m_session2User, report>>
        /\ \E k : m_timerId2Info' = [m_timerId2Info EXCEPT ![c] = Erase(@, k)]
      BY <1>7 DEF C2sLoginError
  <2> QED BY <1>0, <2>1 DEF NodeTables, NodeVisits, Keeps, AtNode, Erase
<1>8. ASSUME UNCHANGED <<next, visit, serving, m_msgClient, m_timerId2Info, report>>,
             \E k : m_session2User' = [m_session2User EXCEPT ![c] = Erase(@, k)]
      PROVE  NodeTables(c)
    BY <1>0, <1>8 DEF NodeTables, NodeVisits, Keeps, AtNode, Erase
<1>9. CASE C2sKickout(c)
    BY <1>9, <1>8 DEF C2sKickout
<1>10. ASSUME NEW k, NEW u, Logoff(c, k, u) PROVE NodeTables(c)
    BY <1>10, <1>8 DEF Logoff
<1>11. ASSUME NEW k, C2sOnCloseSession(c, k) PROVE NodeTables(c)
    BY <1>11, <1>10 DEF C2sOnCloseSession
<1>12. ASSUME NEW u, C2sKickoutUser(c, u) PROVE NodeTables(c)
    BY <1>12, <1>10 DEF C2sKickoutUser
<1>13. CASE C2sOnCloseMsg(c) \/ C2sFini(c)
  <2>1. /\ UNCHANGED <<next, visit, report>>
        /\ m_timerId2Info' = [m_timerId2Info EXCEPT ![c] = Erase(@, DOMAIN @)]
        /\ m_session2User' = [m_session2User EXCEPT ![c] = Erase(@, DOMAIN @)]
        /\ m_msgClient' = [m_msgClient EXCEPT ![c] = 0]
      BY <1>13 DEF C2sOnCloseMsg, C2sFini, DropAll
  <2>2. serving' \subseteq serving /\ (report[c] = {} \/ c \notin serving')
        /\ \A d \in C2s \ {c} : d \in serving => d \in serving'
      BY <1>13 DEF C2sOnCloseMsg, C2sFini, Upcall
  <2>3. AtNode(c)' = {} /\ m_msgClient'[c] = 0
      BY <1>0, <2>1 DEF AtNode, Erase
  <2>4. \A d \in C2s \ {c} : m_msgClient'[d] = m_msgClient[d] /\ AtNode(d)' = AtNode(d)
      BY <1>0, <2>1 DEF AtNode
  <2>5. Drops(c)
      BY <2>1, <2>2, <2>3 DEF Drops
  <2> QED BY <2>1, <2>4, <2>5 DEF NodeTables, NodeVisits
<1> QED
    BY <1>1, <1>2, <1>3, <1>4, <1>5, <1>6, <1>7, <1>9, <1>11, <1>12, <1>13 DEF C2sNext

(***************************************************************************)
(* The entries of a node's tables: each was there, or is the connection    *)
(* just made, or the one the server's answer is for.                       *)
(***************************************************************************)
Enters(c, k) ==
  /\ k = next /\ next \in Conns
  /\ m_timerId2Info'[c][k] \in Users
  /\ visit'[k].user = m_timerId2Info'[c][k] /\ visit'[k].at = c
Answered(c, k) ==
  /\ OnRecvMsg(c, "login_ok") /\ \E outcome : C2sLoginOk(c, outcome)
  /\ k = Msg(c).index /\ k \in DOMAIN m_timerId2Info[c]
  /\ m_session2User'[c][k] = Msg(c).user /\ k \notin DOMAIN m_timerId2Info'[c]
  /\ m_session2User'[c][k] \in DOMAIN m_user2Session'[c]
NodeEntries(c) ==
  /\ \A k \in DOMAIN m_timerId2Info'[c] :
       (k \in DOMAIN m_timerId2Info[c] /\ m_timerId2Info'[c][k] = m_timerId2Info[c][k])
         \/ Enters(c, k)
  /\ \A k \in DOMAIN m_session2User'[c] :
       (k \in DOMAIN m_session2User[c] /\ m_session2User'[c][k] = m_session2User[c][k])
         \/ Answered(c, k)
  /\ \A d \in C2s \ {c} : /\ m_timerId2Info'[d] = m_timerId2Info[d]
                          /\ m_session2User'[d] = m_session2User[d]
                          /\ m_user2Session'[d] = m_user2Session[d]

\* Where a login of a node comes from: a login_ok for a connection that waits.
LEMMA NodeEntry ==
  ASSUME C2sInv, SockInv, NEW c \in C2s, C2sNext(c)
  PROVE  NodeEntries(c)
<1>0. DOMAIN m_timerId2Info = C2s /\ DOMAIN m_session2User = C2s /\ DOMAIN m_user2Session = C2s
    BY DEF C2sInv, TablesOfNodes
<1>a. ASSUME UNCHANGED <<m_timerId2Info, m_session2User, m_user2Session>> PROVE NodeEntries(c)
    BY <1>a DEF NodeEntries
<1>b. ASSUME NEW K, m_timerId2Info' = [m_timerId2Info EXCEPT ![c] = Erase(@, K)],
             UNCHANGED <<m_session2User, m_user2Session>>
      PROVE NodeEntries(c)
    BY <1>0, <1>b DEF NodeEntries, Erase
<1>c. ASSUME NEW K, m_session2User' = [m_session2User EXCEPT ![c] = Erase(@, K)],
             NEW U, m_user2Session' = [m_user2Session EXCEPT ![c] = Erase(@, U)],
             UNCHANGED m_timerId2Info
      PROVE NodeEntries(c)
    BY <1>0, <1>c DEF NodeEntries, Erase
<1>1. ASSUME NEW u \in Users, C2sAcceptSession(c, u) PROVE NodeEntries(c)
  <2>1. /\ UNCHANGED <<m_session2User, m_user2Session>>
        /\ \/ m_timerId2Info' = m_timerId2Info
           \/ /\ next + calls <= MaxInputs
              /\ visit' = [visit EXCEPT ![next] = [user |-> u, at |-> c]]
              /\ m_timerId2Info' = [m_timerId2Info EXCEPT ![c] = Put(@, next, u)]
      BY <1>1 DEF C2sAcceptSession, Dial
  <2>2. CASE m_timerId2Info' = m_timerId2Info
      BY <2>1, <2>2, <1>a
  <2>3. CASE /\ next + calls <= MaxInputs
             /\ visit' = [visit EXCEPT ![next] = [user |-> u, at |-> c]]
             /\ m_timerId2Info' = [m_timerId2Info EXCEPT ![c] = Put(@, next, u)]
    <3>1. DOMAIN visit = Conns /\ next \in Conns
        BY <2>3, BoundsAssumption DEF SockInv, Conns
    <3>2. visit'[next].user = u /\ visit'[next].at = c
        BY <2>3, <3>1
    <3>3. m_timerId2Info'[c] = Put(m_timerId2Info[c], next, u)
          /\ \A d \in C2s \ {c} : m_timerId2Info'[d] = m_timerId2Info[d]
        BY <1>0, <2>3
    <3>4. \A k \in DOMAIN m_timerId2Info'[c] :
            \/ k = next /\ m_timerId2Info'[c][k] = u
            \/ k \in DOMAIN m_timerId2Info[c] /\ m_timerId2Info'[c][k] = m_timerId2Info[c][k]
        BY <3>3 DEF Put
    <3> QED BY <2>1, <3>1, <3>2, <3>3, <3>4 DEF NodeEntries, Enters
  <2> QED BY <2>1, <2>2, <2>3
<1>2. ASSUME NEW k, C2sOnTimer(c, k) PROVE NodeEntries(c)
    BY <1>2, <1>b DEF C2sOnTimer
<1>3. CASE C2sOnOkMsg(c) \/ C2sOnTransferMsg(c) \/ C2sReport(c)
    BY <1>3, <1>a DEF C2sOnOkMsg, C2sOnTransferMsg, C2sReport, c2sVars
<1>4. ASSUME NEW k, C2sOnRecvSession(c, k) PROVE NodeEntries(c)
    BY <1>4, <1>a DEF C2sOnRecvSession, c2sVars
<1>5. ASSUME NEW outcome, C2sLoginOk(c, outcome) PROVE NodeEntries(c)
  <2> DEFINE T == m_timerId2Info'[c]
             F == m_session2User'[c]
             G == m_user2Session'[c]
             k == Msg(c).index
             u == Msg(c).user
             known == k \in DOMAIN m_timerId2Info[c]
             ok == known /\ outcome = "ok"
  <2>1. /\ \A d \in C2s \ {c} : /\ m_timerId2Info'[d] = m_timerId2Info[d]
                                /\ m_session2User'[d] = m_session2User[d]
                                /\ m_user2Session'[d] = m_user2Session[d]
        /\ OnRecvMsg(c, "login_ok")
      BY <1>0, <1>5 DEF C2sLoginOk
  <2>2. T = Erase(m_timerId2Info[c], {k})
      BY <1>0, <1>5 DEF C2sLoginOk
  <2>3. PICK old : F = IF ok THEN Put(Erase(m_session2User[c], old), k, u)
                             ELSE Erase(m_session2User[c], old)
      BY <1>0, <1>5 DEF C2sLoginOk
  <2>4. \E g : ok => G = Put(g, u, k)
      BY <1>0, <1>5 DEF C2sLoginOk
  <2> HIDE DEF T, F, G, k, u
  <2>5. \A j \in DOMAIN T : j # k /\ j \in DOMAIN m_timerId2Info[c] /\ T[j] = m_timerId2Info[c][j]
      BY <2>2 DEF Erase
  <2>6. \A j \in DOMAIN F : \/ j \in DOMAIN m_session2User[c] /\ F[j] = m_session2User[c][j]
                            \/ j = k /\ F[j] = u /\ ok
      BY <2>3 DEF Erase, Put
  <2>7. ok => u \in DOMAIN G
      BY <2>4 DEF Put
  <2>8. ASSUME NEW j \in DOMAIN F, j = k, F[j] = u, ok PROVE Answered(c, j)
    <3>1. j \notin DOMAIN T /\ j \in DOMAIN m_timerId2Info[c] /\ F[j] \in DOMAIN G
        BY <2>5, <2>7, <2>8
    <3> QED BY <1>5, <2>1, <2>8, <3>1 DEF Answered, T, F, G, k, u
  <2>9. \A j \in DOMAIN m_session2User'[c] :
          \/ j \in DOMAIN m_session2User[c] /\ m_session2User'[c][j] = m_session2User[c][j]
          \/ Answered(c, j)
      BY <2>6, <2>8 DEF F
  <2> QED BY <2>1, <2>5, <2>9 DEF NodeEntries, T
<1>6. CASE C2sLoginError(c)
    BY <1>6, <1>b DEF C2sLoginError
<1>7. CASE C2sKickout(c)
    BY <1>7, <1>c DEF C2sKickout
<1>8. ASSUME NEW k, NEW u, Logoff(c, k, u) PROVE NodeEntries(c)
    BY <1>8, <1>c DEF Logoff
<1>9. ASSUME NEW k, C2sOnCloseSession(c, k) PROVE NodeEntries(c)
    BY <1>9, <1>8 DEF C2sOnCloseSession
<1>10. ASSUME NEW u, C2sKickoutUser(c, u) PROVE NodeEntries(c)
    BY <1>10, <1>8 DEF C2sKickoutUser
<1>11. CASE C2sOnCloseMsg(c) \/ C2sFini(c)
  <2>1. /\ m_timerId2Info' = [m_timerId2Info EXCEPT ![c] = Erase(@, DOMAIN @)]
        /\ m_session2User' = [m_session2User EXCEPT ![c] = Erase(@, DOMAIN @)]
        /\ m_user2Session' = [m_user2Session EXCEPT ![c] = Erase(@, DOMAIN @)]
      BY <1>11 DEF C2sOnCloseMsg, C2sFini, DropAll
  <2> QED BY <1>0, <2>1 DEF NodeEntries, Erase
<1> QED
    BY <1>1, <1>2, <1>3, <1>4, <1>5, <1>6, <1>7, <1>9, <1>10, <1>11 DEF C2sNext

\* A node keeps everything in its place.
LEMMA NodePlace ==
  ASSUME IndexInv, C2sInv, SockInv, UplinkInv, UplinkInv', PlaceInv, NEW c \in C2s, C2sNext(c),
         UNCHANGED serverVars
  PROVE  PlaceInv'
<1>0. NodeEffects(c) /\ NodeTables(c) /\ NodeVisits
      /\ UNCHANGED <<m_session2Ctx, task, rsp, fini, alive>>
    BY NodeEffect, NodeTable DEF NodeTables, serverVars
<1>1. next \in Nat /\ (\A k \in Conns : k \in Nat) /\ (\A k \in AtServer : k \in Conns /\ k # next)
    BY DEF SockInv, Conns
<1>2. /\ \A k \in AtServer : visit'[k] = visit[k]
      /\ \A k \in Conns : visit[k].user # None => visit'[k] = visit[k]
  <2>1. \A k \in Conns : k = next => visit[k].user = None
      BY <1>1 DEF UplinkInv
  <2> QED BY <1>0, <1>1, <2>1 DEF NodeVisits
<1>3. CtxFits'
    BY <1>0, <1>2 DEF PlaceInv, CtxFits, AtServer
<1>4. HeldFits'
    BY <1>0, <1>2 DEF PlaceInv, HeldFits, AtServer
<1>5. \A t \in Conns : IsSeq(up'[t]) /\ IsSeq(down'[t])
    BY DEF UplinkInv, LinkShape, IsQueue
<1>6. WaitersFit'
  <2> SUFFICES ASSUME NEW i \in DOMAIN task, Waiting(i)
               PROVE  /\ visit'[task[i].conn].user = task[i].user /\ task[i].user \in Ids
                      /\ down'[task[i].conn] = <<>>
      BY <1>0 DEF WaitersFit, Waiting
  <2> DEFINE k == task[i].conn
  <2>1. k \in Waiters(task)
      BY DEF Waiting, Waiters
  <2>2. k \in AtServer /\ visit[k].at = Root /\ k \in Conns
      BY <2>1 DEF SockInv, AtServer
  <2>3. visit[k].user = task[i].user /\ task[i].user \in Ids /\ down[k] = <<>>
      BY DEF PlaceInv, WaitersFit
  <2>4. k \notin AtNode(c)
      BY <2>2, NamesAssumption DEF SockInv
  <2> HIDE DEF k
  <2>5. Slid(down'[k], down[k])
      BY <1>0, <2>2, <2>4 DEF NodeEffects, NodeDown
  <2>6. down'[k] = <<>>
      BY <1>5, <2>2, <2>3, <2>5, SlidEmpty
  <2> QED BY <1>2, <2>2, <2>3, <2>6 DEF k
<1>7. NodeFits'
  <2> SUFFICES ASSUME NEW d \in C2s, NEW k \in AtNode(d)' PROVE visit'[k].user \in Users
      BY DEF NodeFits
  <2>1. CASE k \in AtNode(d)
    <3>1. visit[k].user \in Users /\ k \in Conns
        BY <2>1 DEF PlaceInv, NodeFits, SockInv
    <3> QED BY <1>2, <3>1, NamesAssumption
  <2>2. CASE k \notin AtNode(d)
      BY <1>0, <2>2 DEF NodeTables, Keeps, Drops
  <2> QED BY <2>1, <2>2
<1>8. Silent'
  <2> SUFFICES ASSUME NEW t \in Conns, visit'[t].user = None
               PROVE  up'[t] = <<>> /\ down'[t] = <<>> /\ ident'[t] = None
      BY DEF Silent
  <2>1. visit[t].user = None /\ up[t] = <<>> /\ down[t] = <<>> /\ ident[t] = None
      BY <1>0 DEF NodeVisits, PlaceInv, Silent
  <2>2. t \notin AtNode(c)
      BY <2>1, NamesAssumption DEF PlaceInv, NodeFits
  <2>3. Slid(down'[t], down[t])
      BY <1>0, <2>2 DEF NodeEffects, NodeDown
  <2>4. Slid(up'[t], up[t])
      BY <1>0, <2>1 DEF NodeEffects, NodeUp, NodeSays
  <2>5. ident'[t] = None
      BY <1>0, <2>1, <2>2 DEF NodeEffects, NodeIdent
  <2> QED BY <1>5, <2>1, <2>3, <2>4, <2>5, SlidEmpty
<1>9. NodesSpeak'
  <2> SUFFICES ASSUME NEW t \in Conns, NEW i \in DOMAIN up'[t]
               PROVE  up'[t][i].type \in {"data", "login", "logout"}
                        /\ (up'[t][i].type # "data" => visit'[t].user \in C2s)
      BY DEF NodesSpeak
  <2>1. CASE \E j \in DOMAIN up[t] : up'[t][i] = up[t][j]
    <3>1. up'[t][i].type \in {"data", "login", "logout"}
            /\ (up'[t][i].type # "data" => visit[t].user \in C2s)
        BY <2>1 DEF PlaceInv, NodesSpeak
    <3> QED BY <1>2, <3>1, NamesAssumption
  <2>2. CASE \E e : t = m_msgClient[c] /\ NodeSays(c, e) /\ up'[t][i] = e
    <3>1. PICK e : t = m_msgClient[c] /\ NodeSays(c, e) /\ up'[t][i] = e
        BY <2>2
    <3>2. e.type \in {"data", "login", "logout"} /\ m_msgClient[c] # 0 /\ ident[m_msgClient[c]] # None
        BY <3>1 DEF NodeSays
    <3>3. visit[t].user = c
        BY <3>1, <3>2, ToldIsMade
    <3>4. visit'[t] = visit[t]
        BY <1>2, <3>3, NamesAssumption
    <3> QED BY <3>1, <3>2, <3>3, <3>4
  <2> QED BY <1>0, <2>1, <2>2 DEF NodeEffects, NodeUp, Slid, SlidNew
<1>10. Linked'
  <2> SUFFICES ASSUME NEW d \in C2s
               PROVE  /\ AtNode(d)' # {} => m_msgClient'[d] # 0
                      /\ report'[d] # {} /\ m_msgClient'[d] = 0 => d \notin serving'
                      /\ (AtNode(d)' # {} \/ report'[d] # {}) /\ m_msgClient'[d] # 0 =>
                           ident'[m_msgClient'[d]] # None
                      /\ \A u, v \in report'[d] : u = v
                      /\ DOMAIN m_session2User'[d] # {} => ident'[m_msgClient'[d]] = d
      BY DEF Linked, Named
  <2>0. /\ AtNode(d) # {} => m_msgClient[d] # 0
        /\ report[d] # {} /\ m_msgClient[d] = 0 => d \notin serving
        /\ (AtNode(d) # {} \/ report[d] # {}) /\ m_msgClient[d] # 0 => ident[m_msgClient[d]] # None
        /\ \A u, v \in report[d] : u = v
        /\ DOMAIN m_session2User[d] # {} => ident[m_msgClient[d]] = d
      BY DEF PlaceInv, Linked, Named
  <2>1. m_msgClient[d] # 0 => m_msgClient[d] \in Conns /\ m_msgClient[d] \notin AtNode(c)
      BY UplinkApart DEF UplinkInv, IsUplink
  <2>2. CASE d # c
    <3>1. m_msgClient'[d] = m_msgClient[d] /\ report'[d] = report[d] /\ AtNode(d)' = AtNode(d)
        BY <1>0, <2>2 DEF NodeTables
    <3>2. d \in serving' => d \in serving
        BY <1>0 DEF NodeTables, Keeps, Drops
    <3>3. m_msgClient[d] # 0 => ident'[m_msgClient[d]] = ident[m_msgClient[d]]
        BY <1>0, <2>1, <2>2 DEF NodeEffects, NodeIdent, UplinkInv
    <3>4. m_session2User'[d] = m_session2User[d]
        BY <2>2, NodeEntry DEF NodeEntries
    <3> QED BY <2>0, <3>1, <3>2, <3>3, <3>4 DEF AtNode
  <2>3. CASE d = c /\ Drops(c)
      BY <2>0, <2>3 DEF Drops, AtNode
  <2>4. CASE d = c /\ Keeps(c)
    <3>1. m_msgClient'[c] = m_msgClient[c]
        BY <2>4 DEF Keeps
    <3>2. Told(c) => ident'[m_msgClient[c]] # None
        BY <1>0, <2>1, <2>4, <3>1 DEF NodeEffects, NodeIdent, Told
    <3>3. AtNode(c)' # {} => AtNode(c) # {} \/ Told(c)
        BY <2>4 DEF Keeps
    <3>4. /\ report'[c] \subseteq report[c] \/ (Told(c) /\ \E u : report'[c] = {u})
          /\ serving' = serving
        BY <2>4 DEF Keeps
    <3>5. \A u, v \in report'[c] : u = v
        BY <2>0, <2>4, <3>4
    <3>6. report'[c] # {} => report[c] # {} \/ Told(c)
        BY <3>4
    <3>7. DOMAIN m_session2User'[c] # {} => m_msgClient[c] # 0 /\ ident[m_msgClient[c]] = c
      <4>1. DOMAIN m_session2User[c] # {} => m_msgClient[c] # 0 /\ ident[m_msgClient[c]] = c
          BY <2>0, <2>4 DEF AtNode
      <4>2. ASSUME NEW k, Answered(c, k) PROVE m_msgClient[c] # 0 /\ ident[m_msgClient[c]] = c
          BY <4>2 DEF Answered, OnRecvMsg, Uplink, Named
      <4> QED BY <4>1, <4>2, NodeEntry DEF NodeEntries
    <3>8. DOMAIN m_session2User'[c] # {} => ident'[m_msgClient[c]] = c
        BY <1>0, <2>1, <2>4, <3>1, <3>7, NamesAssumption DEF NodeEffects, NodeIdent
    <3> QED BY <2>0, <2>4, <3>1, <3>2, <3>3, <3>4, <3>5, <3>6, <3>8 DEF Told
  <2> QED BY <1>0, <2>2, <2>3, <2>4 DEF NodeTables
<1> QED BY <1>3, <1>4, <1>6, <1>7, <1>8, <1>9, <1>10 DEF PlaceInv

\* Somebody connects to the server.
LEMMA DialPlace ==
  ASSUME IndexInv, SockInv, UplinkInv, PlaceInv, NEW u \in Ids, OnAcceptSession(u),
         UNCHANGED <<up, down, ident, m_session2Ctx, rsp, fini, m_timerId2Info, m_session2User,
                     report, serving>>,
         \A c \in C2s : m_msgClient'[c] = m_msgClient[c] \/ (m_msgClient[c] = 0 /\ c \in serving)
  PROVE  PlaceInv'
<1> DEFINE e == [cmd |-> "accept", conn |-> next, user |-> u]
<1>1. /\ next + calls <= MaxInputs
      /\ \/ (visit' = visit /\ task' = task)
         \/ /\ visit' = [visit EXCEPT ![next] = [user |-> u, at |-> Root]]
            /\ task' = Append(task, e)
    BY DEF OnAcceptSession, Dial
<1>2. next \in Conns /\ next \in Nat /\ DOMAIN visit = Conns /\ visit[next].user = None
    BY <1>1, BoundsAssumption DEF SockInv, Conns, UplinkInv
<1>3. NodeVisits /\ (visit' = visit \/ visit'[next].user = u)
    BY <1>1, <1>2, NamesAssumption DEF NodeVisits, Ids
<1>4. /\ \A k \in AtServer : visit'[k] = visit[k]
      /\ \A k \in Conns : visit[k].user # None => visit'[k] = visit[k]
  <2>1. \A k \in AtServer : k \in Conns /\ k # next
    <3>1. \A k \in Conns : k \in Nat
        BY DEF Conns
    <3>2. next \in Nat
        BY <1>2
    <3> QED BY <3>1, <3>2 DEF SockInv
  <2>2. \A k \in Conns : visit[k].user # None => k # next
      BY <1>2
  <2> QED BY <1>3, <2>1, <2>2 DEF NodeVisits
<1>5. CtxFits'
    BY <1>4 DEF PlaceInv, CtxFits, AtServer
<1>6. HeldFits'
    BY <1>4 DEF PlaceInv, HeldFits, AtServer
<1>7. NodeFits'
    BY <1>4, NamesAssumption DEF PlaceInv, NodeFits, AtNode, SockInv
<1>8. Silent'
    BY <1>3 DEF PlaceInv, Silent, NodeVisits
<1>9. NodesSpeak'
    BY <1>4, NamesAssumption DEF PlaceInv, NodesSpeak
<1>10. Linked'
  <2>1. \A c \in C2s : m_msgClient'[c] = m_msgClient[c] \/ (AtNode(c) = {} /\ report[c] = {})
      BY DEF PlaceInv, Linked
  <2> QED BY <2>1 DEF PlaceInv, Linked, AtNode, Named
<1>11. WaitersFit'
  <2>1. \A i \in DOMAIN task : Waiting(i) =>
          /\ visit'[task[i].conn].user = task[i].user /\ task[i].user \in Ids
          /\ down[task[i].conn] = <<>>
    <3>1. \A i \in DOMAIN task : Waiting(i) => task[i].conn \in AtServer
        BY DEF Waiting, AtServer, Waiters
    <3> QED BY <1>4, <3>1 DEF PlaceInv, WaitersFit
  <2>2. CASE visit' = visit /\ task' = task
      BY <2>1, <2>2 DEF WaitersFit, Waiting
  <2>3. CASE visit'[next].user = u /\ task' = Append(task, e)
    <3>1. \A i \in DOMAIN task' : task'[i] = e \/ \E j \in DOMAIN task : task'[i] = task[j]
      <4>1. IsSeq(task)
          BY DEF IndexInv, TaskIsSeq, IsSeq
      <4> HIDE DEF e
      <4>2. SlidNew(task', task, e)
          BY <2>3, <4>1, SlidForms
      <4> QED BY <4>2, SlidFrom
    <3>2. down[next] = <<>>
        BY <1>2 DEF PlaceInv, Silent
    <3>3. ASSUME NEW i \in DOMAIN task', task'[i].cmd = "accept"
          PROVE  /\ visit'[task'[i].conn].user = task'[i].user /\ task'[i].user \in Ids
                 /\ down[task'[i].conn] = <<>>
      <4>1. CASE task'[i] = e
          BY <2>3, <3>2, <4>1
      <4>2. CASE task'[i] # e
          BY <2>1, <3>1, <3>3, <4>2 DEF Waiting
      <4> QED BY <4>1, <4>2
    <3> QED BY <3>3 DEF WaitersFit, Waiting
  <2> QED BY <1>1, <1>2, <2>2, <2>3
<1> QED BY <1>5, <1>6, <1>7, <1>8, <1>9, <1>10, <1>11 DEF PlaceInv

\* A client program receives or sends.
LEMMA ClientPlace ==
  ASSUME SockInv, UplinkInv, PlaceInv, NEW k \in Conns, ClientRecv(k) \/ \E u \in Ids : ClientSend(k, u)
  PROVE  PlaceInv'
<1>1. /\ visit[k].user \in Users /\ UNCHANGED visit
      /\ UNCHANGED <<m_session2Ctx, task, rsp, fini, m_timerId2Info, m_session2User, report, serving,
                     m_msgClient>>
    BY DEF ClientRecv, ClientSend, ClientConns, c2sVars, serverVars
<1>2. IsQueue(up) /\ IsQueue(down) /\ DOMAIN ident = Conns
    BY DEF UplinkInv, LinkShape
<1>3. \A t \in Conns : t # k => up'[t] = up[t] /\ down'[t] = down[t] /\ ident'[t] = ident[t]
  <2>1. CASE ClientRecv(k)
      BY <1>2, <2>1, PopQueue DEF ClientRecv, OnFirstPacket
  <2>2. ASSUME NEW u, ClientSend(k, u)
        PROVE  \A t \in Conns : t # k => up'[t] = up[t] /\ down'[t] = down[t] /\ ident'[t] = ident[t]
    <3> DEFINE pk == [j \in {k} |-> Data(ident[k], u)]
    <3>1. up' = Send(up, pk) /\ UNCHANGED <<down, ident>> /\ DOMAIN pk = {k}
        BY <2>2 DEF ClientSend
    <3> HIDE DEF pk
    <3> QED BY <1>2, <3>1, SendQueue
  <2> QED BY <2>1, <2>2
<1>4. \A i \in DOMAIN up'[k] : up'[k][i].type = "data" \/ \E j \in DOMAIN up[k] : up'[k][i] = up[k][j]
  <2>1. CASE ClientRecv(k)
      BY <2>1 DEF ClientRecv
  <2>2. ASSUME NEW u, ClientSend(k, u)
        PROVE  \A i \in DOMAIN up'[k] : up'[k][i].type = "data" \/ \E j \in DOMAIN up[k] : up'[k][i] = up[k][j]
    <3> DEFINE e == Data(ident[k], u)
               pk == [j \in {k} |-> e]
    <3>1. up' = Send(up, pk) /\ DOMAIN pk = {k} /\ pk[k] = e /\ e.type = "data"
        BY <2>2 DEF ClientSend, Data
    <3> HIDE DEF pk, e
    <3>2. up'[k] = up[k] \/ up'[k] = Append(up[k], e)
        BY <1>2, <3>1, SendQueue
    <3>3. SlidNew(Append(up[k], e), up[k], e)
        BY <1>2, SlidForms DEF IsQueue
    <3>4. \A i \in DOMAIN Append(up[k], e) : Append(up[k], e)[i] = e \/ \E j \in DOMAIN up[k] : Append(up[k], e)[i] = up[k][j]
        BY <3>3, SlidFrom
    <3> QED BY <3>1, <3>2, <3>4
  <2> QED BY <2>1, <2>2
<1>5. CtxFits' /\ HeldFits' /\ NodeFits'
    BY <1>1 DEF PlaceInv, CtxFits, HeldFits, NodeFits, AtNode
<1>6. Silent'
    BY <1>1, <1>3, NamesAssumption DEF PlaceInv, Silent
<1>7. NodesSpeak'
  <2> SUFFICES ASSUME NEW t \in Conns, NEW i \in DOMAIN up'[t]
               PROVE  up'[t][i].type \in {"data", "login", "logout"}
                        /\ (up'[t][i].type # "data" => visit[t].user \in C2s)
      BY <1>1 DEF NodesSpeak
  <2>1. up'[t][i].type = "data" \/ \E j \in DOMAIN up[t] : up'[t][i] = up[t][j]
      BY <1>3, <1>4
  <2> QED BY <2>1 DEF PlaceInv, NodesSpeak
<1>8. Linked'
  <2>1. \A c \in C2s : m_msgClient[c] # 0 => m_msgClient[c] \in Conns /\ m_msgClient[c] # k
      BY <1>1, NamesAssumption DEF UplinkInv, IsUplink
  <2> QED BY <1>1, <1>3, <2>1 DEF PlaceInv, Linked, AtNode, Named
<1>9. WaitersFit'
  <2>1. down[k] = <<>> => down'[k] = <<>>
      BY DEF ClientRecv, ClientSend
  <2>2. \A i \in DOMAIN task : Waiting(i) => task[i].conn \in Conns
      BY DEF Waiting, SockInv, AtServer, Waiters
  <2>3. \A t \in Conns : down[t] = <<>> => down'[t] = <<>>
      BY <1>3, <2>1
  <2> QED BY <1>1, <2>2, <2>3 DEF PlaceInv, WaitersFit, Waiting
<1> QED BY <1>5, <1>6, <1>7, <1>8, <1>9 DEF PlaceInv

\* PlaceInv holds in every state.
LEMMA PlaceInvariance == Spec => []PlaceInv
<1>1. Init => PlaceInv
  <2> SUFFICES ASSUME Init PROVE PlaceInv
      OBVIOUS
  <2>1. /\ DOMAIN m_session2Ctx = {} /\ task = <<>> /\ rsp = {} /\ fini = {}
        /\ \A k \in Conns : visit[k].user = None /\ up[k] = <<>> /\ down[k] = <<>> /\ ident[k] = None
        /\ \A c \in C2s : AtNode(c) = {} /\ m_msgClient[c] = 0 /\ report[c] = {}
      BY DEF Init, LinkInit, ServerInit, C2sInit, AtNode
  <2>2. CtxFits /\ HeldFits /\ NodeFits /\ Silent /\ NodesSpeak /\ Linked
      BY <2>1 DEF CtxFits, HeldFits, NodeFits, Silent, NodesSpeak, Linked, AtNode
  <2>3. WaitersFit
      BY <2>1 DEF WaitersFit
  <2> QED BY <2>2, <2>3 DEF PlaceInv
<1>2. (/\ IndexInv /\ C2sInv /\ SockInv /\ UplinkInv /\ UplinkInv'
       /\ PlaceInv /\ [Next]_vars) => PlaceInv'
  <2> SUFFICES ASSUME IndexInv, C2sInv, SockInv, UplinkInv, UplinkInv', PlaceInv, [Next]_vars
               PROVE  PlaceInv'
      OBVIOUS
  <2>1. CASE UNCHANGED vars
      BY <2>1 DEF vars, linkVars, serverVars, c2sVars, PlaceInv, CtxFits, WaitersFit, HeldFits,
           NodeFits, Silent, NodesSpeak, Linked, Named, AtNode, Waiting
  <2>2. CASE ServerNext /\ UNCHANGED c2sVars
      BY <2>2, ServerPlace
  <2>3. ASSUME NEW c \in C2s, C2sNext(c), UNCHANGED serverVars PROVE PlaceInv'
      BY <2>3, NodePlace
  <2>4. ASSUME NEW c \in C2s, Connect(c) PROVE PlaceInv'
    <3>1. /\ OnAcceptSession(c) /\ m_msgClient[c] = 0 /\ c \in serving
          /\ m_msgClient' = [m_msgClient EXCEPT ![c] = next]
          /\ UNCHANGED <<up, down, ident, m_session2Ctx, rsp, fini, m_timerId2Info, m_session2User,
                         report, serving>>
        BY <2>4 DEF Connect
    <3>2. \A d \in C2s : m_msgClient'[d] = m_msgClient[d] \/ (m_msgClient[d] = 0 /\ d \in serving)
        BY <3>1 DEF UplinkInv, LinkShape
    <3>3. c \in Ids
        BY DEF Ids
    <3> QED BY <3>1, <3>2, <3>3, DialPlace
  <2>5. ASSUME NEW u \in Users, ClientConnect(u) PROVE PlaceInv'
    <3>1. /\ OnAcceptSession(u) /\ u \in Ids
          /\ UNCHANGED <<up, down, ident, m_session2Ctx, rsp, fini, m_timerId2Info, m_session2User,
                         report, serving>>
          /\ m_msgClient' = m_msgClient
        BY <2>5 DEF ClientConnect, c2sVars, Ids
    <3> QED BY <3>1, DialPlace
  <2>6. ASSUME NEW k \in Conns, ClientRecv(k) \/ \E u \in Ids : ClientSend(k, u) PROVE PlaceInv'
      BY <2>6, ClientPlace
  <2> QED BY <2>1, <2>2, <2>3, <2>4, <2>5, <2>6 DEF Next
<1> QED BY <1>1, <1>2, IndexInvariance, C2sInvariance, SockInvariance, UplinkInvariance, PTL DEF Spec
-----------------------------------------------------------------------------
(***************************************************************************)
(* OwnInv: who is meant by a login.                                        *)
(***************************************************************************)

\* Who made a connection does not change.
VisitsStay == \A k \in Conns : visit[k].user # None => visit'[k] = visit[k]

\* Whose a connection is does not change.
LEMMA OwnStays ==
  ASSUME VisitsStay, NEW k, NEW u, NEW c, Own(k, u, c)
  PROVE  Own(k, u, c)'
BY NamesAssumption DEF Own, VisitsStay

\* A connection that has been made stays as it was made.
LEMMA VisitorsStay ==
  ASSUME SockInv, UplinkInv, C2sInv, [Next]_vars
  PROVE  VisitsStay
<1>1. next \in Nat /\ \A k \in Conns : k \in Nat
    BY DEF SockInv, Conns
<1>2. \A k \in Conns : k = next => visit[k].user = None
    BY <1>1 DEF UplinkInv
<1>a. ASSUME visit' = visit PROVE VisitsStay
    BY <1>a DEF VisitsStay
<1>b. ASSUME NEW u, OnAcceptSession(u) PROVE VisitsStay
  <2>1. \A k \in Conns : k # next => visit'[k] = visit[k]
      BY <1>b DEF OnAcceptSession, Dial, SockInv
  <2> QED BY <1>2, <2>1 DEF VisitsStay
<1>3. CASE UNCHANGED vars
    BY <1>3, <1>a DEF vars, linkVars
<1>4. CASE ServerNext /\ UNCHANGED c2sVars
    BY <1>4, <1>a, ServerShape DEF UplinkInv
<1>5. ASSUME NEW c \in C2s, C2sNext(c) PROVE VisitsStay
    BY <1>2, <1>5, NodeTable DEF VisitsStay, NodeTables, NodeVisits
<1>6. ASSUME NEW c \in C2s, Connect(c) PROVE VisitsStay
    BY <1>6, <1>b DEF Connect
<1>7. ASSUME NEW u \in Users, ClientConnect(u) PROVE VisitsStay
    BY <1>7, <1>b DEF ClientConnect
<1>8. ASSUME NEW k \in Conns, ClientRecv(k) \/ \E u \in Ids : ClientSend(k, u) PROVE VisitsStay
    BY <1>8, <1>a DEF ClientRecv, ClientSend
<1> QED BY <1>3, <1>4, <1>5, <1>6, <1>7, <1>8 DEF Next

\* A command to add a user behind a C2S that is carried out.
Adds(c, u, k, s) ==
  /\ AddSubUser /\ rsp = {} /\ task # <<>> /\ task' = Tail(task) /\ alive /\ alive'
  /\ task[1].cmd = "recv" /\ task[1].msg.type = "login" /\ 1 \in DOMAIN task
  /\ task[1].c2s = c /\ task[1].msg.user = u /\ task[1].msg.index = k
  /\ s = m_user2Ctx[c] /\ u # c /\ Known(c) /\ Ctx(c).isC2s /\ Ctx(c).base = c
  /\ rsp' = {[conn |-> s, msg |-> LoginOk(k, u), user |-> u]}
  /\ DeleteSessions(Dead(u), Notify(u, Known(u) /\ c # Ctx(u).base))
  /\ fini' = fini

\* AddSubUser logs a client in, or drops the command.
LEMMA AddSubCases ==
  ASSUME IndexInv, AddSubUser
  PROVE  \/ \E c, u, k, s : Adds(c, u, k, s)
         \/ /\ UNCHANGED <<linkVars, m_session2Ctx, m_user2Ctx, rsp, alive, fini>>
            /\ rsp = {} /\ task # <<>> /\ task' = Tail(task)
<1>0. /\ rsp = {} /\ task # <<>> /\ task' = Tail(task) /\ alive /\ Head(task).cmd = "recv"
      /\ Head(task).msg.type = "login" /\ alive' = alive /\ fini' = fini
    BY DEF AddSubUser, Command
<1>1. Head(task) = task[1] /\ 1 \in DOMAIN task
    BY <1>0, TailTask DEF IndexInv, TaskIsSeq
<1> DEFINE c == Head(task).c2s
           u == Head(task).msg.user
           k == Head(task).msg.index
           s == m_user2Ctx[c]
<1>2. CASE u # c /\ Known(c) /\ Ctx(c).isC2s /\ Ctx(c).base = c
  <2>1. /\ rsp' = {[conn |-> s, msg |-> LoginOk(k, u), user |-> u]}
        /\ DeleteSessions(Dead(u), Notify(u, Known(u) /\ c # Ctx(u).base))
      BY <1>2 DEF AddSubUser
  <2>2. c = task[1].c2s /\ u = task[1].msg.user /\ k = task[1].msg.index /\ s = m_user2Ctx[c]
      BY <1>1
  <2> HIDE DEF c, u, k, s
  <2>3. Adds(c, u, k, s)
      BY <1>0, <1>1, <1>2, <2>1, <2>2 DEF Adds
  <2> QED BY <2>3
<1>3. CASE ~(u # c /\ Known(c) /\ Ctx(c).isC2s /\ Ctx(c).base = c)
  <2>1. UNCHANGED <<linkVars, m_session2Ctx, m_user2Ctx, rsp>>
      BY <1>3 DEF AddSubUser, Nothing
  <2> QED BY <1>0, <2>1
<1> QED BY <1>2, <1>3

Added(c, u, s) ==
  /\ s \in DOMAIN m_session2Ctx' /\ s \in DOMAIN m_session2Ctx /\ m_session2Ctx[s].base = c
  /\ DOMAIN m_session2Ctx' = DOMAIN m_session2Ctx \ Dead(u)
  /\ \A t \in DOMAIN m_session2Ctx' :
       /\ t # s => Less(m_session2Ctx'[t], m_session2Ctx[t], {u})
       /\ m_session2Ctx'[t].base = m_session2Ctx[t].base
       /\ m_session2Ctx'[t].isC2s = m_session2Ctx[t].isC2s
  /\ m_session2Ctx'[s].subs = m_session2Ctx[s].subs \cup {u}

\* What AddSubUser does to the contexts when it logs user u of node c in.
LEMMA AddsEffect ==
  ASSUME IndexInv, NEW c, NEW u, NEW k, NEW s, Adds(c, u, k, s)
  PROVE  Added(c, u, s)
<1>1. Head(task) = task[1]
    BY TailTask DEF Adds, IndexInv, TaskIsSeq
<1>2. c = Head(task).c2s /\ u = Head(task).msg.user /\ s = m_user2Ctx[c]
    BY <1>1 DEF Adds
<1>3. AddSubUser /\ u # c /\ Known(c) /\ Ctx(c).isC2s /\ Ctx(c).base = c
    BY DEF Adds
<1>4. /\ s \in DOMAIN m_session2Ctx' /\ m_session2Ctx[s].base = c
      /\ DOMAIN m_session2Ctx' = DOMAIN m_session2Ctx \ Dead(u)
      /\ \A t \in DOMAIN m_session2Ctx' :
           /\ t # s => Less(m_session2Ctx'[t], m_session2Ctx[t], {u})
           /\ m_session2Ctx'[t].base = m_session2Ctx[t].base
           /\ m_session2Ctx'[t].isC2s = m_session2Ctx[t].isC2s
      /\ m_session2Ctx'[s].subs = m_session2Ctx[s].subs \cup {u}
    BY <1>2, <1>3, AddSubEffect
<1>5. s \in DOMAIN m_session2Ctx
    BY <1>4
<1> QED BY <1>4, <1>5 DEF Added

\* The users behind a node have each made a connection to it,
LEMMA ServerSubs ==
  ASSUME IndexInv, OwnInv, ServerNext
  PROVE  SubsFit'
<1>0. SubsFit /\ TaskOwn
    BY DEF OwnInv
<1>a. ASSUME m_session2Ctx' = m_session2Ctx PROVE SubsFit'
    BY <1>0, <1>a DEF SubsFit
<1>b. ASSUME NEW u, m_session2Ctx' = CtxWithout(u) PROVE SubsFit'
  <2>1. \A s \in DOMAIN m_session2Ctx' :
          s \in DOMAIN m_session2Ctx /\ Less(m_session2Ctx'[s], m_session2Ctx[s], {u})
      BY <1>b, WithoutUser
  <2> QED BY <1>0, <2>1 DEF SubsFit, Less
<1>1. CASE \/ \E u : KickoutUser(u) \/ SendMsg(u)
           \/ \E s : OnRecvSession(s) \/ OnCloseSession(s)
           \/ RejectSession \/ Respond \/ LoginRefused \/ DrainCommand \/ FiniSessions
    BY <1>1, <1>a DEF KickoutUser, SendMsg, OnRecvSession, OnCloseSession, RejectSession, Respond,
         LoginRefused, DrainCommand, FiniSessions, Nothing, serverVars
<1>2. CASE ClientLogout \/ AsyncOnCloseSession \/ AsyncKickoutUser
    BY <1>2, <1>a, <1>b, RemoveEffect
<1>3. CASE Fini
    BY <1>3 DEF Fini, Without, SubsFit
<1>4. CASE AddBaseUser
  <2> DEFINE s == Head(task).conn
             u == Head(task).user
  <2>1. /\ m_session2Ctx'[s].subs = {}
        /\ \A t \in DOMAIN m_session2Ctx' \ {s} :
             t \in DOMAIN m_session2Ctx /\ Less(m_session2Ctx'[t], m_session2Ctx[t], {u})
      BY <1>4, AddBaseEffect
  <2> HIDE DEF s, u
  <2> QED BY <1>0, <2>1 DEF SubsFit, Less
<1>5. ASSUME NEW c, NEW u, NEW k, NEW s, Adds(c, u, k, s) PROVE SubsFit'
  <2>1. u \in Users
      BY <1>0, <1>5 DEF Adds, TaskOwn, Own
  <2>2. Added(c, u, s)
      BY <1>5, AddsEffect
  <2> QED BY <1>0, <2>1, <2>2 DEF Added, SubsFit, Less
<1>6. CASE AddSubUser
    BY <1>6, <1>5, <1>a, AddSubCases
<1> QED BY <1>1, <1>2, <1>3, <1>4, <1>6 DEF ServerNext

\* and so has the user of every response the server has to send.
LEMMA ServerRsp ==
  ASSUME IndexInv, SockInv, PlaceInv, OwnInv, ServerNext, visit' = visit
  PROVE  RspOwn'
<1>0. RspOwn /\ TaskOwn /\ WaitersFit /\ CtxFits
    BY DEF OwnInv, PlaceInv
<1>a. ASSUME UNCHANGED <<m_session2Ctx, alive>>, rsp' \subseteq rsp PROVE RspOwn'
    BY <1>0, <1>a DEF RspOwn, IsResponse, IsAnswer, Own
<1>b. ASSUME rsp' = {} PROVE RspOwn'
    BY <1>b DEF RspOwn
<1>1. CASE \/ \E u : KickoutUser(u) \/ SendMsg(u)
           \/ \E s : OnRecvSession(s) \/ OnCloseSession(s)
           \/ RejectSession \/ Respond \/ LoginRefused \/ DrainCommand \/ FiniSessions
    BY <1>1, <1>a, <1>b DEF KickoutUser, SendMsg, OnRecvSession, OnCloseSession, RejectSession,
         Respond, LoginRefused, DrainCommand, FiniSessions, Nothing, serverVars
<1>2. CASE ClientLogout \/ AsyncOnCloseSession \/ AsyncKickoutUser
    BY <1>2, <1>b, RemoveEffect
<1>3. CASE Fini
  <2>1. rsp' = rsp /\ ~alive'
      BY <1>3 DEF Fini
  <2> QED BY <1>0, <2>1 DEF RspOwn, IsResponse, IsAnswer, Own
<1>4. CASE AddBaseUser
  <2>0. PICK s, u : s = Head(task).conn /\ u = Head(task).user
      OBVIOUS
  <2> DEFINE r == [conn |-> s, msg |-> Response(u), user |-> u]
  <2>1. Waiting(1) /\ Head(task) = task[1]
      BY <1>4, <2>0, AddBaseEffect
  <2>2. u \in Ids
      BY <1>0, <2>0, <2>1 DEF WaitersFit, Waiting
  <2>3. rsp' = {r}
      BY <1>4, <2>0 DEF AddBaseUser
  <2>4. IsResponse(r)' /\ ~IsAnswer(r)'
      BY <2>2 DEF IsResponse, IsAnswer, Response, LoginOk
  <2> HIDE DEF r
  <2> QED BY <2>3, <2>4 DEF RspOwn
<1>5. ASSUME NEW c, NEW u, NEW k, NEW s, Adds(c, u, k, s) PROVE RspOwn'
  <2> DEFINE r == [conn |-> s, msg |-> LoginOk(k, u), user |-> u]
  <2>1. Own(k, u, c) /\ rsp' = {r}
      BY <1>0, <1>5 DEF Adds, TaskOwn
  <2>2. Added(c, u, s)
      BY <1>5, AddsEffect
  <2>3. visit[s].user = c
      BY <1>0, <2>2 DEF CtxFits, Added
  <2>4. IsAnswer(r)'
      BY <2>1, <2>3 DEF IsAnswer, LoginOk, Own
  <2>5. r.user = u /\ r.conn = s
      OBVIOUS
  <2> HIDE DEF r
  <2> QED BY <2>1, <2>2, <2>4, <2>5 DEF RspOwn, Added
<1>6. CASE AddSubUser
    BY <1>6, <1>5, <1>a, AddSubCases
<1> QED BY <1>1, <1>2, <1>3, <1>4, <1>6 DEF ServerNext

\* A step of the server keeps every login with the connection that asked for it.
LEMMA ServerOwn ==
  ASSUME IndexInv, SockInv, UplinkInv, PlaceInv, OwnInv, ServerNext, UNCHANGED c2sVars
  PROVE  OwnInv'
<1>0. visit' = visit /\ ServerEffects /\ TaskEffect
    BY ServerShape, ServerEffect, ServerTask DEF UplinkInv, c2sVars
<1>a. \A k, u, c : Own(k, u, c)' <=> Own(k, u, c)
    BY <1>0 DEF Own
<1>1. SubsFit' /\ RspOwn'
    BY <1>0, ServerSubs, ServerRsp
<1>2. TablesOwn'
    BY <1>a DEF c2sVars, OwnInv, TablesOwn
<1>3. UpOwn'
  <2> SUFFICES ASSUME NEW t \in Conns, NEW i \in DOMAIN up'[t], up'[t][i].type = "login"
               PROVE  Own(up'[t][i].index, up'[t][i].user, visit[t].user)
      BY <1>0, <1>a DEF UpOwn
  <2>1. \E j \in DOMAIN up[t] : up'[t][i] = up[t][j]
      BY <1>0 DEF ServerEffects, Slid
  <2> QED BY <2>1 DEF OwnInv, UpOwn
<1>4. DownOwn'
  <2> SUFFICES ASSUME NEW t \in Conns, NEW i \in DOMAIN down'[t], down'[t][i].type = "login_ok"
               PROVE  Own(down'[t][i].index, down'[t][i].user, visit[t].user)
      BY <1>0, <1>a DEF DownOwn
  <2>1. (\E j \in DOMAIN down[t] : down'[t][i] = down[t][j]) \/ ServerSays(t, down'[t][i])
      BY <1>0 DEF ServerEffects, ServerDown, Slid, SlidNew
  <2>2. CASE \E j \in DOMAIN down[t] : down'[t][i] = down[t][j]
      BY <2>2 DEF OwnInv, DownOwn
  <2>3. CASE ServerSays(t, down'[t][i])
    <3>1. PICK r \in rsp : t = r.conn /\ down'[t][i] = r.msg
        BY <2>3 DEF ServerSays
    <3>2. ~IsResponse(r)
        BY <3>1 DEF IsResponse, Response
    <3>3. IsAnswer(r)
        BY <3>2 DEF OwnInv, RspOwn
    <3>4. r.msg.user = r.user
        BY <3>3 DEF IsAnswer, LoginOk
    <3> QED BY <3>1, <3>3, <3>4 DEF IsAnswer
  <2> QED BY <2>1, <2>2, <2>3
<1>5. TaskOwn'
  <2> SUFFICES ASSUME NEW i \in DOMAIN task', task'[i].cmd = "recv"
               PROVE  /\ task'[i].c2s \in C2s
                      /\ task'[i].msg.type = "login" =>
                           Own(task'[i].msg.index, task'[i].msg.user, task'[i].c2s)
      BY <1>a DEF TaskOwn
  <2>1. CASE \E j \in DOMAIN task : task'[i] = task[j]
      BY <2>1 DEF OwnInv, TaskOwn
  <2>2. CASE TaskNews(task'[i])
    <3>1. PICK s \in Conns :
            /\ s \in DOMAIN m_session2Ctx /\ up[s] # <<>> /\ m_session2Ctx[s].isC2s
            /\ task'[i] = [cmd |-> "recv", conn |-> s, msg |-> up[s][1], c2s |-> m_session2Ctx[s].base]
        BY <2>2 DEF TaskNews, Moved
    <3>2. 1 \in DOMAIN up[s]
        BY <3>1, TailIsSeq DEF UplinkInv, LinkShape, IsQueue
    <3>3. m_session2Ctx[s].base \in C2s /\ m_session2Ctx[s].base = visit[s].user
        BY <3>1 DEF PlaceInv, CtxFits
    <3>4. task'[i].msg = up[s][1] /\ task'[i].c2s = visit[s].user
        BY <3>1, <3>3
    <3> QED BY <3>2, <3>3, <3>4 DEF OwnInv, UpOwn
  <2> QED BY <1>0, <2>1, <2>2, TaskFrom
<1> QED BY <1>1, <1>2, <1>3, <1>4, <1>5 DEF OwnInv

\* The message of the uplink that is being processed is the oldest.
LEMMA MsgIsFirst ==
  ASSUME UplinkInv, NEW c \in C2s, m_msgClient[c] # 0, down[m_msgClient[c]] # <<>>
  PROVE  /\ m_msgClient[c] \in Conns /\ 1 \in DOMAIN down[m_msgClient[c]]
         /\ Msg(c) = down[m_msgClient[c]][1]
<1>1. m_msgClient[c] \in Conns /\ IsSeq(down[m_msgClient[c]])
    BY DEF UplinkInv, IsUplink, LinkShape, IsQueue
<1> QED BY <1>1, TailIsSeq DEF Msg

\* A step of a node keeps every login with the connection that asked for it.
LEMMA NodeOwn ==
  ASSUME IndexInv, C2sInv, SockInv, UplinkInv, PlaceInv, OwnInv, VisitsStay, NEW c \in C2s, C2sNext(c),
         UNCHANGED serverVars
  PROVE  OwnInv'
<1>0. NodeEffects(c) /\ NodeTables(c) /\ NodeEntries(c)
      /\ UNCHANGED <<m_session2Ctx, task, rsp, alive>>
    BY NodeEffect, NodeTable, NodeEntry DEF NodeTables, serverVars
<1>1. SubsFit'
    BY <1>0 DEF OwnInv, SubsFit
<1>2. TaskOwn'
    BY <1>0, OwnStays DEF OwnInv, TaskOwn
<1>3. ASSUME NEW t \in Conns, NEW k, NEW u, NEW w, w = visit[t].user, Own(k, u, w)
      PROVE  Own(k, u, w)' /\ visit'[t].user = w
  <2>1. visit'[t] = visit[t]
      BY <1>3, NamesAssumption DEF Own, VisitsStay
  <2> QED BY <1>3, <2>1, OwnStays
<1>4. RspOwn'
  <2> SUFFICES ASSUME NEW r \in rsp
               PROVE  /\ IsResponse(r)' \/ IsAnswer(r)'
                      /\ alive' /\ IsAnswer(r)' => r.user \in m_session2Ctx'[r.conn].subs
      BY <1>0 DEF RspOwn
  <2>1. /\ IsResponse(r) \/ IsAnswer(r)
        /\ alive /\ IsAnswer(r) => r.user \in m_session2Ctx[r.conn].subs
      BY DEF OwnInv, RspOwn
  <2>2. CASE IsResponse(r)
      BY <2>2 DEF IsResponse, IsAnswer, Response, LoginOk
  <2>3. CASE IsAnswer(r)
    <3>1. r.conn \in Conns
        BY DEF PlaceInv, HeldFits, SockInv, AtServer
    <3>2. IsAnswer(r)'
      <4>1. PICK k, u, w : k = r.msg.index /\ u = r.user /\ w = visit[r.conn].user
          OBVIOUS
      <4>2. Own(k, u, w)
          BY <2>3, <4>1 DEF IsAnswer
      <4>3. Own(k, u, w)' /\ visit'[r.conn].user = w
          BY <1>3, <3>1, <4>1, <4>2
      <4> QED BY <2>3, <4>1, <4>3 DEF IsAnswer, Own
    <3> QED BY <1>0, <2>1, <2>3, <3>2
  <2> QED BY <2>1, <2>2, <2>3
<1>5. UpOwn'
  <2> SUFFICES ASSUME NEW t \in Conns, NEW i \in DOMAIN up'[t], up'[t][i].type = "login",
                      NEW k, NEW u, k = up'[t][i].index, u = up'[t][i].user
               PROVE  \E w : w = visit'[t].user /\ Own(k, u, w)'
      BY DEF UpOwn, Own
  <2>1. CASE \E j \in DOMAIN up[t] : up'[t][i] = up[t][j]
    <3>1. PICK w : w = visit[t].user
        OBVIOUS
    <3>2. Own(k, u, w)
        BY <2>1, <3>1 DEF OwnInv, UpOwn
    <3> QED BY <1>3, <3>1, <3>2
  <2>2. CASE t = m_msgClient[c] /\ NodeSays(c, up'[t][i])
    <3>1. /\ visit'[next].user = up'[t][i].user /\ visit'[next].at = c /\ next \in Conns
          /\ up'[t][i].index = next /\ up'[t][i].user \in Users
          /\ m_msgClient[c] # 0 /\ ident[m_msgClient[c]] # None
        BY <2>2 DEF NodeSays
    <3>2. visit[t].user = c
        BY <2>2, <3>1, ToldIsMade
    <3>3. visit'[t] = visit[t]
        BY <3>2, NamesAssumption DEF VisitsStay
    <3> QED BY <3>1, <3>2, <3>3 DEF Own
  <2>3. (\E j \in DOMAIN up[t] : up'[t][i] = up[t][j]) \/ (t = m_msgClient[c] /\ NodeSays(c, up'[t][i]))
      BY <1>0 DEF NodeEffects, NodeUp, Slid, SlidNew
  <2> QED BY <2>1, <2>2, <2>3
<1>6. DownOwn'
  <2> SUFFICES ASSUME NEW t \in Conns, NEW i \in DOMAIN down'[t], down'[t][i].type = "login_ok",
                      NEW k, NEW u, k = down'[t][i].index, u = down'[t][i].user
               PROVE  \E w : w = visit'[t].user /\ Own(k, u, w)'
      BY DEF DownOwn, Own
  <2>1. \E j \in DOMAIN down[t] : down'[t][i] = down[t][j]
      BY <1>0 DEF NodeEffects, NodeDown, Slid, SlidNew
  <2>2. PICK w : w = visit[t].user
      OBVIOUS
  <2>3. Own(k, u, w)
      BY <2>1, <2>2 DEF OwnInv, DownOwn
  <2> QED BY <1>3, <2>2, <2>3
<1>7. TablesOwn'
  <2>1. ASSUME NEW d \in C2s, NEW k \in DOMAIN m_timerId2Info'[d], NEW u, u = m_timerId2Info'[d][k]
        PROVE  Own(k, u, d)'
    <3>1. CASE k \in DOMAIN m_timerId2Info[d] /\ u = m_timerId2Info[d][k]
      <4>1. Own(k, u, d)
          BY <3>1 DEF OwnInv, TablesOwn
      <4> QED BY <4>1, OwnStays
    <3>2. CASE d = c /\ Enters(c, k)
        BY <2>1, <3>2 DEF Enters, Own
    <3> QED BY <1>0, <2>1, <3>1, <3>2 DEF NodeEntries
  <2>2. ASSUME NEW d \in C2s, NEW k \in DOMAIN m_session2User'[d], NEW u, u = m_session2User'[d][k]
        PROVE  Own(k, u, d)'
    <3>1. CASE k \in DOMAIN m_session2User[d] /\ u = m_session2User[d][k]
      <4>1. Own(k, u, d)
          BY <3>1 DEF OwnInv, TablesOwn
      <4> QED BY <4>1, OwnStays
    <3>2. CASE d = c /\ Answered(c, k)
      <4>1. /\ m_msgClient[c] # 0 /\ down[m_msgClient[c]] # <<>> /\ ident[m_msgClient[c]] # None
            /\ Msg(c).type = "login_ok"
            /\ k = Msg(c).index /\ m_session2User'[c][k] = Msg(c).user
          BY <3>2 DEF Answered, OnRecvMsg, Uplink, Msg
      <4>2. /\ m_msgClient[c] \in Conns /\ 1 \in DOMAIN down[m_msgClient[c]]
            /\ Msg(c) = down[m_msgClient[c]][1]
          BY <4>1, MsgIsFirst
      <4>3. visit[m_msgClient[c]].user = c
          BY <4>1, ToldIsMade
      <4>4. Own(k, u, d)
          BY <2>2, <3>2, <4>1, <4>2, <4>3 DEF OwnInv, DownOwn
      <4> QED BY <4>4, OwnStays
    <3> QED BY <1>0, <2>2, <3>1, <3>2 DEF NodeEntries
  <2> QED BY <2>1, <2>2 DEF TablesOwn, Own
<1> QED BY <1>1, <1>2, <1>4, <1>5, <1>6, <1>7 DEF OwnInv

\* Somebody connects to the server, or a client program receives or sends.
LEMMA DialOwn ==
  ASSUME IndexInv, SockInv, UplinkInv, PlaceInv, OwnInv, VisitsStay, NEW v, OnAcceptSession(v),
         UNCHANGED <<alive, up, down, m_session2Ctx, rsp, m_timerId2Info, m_session2User>>
  PROVE  OwnInv'
<1>1. SubsFit' /\ UpOwn' /\ DownOwn' /\ TablesOwn'
  <2>1. \A k, u, c : Own(k, u, c) => Own(k, u, c)'
      BY OwnStays
  <2>2. \A t \in Conns : visit[t].user \in C2s => visit'[t] = visit[t]
      BY NamesAssumption DEF VisitsStay
  <2>3. \A k, u, c : Own(k, u, c) => c \in C2s
      BY DEF Own
  <2> HIDE DEF Own
  <2> QED BY <2>1, <2>2, <2>3 DEF OwnInv, SubsFit, UpOwn, DownOwn, TablesOwn
<1>2. RspOwn'
  <2> SUFFICES ASSUME NEW r \in rsp
               PROVE  /\ IsResponse(r)' \/ IsAnswer(r)'
                      /\ alive' /\ IsAnswer(r)' => r.user \in m_session2Ctx'[r.conn].subs
      BY DEF RspOwn
  <2>1. /\ IsResponse(r) \/ IsAnswer(r)
        /\ alive /\ IsAnswer(r) => r.user \in m_session2Ctx[r.conn].subs
        /\ r.conn \in Conns
      BY DEF OwnInv, RspOwn, PlaceInv, HeldFits, SockInv, AtServer
  <2>2. CASE IsResponse(r)
      BY <2>2 DEF IsResponse, IsAnswer, Response, LoginOk
  <2>3. CASE IsAnswer(r)
    <3>1. PICK k, u, w : k = r.msg.index /\ u = r.user /\ w = visit[r.conn].user
        OBVIOUS
    <3>2. Own(k, u, w)
        BY <2>3, <3>1 DEF IsAnswer
    <3>3. Own(k, u, w)'
        BY <3>2, OwnStays
    <3>4. visit'[r.conn] = visit[r.conn]
        BY <2>1, <3>1, <3>2, NamesAssumption DEF Own, VisitsStay
    <3>5. IsAnswer(r)'
        BY <2>3, <3>1, <3>3, <3>4 DEF IsAnswer, Own
    <3> QED BY <2>1, <2>3, <3>5
  <2> QED BY <2>1, <2>2, <2>3
<1>3. TaskOwn'
  <2> DEFINE e == [cmd |-> "accept", conn |-> next, user |-> v]
  <2>1. task' = task \/ (task' = Append(task, e) /\ e.cmd = "accept")
      BY DEF OnAcceptSession
  <2> HIDE DEF e
  <2>2. \A i \in DOMAIN task' : task'[i].cmd = "accept" \/ \E j \in DOMAIN task : task'[i] = task[j]
    <3>1. IsSeq(task)
        BY DEF IndexInv, TaskIsSeq, IsSeq
    <3>2. SlidNew(Append(task, e), task, e)
        BY <3>1, SlidForms
    <3> QED BY <2>1, <3>2, SlidFrom
  <2> SUFFICES ASSUME NEW i \in DOMAIN task', task'[i].cmd = "recv",
                      NEW k, NEW u, NEW c, k = task'[i].msg.index, u = task'[i].msg.user, c = task'[i].c2s
               PROVE  c \in C2s /\ (task'[i].msg.type = "login" => Own(k, u, c)')
      BY DEF TaskOwn, Own
  <2>3. c \in C2s /\ (task'[i].msg.type = "login" => Own(k, u, c))
      BY <2>2 DEF OwnInv, TaskOwn
  <2> QED BY <2>3, OwnStays
<1> QED BY <1>1, <1>2, <1>3 DEF OwnInv

\* So does a client.
LEMMA ClientOwn ==
  ASSUME SockInv, UplinkInv, PlaceInv, OwnInv, NEW k \in Conns, ClientRecv(k) \/ \E u \in Ids : ClientSend(k, u)
  PROVE  OwnInv'
<1>1. UNCHANGED <<visit, alive, m_session2Ctx, task, rsp, m_timerId2Info, m_session2User>>
    BY DEF ClientRecv, ClientSend, c2sVars, serverVars
<1>2. IsQueue(up) /\ IsQueue(down)
    BY DEF UplinkInv, LinkShape
<1>3. \A t \in Conns : \A i \in DOMAIN up'[t] : up'[t][i].type = "data" \/ \E j \in DOMAIN up[t] : up'[t][i] = up[t][j]
  <2>1. CASE ClientRecv(k)
      BY <2>1 DEF ClientRecv
  <2>2. ASSUME NEW u, ClientSend(k, u)
        PROVE  \A t \in Conns : \A i \in DOMAIN up'[t] : up'[t][i].type = "data" \/ \E j \in DOMAIN up[t] : up'[t][i] = up[t][j]
    <3> DEFINE e == Data(ident[k], u)
               pk == [j \in {k} |-> e]
    <3>1. up' = Send(up, pk) /\ DOMAIN pk = {k} /\ pk[k] = e /\ e.type = "data"
        BY <2>2 DEF ClientSend, Data
    <3> HIDE DEF pk, e
    <3>2. \A t \in Conns : up'[t] = up[t] \/ up'[t] = Append(up[t], e)
        BY <1>2, <3>1, SendQueue
    <3>3. \A t \in Conns : SlidNew(Append(up[t], e), up[t], e)
        BY <1>2, SlidForms DEF IsQueue
    <3>4. \A t \in Conns : \A i \in DOMAIN Append(up[t], e) :
            Append(up[t], e)[i] = e \/ \E j \in DOMAIN up[t] : Append(up[t], e)[i] = up[t][j]
        BY <3>3, SlidFrom
    <3> QED BY <3>1, <3>2, <3>4
  <2> QED BY <2>1, <2>2
<1>4. \A t \in Conns : \A i \in DOMAIN down'[t] : \E j \in DOMAIN down[t] : down'[t][i] = down[t][j]
  <2>1. CASE ClientRecv(k)
    <3>1. down[k] # <<>> /\ down' = [down EXCEPT ![k] = Tail(@)]
        BY <2>1 DEF ClientRecv
    <3>2. \A t \in Conns : Slid(down'[t], down[t])
        BY <1>2, <3>1, ShorterForms, QueueSlides
    <3> QED BY <3>2 DEF Slid
  <2>2. ASSUME NEW u, ClientSend(k, u) PROVE down' = down
      BY <2>2 DEF ClientSend
  <2> QED BY <2>1, <2>2
<1>5. SubsFit' /\ TaskOwn' /\ TablesOwn' /\ RspOwn'
    BY <1>1 DEF OwnInv, SubsFit, TaskOwn, TablesOwn, RspOwn, IsResponse, IsAnswer, Own
<1>6. UpOwn'
    BY <1>1, <1>3 DEF OwnInv, UpOwn, Own
<1>7. DownOwn'
    BY <1>1, <1>4 DEF OwnInv, DownOwn, Own
<1> QED BY <1>5, <1>6, <1>7 DEF OwnInv

\* OwnInv holds in every state.
LEMMA OwnInvariance == Spec => []OwnInv
<1>1. Init => OwnInv
  <2> SUFFICES ASSUME Init PROVE OwnInv
      OBVIOUS
  <2>1. /\ DOMAIN m_session2Ctx = {} /\ task = <<>> /\ rsp = {}
        /\ \A k \in Conns : up[k] = <<>> /\ down[k] = <<>>
        /\ \A c \in C2s : DOMAIN m_timerId2Info[c] = {} /\ DOMAIN m_session2User[c] = {}
      BY DEF Init, LinkInit, ServerInit, C2sInit
  <2>2. SubsFit /\ UpOwn /\ DownOwn /\ RspOwn /\ TablesOwn
      BY <2>1 DEF SubsFit, UpOwn, DownOwn, RspOwn, TablesOwn
  <2>3. TaskOwn
      BY <2>1 DEF TaskOwn
  <2> QED BY <2>2, <2>3 DEF OwnInv
<1>2. IndexInv /\ C2sInv /\ SockInv /\ UplinkInv /\ PlaceInv /\ OwnInv /\ [Next]_vars => OwnInv'
  <2> SUFFICES ASSUME IndexInv, C2sInv, SockInv, UplinkInv, PlaceInv, OwnInv, [Next]_vars
               PROVE  OwnInv'
      OBVIOUS
  <2>0. VisitsStay
      BY VisitorsStay
  <2>1. CASE UNCHANGED vars
      BY <2>1 DEF vars, linkVars, serverVars, c2sVars, OwnInv, SubsFit, UpOwn, TaskOwn, DownOwn,
           RspOwn, TablesOwn, IsResponse, IsAnswer, Own
  <2>2. CASE ServerNext /\ UNCHANGED c2sVars
      BY <2>2, ServerOwn
  <2>3. ASSUME NEW c \in C2s, C2sNext(c), UNCHANGED serverVars PROVE OwnInv'
      BY <2>0, <2>3, NodeOwn
  <2>4. ASSUME NEW c \in C2s, Connect(c) PROVE OwnInv'
      BY <2>0, <2>4, DialOwn DEF Connect
  <2>5. ASSUME NEW u \in Users, ClientConnect(u) PROVE OwnInv'
      BY <2>0, <2>5, DialOwn DEF ClientConnect, c2sVars
  <2>6. ASSUME NEW k \in Conns, ClientRecv(k) \/ \E u \in Ids : ClientSend(k, u) PROVE OwnInv'
      BY <2>6, ClientOwn
  <2> QED BY <2>1, <2>2, <2>3, <2>4, <2>5, <2>6 DEF Next
<1> QED BY <1>1, <1>2, IndexInvariance, C2sInvariance, SockInvariance, UplinkInvariance,
           PlaceInvariance, PTL DEF Spec
-----------------------------------------------------------------------------
(***************************************************************************)
(* GhostInv: what the server believes of a node.                           *)
(***************************************************************************)

\* Such an uplink is the node's own, and the server knows it.
LEMMA SeenIsOwn ==
  ASSUME SockInv, UplinkInv, PlaceInv, NEW c \in C2s, NEW s, Sees(c, s)
  PROVE  /\ s \in Conns /\ s \notin left /\ visit[s].user = c /\ visit[s].at = Root
         /\ m_session2Ctx[s].base = c /\ m_session2Ctx[s].isC2s /\ alive
         /\ IsSeq(down[s]) /\ IsSeq(up[s])
<1>1. s \in Conns /\ 0 \notin Conns
    BY DEF Sees, SockInv, AtServer, Conns
<1>2. IsUplink(c, s)
    BY <1>1 DEF Sees, UplinkInv
<1>3. m_session2Ctx[s].base = visit[s].user /\ visit[s].user \in Ids
      /\ m_session2Ctx[s].isC2s = (visit[s].user \in C2s)
    BY DEF Sees, PlaceInv, CtxFits
<1>4. visit[s].user = c /\ visit[s].at = Root /\ s \notin left
    BY <1>2, <1>3, NamesAssumption DEF IsUplink, Ids
<1>5. IsSeq(down[s]) /\ IsSeq(up[s])
    BY <1>1 DEF UplinkInv, LinkShape, IsQueue
<1>6. alive
    BY DEF Sees, SockInv, ServerParts
<1> QED BY <1>1, <1>3, <1>4, <1>5, <1>6

\* What the server sends on it arrives, and nothing is discarded.
LEMMA LinkSend ==
  ASSUME SockInv, UplinkInv, PlaceInv, NEW c \in C2s, NEW s, Sees(c, s), s \notin lost',
         NEW pk, SendDown(pk)
  PROVE  down'[s] = IF s \in DOMAIN pk THEN Append(down[s], pk[s]) ELSE down[s]
<1>1. s \in Conns /\ s \notin left
    BY SeenIsOwn
<1>2. \/ down'[s] = down[s] /\ (s \in DOMAIN pk \ left => s \in lost')
      \/ s \in DOMAIN pk \ left /\ down'[s] = Append(down[s], pk[s])
    BY <1>1, SendDownQueue DEF UplinkInv, LinkShape
<1> QED BY <1>1, <1>2

\* DeleteSessions on a whole uplink: what it carries stays, its packet follows.
LEMMA LinkDelete ==
  ASSUME SockInv, UplinkInv, PlaceInv, NEW c \in C2s, NEW s, Sees(c, s), s \notin lost',
         NEW S, NEW pk, DeleteSessions(S, pk)
  PROVE  /\ down'[s] = IF s \in DOMAIN pk THEN Append(down[s], pk[s]) ELSE down[s]
         /\ up'[s] = IF s \in S THEN <<>> ELSE up[s]
<1>1. s \in Conns /\ s \notin left /\ s \notin Clients(S)
    BY SeenIsOwn DEF Clients
<1>2. up'[s] = IF s \in S THEN <<>> ELSE up[s]
    BY <1>1, DeleteQueue DEF UplinkInv, LinkShape
<1>3. LET q == IF s \in Clients(S) THEN <<>> ELSE down[s] IN
      \/ down'[s] = q /\ (s \in DOMAIN pk \ left /\ s \notin Clients(S) => s \in lost')
      \/ s \in DOMAIN pk \ left /\ down'[s] = Append(q, pk[s])
    BY <1>1, DeleteQueue DEF UplinkInv, LinkShape
<1> QED BY <1>1, <1>2, <1>3

(***************************************************************************)
(* What a step of the server does to it.                                   *)
(***************************************************************************)
LinkNews(s, e) ==
  \/ e.type = "data" /\ e.src # None
  \/ \E r \in rsp : r.conn = s /\ e = r.msg
  \/ rsp = {} /\ e.type = "login_error"
  \/ rsp = {} /\ \E u : e = Kickout(u) /\ u \notin m_session2Ctx'[s].subs
LinkDown(s) ==
  down'[s] = down[s] \/ \E e : down'[s] = Append(down[s], e) /\ LinkNews(s, e)
LinkSubs(s) ==
  \A u \in m_session2Ctx'[s].subs : u \in m_session2Ctx[s].subs \/ Due(s, u)'
LinkRsp(s) ==
  \A r \in rsp : r.conn = s => r \in rsp' \/ down'[s] = Append(down[s], r.msg)
LinkLogout(c, s) ==
  \A u \in m_session2Ctx'[s].subs : LogoutComing(c, s, u) => LogoutComing(c, s, u)'

\* NotifyKickout on it is about a user that is gone from it.
LEMMA LinkNotify ==
  ASSUME SockInv, UplinkInv, PlaceInv, IndexInv, NEW c \in C2s, NEW s, Sees(c, s), s \notin lost',
         NEW S, NEW u, NEW told, DeleteSessions(S, Notify(u, told)), rsp = {},
         told /\ m_user2Ctx[u] = s => u \notin m_session2Ctx'[s].subs
  PROVE  LinkDown(s)
<1>1. DOMAIN Notify(u, told) = (IF IsSub(u) /\ told THEN {m_user2Ctx[u]} ELSE {})
      /\ \A t \in DOMAIN Notify(u, told) : Notify(u, told)[t] = Kickout(u)
    BY DEF Notify
<1>2. down'[s] = IF s \in DOMAIN Notify(u, told) THEN Append(down[s], Notify(u, told)[s]) ELSE down[s]
    BY LinkDelete
<1> QED BY <1>1, <1>2 DEF LinkDown, LinkNews

\* SendDown on a whole uplink: nothing is lost and at most one packet follows.
LEMMA LinkSays ==
  ASSUME SockInv, UplinkInv, PlaceInv, NEW c \in C2s, NEW s, Sees(c, s), s \notin lost',
         NEW pk, SendDown(pk), s \in DOMAIN pk => LinkNews(s, pk[s])
  PROVE  LinkDown(s)
<1>1. down'[s] = IF s \in DOMAIN pk THEN Append(down[s], pk[s]) ELSE down[s]
    BY LinkSend
<1> QED BY <1>1 DEF LinkDown

\* What a step of the server adds to a whole uplink.
LEMMA ServerLinkDown ==
  ASSUME SockInv, UplinkInv, PlaceInv, IndexInv, OwnInv, NEW c \in C2s, NEW s, Sees(c, s),
         s \notin lost', s \in DOMAIN m_session2Ctx', ServerNext
  PROVE  LinkDown(s)
<1>a. ASSUME down' = down PROVE LinkDown(s)
    BY <1>a DEF LinkDown
<1>1. CASE \/ \E u : KickoutUser(u)
           \/ \E t : OnCloseSession(t)
           \/ RejectSession \/ ClientLogout \/ DrainCommand \/ Fini
    BY <1>1, <1>a DEF KickoutUser, OnCloseSession, RejectSession, ClientLogout, DrainCommand,
                      Fini, Nothing, linkVars
<1>2. ASSUME NEW u, SendMsg(u) PROVE LinkDown(s)
  <2> DEFINE pk == [t \in {m_user2Ctx[u]} |-> Data(Root, u)]
  <2>1. SendDown(pk)
      BY <1>2 DEF SendMsg
  <2>2. \A t \in DOMAIN pk : LinkNews(s, pk[t])
      BY NamesAssumption DEF Data, LinkNews
  <2> HIDE DEF pk
  <2> QED BY <2>1, <2>2, LinkSays
<1>3. ASSUME NEW t \in Conns, OnRecvSession(t) PROVE LinkDown(s)
  <2> DEFINE m == Head(up[t])
             ctx == m_session2Ctx[t]
             ok == m.src = ctx.base \/ m.src \in ctx.subs
             pk == [k \in IF ok /\ m.type = "data" /\ Known(m.dst)
                            THEN {m_user2Ctx[m.dst]} ELSE {} |-> m]
  <2>1. SendDown(pk) /\ t \in DOMAIN m_session2Ctx
      BY <1>3 DEF OnRecvSession
  <2>2. ctx.base # None /\ None \notin ctx.subs
      BY <2>1, NamesAssumption DEF PlaceInv, CtxFits, OwnInv, SubsFit, Ids
  <2>3. \A k \in DOMAIN pk : LinkNews(s, pk[k])
    <3> HIDE DEF m, ctx
    <3> QED BY <2>2 DEF LinkNews
  <2> HIDE DEF pk
  <2> QED BY <2>1, <2>3, LinkSays
<1>4. CASE AddBaseUser
  <2>0. PICK t, u : t = Head(task).conn /\ u = Head(task).user
      OBVIOUS
  <2>1. DeleteSessions(Dead(u), Notify(u, TRUE)) /\ rsp = {}
      BY <1>4, <2>0 DEF AddBaseUser, Command
  <2>2. u \notin m_session2Ctx'[s].subs
    <3>1. /\ m_session2Ctx'[t].subs = {}
          /\ \A k \in DOMAIN m_session2Ctx' \ {t} : Less(m_session2Ctx'[k], m_session2Ctx[k], {u})
        BY <1>4, <2>0, AddBaseEffect
    <3> QED BY <3>1 DEF Less
  <2> QED BY <2>1, <2>2, LinkNotify
<1>5. CASE AsyncKickoutUser
  <2>0. PICK u : u = Head(task).user
      OBVIOUS
  <2>1. DeleteSessions(Dead(u), Notify(u, TRUE)) /\ rsp = {} /\ m_session2Ctx' = CtxWithout(u)
      BY <1>5, <2>0 DEF AsyncKickoutUser, Command
  <2>2. u \notin m_session2Ctx'[s].subs
    <3>1. \A t \in DOMAIN m_session2Ctx' : Less(m_session2Ctx'[t], m_session2Ctx[t], {u})
        BY <2>1, WithoutUser
    <3> QED BY <3>1 DEF Less
  <2> QED BY <2>1, <2>2, LinkNotify
<1>6. CASE AddSubUser
  <2>1. ASSUME NEW d, NEW u, NEW k, NEW t, Adds(d, u, k, t) PROVE LinkDown(s)
    <3>1. DeleteSessions(Dead(u), Notify(u, Known(u) /\ d # Ctx(u).base)) /\ rsp = {}
        BY <2>1 DEF Adds
    <3>2. Added(d, u, t)
        BY <2>1, AddsEffect
    <3>3. ASSUME d # Ctx(u).base, m_user2Ctx[u] = s PROVE u \notin m_session2Ctx'[s].subs
        BY <3>2, <3>3 DEF Added, Less, Ctx
    <3> QED BY <3>1, <3>3, LinkNotify
  <2>2. CASE UNCHANGED linkVars
      BY <2>2, <1>a DEF linkVars
  <2> QED BY <1>6, <2>1, <2>2, AddSubCases
<1>7. CASE LoginRefused
  <2> DEFINE pk == [t \in {Head(task).conn} \cap DOMAIN m_session2Ctx |->
                      LoginError(Head(task).msg.index)]
  <2>1. SendDown(pk) /\ rsp = {}
      BY <1>7 DEF LoginRefused, Command
  <2>2. \A t \in DOMAIN pk : LinkNews(s, pk[t])
      BY <2>1 DEF LoginError, LinkNews
  <2> HIDE DEF pk
  <2> QED BY <2>1, <2>2, LinkSays
<1>8. CASE AsyncOnCloseSession \/ FiniSessions
  <2>1. down' = down \/ \E S : DeleteSessions(S, <<>>)
      BY <1>8 DEF AsyncOnCloseSession, FiniSessions, Nothing, linkVars
  <2>2. ASSUME NEW S, DeleteSessions(S, <<>>) PROVE down'[s] = down[s]
      BY <2>2, LinkDelete
  <2> QED BY <2>1, <2>2 DEF LinkDown
<1>9. CASE Respond
  <2>1. PICK r \in rsp : SendDown([t \in {r.conn} |-> r.msg])
      BY <1>9 DEF Respond
  <2> DEFINE pk == [t \in {r.conn} |-> r.msg]
  <2>2. \A t \in DOMAIN pk : t = s => LinkNews(s, pk[t])
      BY DEF LinkNews
  <2>3. SendDown(pk)
      BY <2>1
  <2> HIDE DEF pk
  <2> QED BY <2>2, <2>3, LinkSays
<1> QED
    BY <1>1, <1>2, <1>3, <1>4, <1>5, <1>6, <1>7, <1>8, <1>9 DEF ServerNext

\* What a step of the server does to the users behind a node.
LEMMA ServerLinkSubs ==
  ASSUME IndexInv, NEW s, s \in DOMAIN m_session2Ctx, s \in DOMAIN m_session2Ctx', ServerNext
  PROVE  LinkSubs(s)
<1>a. ASSUME m_session2Ctx' = m_session2Ctx PROVE LinkSubs(s)
    BY <1>a DEF LinkSubs
<1>b. ASSUME NEW u, m_session2Ctx' = CtxWithout(u) PROVE LinkSubs(s)
  <2>1. Less(m_session2Ctx'[s], m_session2Ctx[s], {u})
      BY <1>b, WithoutUser
  <2> QED BY <2>1 DEF LinkSubs, Less
<1>1. CASE \/ \E u : KickoutUser(u) \/ SendMsg(u)
           \/ \E t : OnRecvSession(t) \/ OnCloseSession(t)
           \/ RejectSession \/ Respond \/ LoginRefused \/ DrainCommand \/ FiniSessions
    BY <1>1, <1>a DEF KickoutUser, SendMsg, OnRecvSession, OnCloseSession, RejectSession, Respond,
         LoginRefused, DrainCommand, FiniSessions, Nothing, serverVars
<1>2. CASE ClientLogout \/ AsyncOnCloseSession \/ AsyncKickoutUser
    BY <1>2, <1>a, <1>b, RemoveEffect
<1>3. CASE Fini
    BY <1>3 DEF Fini, Without
<1>4. CASE AddBaseUser
  <2>0. PICK t, u : t = Head(task).conn /\ u = Head(task).user
      OBVIOUS
  <2>1. /\ t \notin DOMAIN m_session2Ctx
        /\ \A k \in DOMAIN m_session2Ctx' \ {t} : Less(m_session2Ctx'[k], m_session2Ctx[k], {u})
      BY <1>4, <2>0, AddBaseEffect
  <2> QED BY <2>1 DEF LinkSubs, Less
<1>5. ASSUME NEW c, NEW u, NEW k, NEW t, Adds(c, u, k, t) PROVE LinkSubs(s)
  <2>1. Added(c, u, t)
      BY <1>5, AddsEffect
  <2>2. CASE s # t
      BY <2>1, <2>2 DEF Added, LinkSubs, Less
  <2>3. CASE s = t
    <3> DEFINE r == [conn |-> s, msg |-> LoginOk(k, u), user |-> u]
    <3>1. rsp' = {r} /\ r.conn = s /\ IsOk(r.msg, u)
        BY <1>5, <2>3 DEF Adds, IsOk, LoginOk
    <3>2. Due(s, u)'
        BY <3>1 DEF Due, IsOk
    <3> QED BY <2>1, <2>3, <3>2 DEF Added, LinkSubs
  <2> QED BY <2>2, <2>3
<1>6. CASE AddSubUser
    BY <1>6, <1>5, <1>a, AddSubCases
<1> QED BY <1>1, <1>2, <1>3, <1>4, <1>6 DEF ServerNext

\* A step of the server executes a command, answers one, or does neither.
Executes ==
  /\ rsp = {} /\ \E x : Command(x)
  /\ \/ RejectSession \/ AddBaseUser \/ LoginRefused \/ AddSubUser
     \/ ClientLogout \/ AsyncOnCloseSession \/ AsyncKickoutUser \/ DrainCommand
Calls    == rsp' = rsp /\ (task' = task \/ \E e : task' = Append(task, e))
Answers  == Respond /\ task' = task

\* A step of the server executes a command, is a call from outside, or answers.
LEMMA ServerKinds ==
  ASSUME ServerNext
  PROVE  Executes \/ Calls \/ Answers
<1>1. ASSUME NEW u, KickoutUser(u) PROVE Calls
    BY <1>1 DEF KickoutUser, Calls
<1>2. ASSUME NEW u, SendMsg(u) PROVE Calls
    BY <1>2 DEF SendMsg, serverVars, Calls
<1>3. ASSUME NEW t, OnRecvSession(t) PROVE Calls
  <2>1. rsp' = rsp
      BY <1>3 DEF OnRecvSession
  <2>2. task' = task \/ \E e : task' = Append(task, e)
      BY <1>3 DEF OnRecvSession
  <2> QED BY <2>1, <2>2 DEF Calls
<1>4. ASSUME NEW t, OnCloseSession(t) PROVE Calls
    BY <1>4 DEF OnCloseSession, Calls
<1>5. CASE Fini \/ FiniSessions
    BY <1>5 DEF Fini, FiniSessions, Calls
<1>6. CASE Respond
    BY <1>6 DEF Respond, Answers
<1>7. CASE RejectSession \/ AddBaseUser \/ LoginRefused \/ AddSubUser
  <2>1. \E x : Command(x)
      BY <1>7 DEF RejectSession, AddBaseUser, LoginRefused, AddSubUser
  <2> QED BY <1>7, <2>1 DEF Executes, Command
<1>8. CASE ClientLogout \/ AsyncOnCloseSession \/ AsyncKickoutUser \/ DrainCommand
  <2>1. \E x : Command(x)
      BY <1>8 DEF ClientLogout, AsyncOnCloseSession, AsyncKickoutUser, DrainCommand
  <2> QED BY <1>8, <2>1 DEF Executes, Command
<1> QED BY <1>1, <1>2, <1>3, <1>4, <1>5, <1>6, <1>7, <1>8 DEF ServerNext

\* What a step of the server does to the response of a node.
LEMMA ServerLinkRsp ==
  ASSUME SockInv, UplinkInv, PlaceInv, OnlineInv, NEW c \in C2s, NEW s, Sees(c, s), s \notin lost',
         ServerNext
  PROVE  LinkRsp(s)
<1>1. CASE rsp = {}
    BY <1>1 DEF LinkRsp
<1>2. CASE rsp' = rsp
    BY <1>2 DEF LinkRsp
<1>3. CASE Respond
  <2>1. PICK r \in rsp : SendDown([t \in {r.conn} |-> r.msg])
      BY <1>3 DEF Respond
  <2>2. rsp = {r}
      BY DEF OnlineInv, OnePending
  <2> DEFINE pk == [t \in {r.conn} |-> r.msg]
  <2>3. SendDown(pk) /\ DOMAIN pk = {r.conn} /\ pk[r.conn] = r.msg
      BY <2>1
  <2> HIDE DEF pk
  <2>4. ASSUME s = r.conn PROVE down'[s] = Append(down[s], r.msg)
    <3>1. down'[s] = IF s \in DOMAIN pk THEN Append(down[s], pk[s]) ELSE down[s]
        BY <2>3, LinkSend
    <3> QED BY <2>3, <2>4, <3>1
  <2> QED BY <2>2, <2>4 DEF LinkRsp
<1> QED BY <1>1, <1>2, <1>3, ServerKinds DEF Executes, Calls, Answers

\* A packet to the server stays under way until OnRecvSession takes it.
LEMMA ServerLinkUp ==
  ASSUME SockInv, UplinkInv, PlaceInv, IndexInv, NEW c \in C2s, NEW s, Sees(c, s), s \notin lost',
         s \in DOMAIN m_session2Ctx', ServerNext
  PROVE  up'[s] = up[s] \/ (up[s] # <<>> /\ up'[s] = Tail(up[s]) /\ OnRecvSession(s))
<1>0. s \in Conns /\ alive /\ s \in DOMAIN m_session2Ctx /\ IsQueue(up)
    BY SeenIsOwn DEF Sees, UplinkInv, LinkShape
<1>1. CASE \/ \E u : KickoutUser(u) \/ SendMsg(u)
           \/ \E t : OnCloseSession(t)
           \/ RejectSession \/ ClientLogout \/ DrainCommand \/ Fini \/ LoginRefused \/ Respond
    BY <1>1 DEF KickoutUser, SendMsg, OnCloseSession, RejectSession, ClientLogout, DrainCommand,
                Fini, LoginRefused, Respond, Nothing, linkVars
<1>2. ASSUME NEW t \in Conns, OnRecvSession(t)
      PROVE  up'[s] = up[s] \/ (up[s] # <<>> /\ up'[s] = Tail(up[s]) /\ OnRecvSession(s))
  <2>1. up[t] # <<>> /\ up' = [up EXCEPT ![t] = Tail(@)]
      BY <1>2 DEF OnRecvSession
  <2>2. \A k \in Conns : up'[k] = IF k = t THEN Tail(up[k]) ELSE up[k]
      BY <1>0, <2>1, PopQueue
  <2> QED BY <1>0, <1>2, <2>1, <2>2
<1>3. ASSUME NEW S, NEW pk, DeleteSessions(S, pk), s \notin S PROVE up'[s] = up[s]
    BY <1>3, LinkDelete
<1>4. CASE AddBaseUser
  <2>0. PICK t, u : t = Head(task).conn /\ u = Head(task).user
      OBVIOUS
  <2>1. DeleteSessions(Dead(u), Notify(u, TRUE))
      BY <1>4, <2>0 DEF AddBaseUser
  <2>2. t \notin DOMAIN m_session2Ctx /\ DOMAIN m_session2Ctx' = (DOMAIN m_session2Ctx \ Dead(u)) \cup {t}
      BY <1>4, <2>0, AddBaseEffect
  <2> QED BY <1>0, <1>3, <2>1, <2>2
<1>5. CASE AsyncKickoutUser
  <2>0. PICK u : u = Head(task).user
      OBVIOUS
  <2>1. DeleteSessions(Dead(u), Notify(u, TRUE)) /\ m_session2Ctx' = CtxWithout(u)
      BY <1>5, <2>0 DEF AsyncKickoutUser
  <2>2. s \notin Dead(u)
      BY <2>1, WithoutUser
  <2> QED BY <1>3, <2>1, <2>2
<1>6. CASE AddSubUser
  <2>1. ASSUME NEW d, NEW u, NEW k, NEW t, Adds(d, u, k, t) PROVE up'[s] = up[s]
    <3>1. DeleteSessions(Dead(u), Notify(u, Known(u) /\ d # Ctx(u).base))
        BY <2>1 DEF Adds
    <3>2. Added(d, u, t)
        BY <2>1, AddsEffect
    <3>3. s \notin Dead(u)
        BY <3>2 DEF Added
    <3> QED BY <1>3, <3>1, <3>3
  <2>2. CASE UNCHANGED linkVars
      BY <2>2 DEF linkVars
  <2> QED BY <1>6, <2>1, <2>2, AddSubCases
<1>7. CASE AsyncOnCloseSession
  <2>0. PICK t : t = Head(task).conn
      OBVIOUS
  <2>1. \/ DeleteSessions({t}, <<>>) /\ m_session2Ctx' = Without(m_session2Ctx, {t})
        \/ UNCHANGED linkVars
      BY <1>7, <2>0 DEF AsyncOnCloseSession, Nothing
  <2>2. CASE DeleteSessions({t}, <<>>) /\ m_session2Ctx' = Without(m_session2Ctx, {t})
    <3>1. s # t
        BY <2>2 DEF Without
    <3> QED BY <1>3, <2>2, <3>1
  <2> QED BY <2>1, <2>2 DEF linkVars
<1>8. CASE FiniSessions
    BY <1>0, <1>8 DEF FiniSessions, SockInv, ServerParts
<1> QED
    BY <1>1, <1>2, <1>4, <1>5, <1>6, <1>7, <1>8 DEF ServerNext

\* A posted command stays until it is executed.
LEMMA TaskStays ==
  ASSUME IndexInv, ServerNext, NEW i \in DOMAIN task
  PROVE  (\E j \in DOMAIN task' : task'[j] = task[i]) \/ (i = 1 /\ task[i] = Head(task) /\ Executes)
<1>1. IsSeq(task)
    BY DEF IndexInv, TaskIsSeq, IsSeq
<1>2. CASE task' = task
    BY <1>2
<1>3. ASSUME NEW e, task' = Append(task, e) PROVE \E j \in DOMAIN task' : task'[j] = task[i]
  <2>1. /\ Len(task) \in Nat /\ DOMAIN task = 1..Len(task) /\ DOMAIN task' = 1..(Len(task) + 1)
        /\ \A j \in 1..Len(task) : task'[j] = task[j]
      BY <1>1, <1>3, AppendIsSeq
  <2>2. i \in DOMAIN task'
      BY <2>1
  <2> QED BY <2>1, <2>2
<1>4. CASE Executes
  <2>1. task # <<>> /\ task' = Tail(task)
      BY <1>4 DEF Executes, Command
  <2>2. /\ Len(task) \in Nat \ {0} /\ DOMAIN task = 1..Len(task) /\ Head(task) = task[1]
        /\ DOMAIN task' = 1..(Len(task) - 1)
        /\ \A j \in 1..(Len(task) - 1) : task'[j] = task[j + 1]
      BY <1>1, <2>1, TailIsSeq
  <2>3. CASE i = 1
      BY <1>4, <2>1, <2>2, <2>3
  <2>4. CASE i # 1
    <3>1. i - 1 \in 1..(Len(task) - 1) /\ (i - 1) + 1 = i
        BY <2>2, <2>4
    <3> QED BY <2>2, <3>1
  <2> QED BY <2>3, <2>4
<1> QED BY <1>2, <1>3, <1>4, ServerKinds DEF Calls, Answers

\* A logout that node c has reported is under way until the user has gone.
LEMMA ServerLinkLogout ==
  ASSUME SockInv, UplinkInv, PlaceInv, IndexInv, OwnInv, NEW c \in C2s, NEW s, Sees(c, s),
         s \notin lost', s \in DOMAIN m_session2Ctx', ServerNext, UNCHANGED c2sVars
  PROVE  LinkLogout(c, s)
<1> SUFFICES ASSUME NEW u \in m_session2Ctx'[s].subs, LogoutComing(c, s, u)
             PROVE  LogoutComing(c, s, u)'
    BY DEF LinkLogout
<1>0. /\ s \in Conns /\ alive /\ m_session2Ctx[s].base = c /\ m_session2Ctx[s].isC2s
      /\ s \in DOMAIN m_session2Ctx /\ IsSeq(up[s])
    BY SeenIsOwn DEF Sees
<1> DEFINE lo == Logout(c, u)
           x == [cmd |-> "recv", conn |-> s, msg |-> lo, c2s |-> c]
<1>1. lo.type = "logout" /\ lo.src = c /\ lo.user = u /\ x.cmd = "recv" /\ x.msg = lo /\ x.c2s = c
    BY DEF Logout
<1>2. \/ u \in report[c]
      \/ \E i \in DOMAIN up[s] : up[s][i] = lo
      \/ \E i \in DOMAIN task : task[i] = x
    BY DEF LogoutComing
<1>3. ASSUME \/ u \in report'[c]
             \/ \E i \in DOMAIN up'[s] : up'[s][i] = lo
             \/ \E i \in DOMAIN task' : task'[i] = x
      PROVE  LogoutComing(c, s, u)'
    BY <1>3 DEF LogoutComing, Logout
<1> HIDE DEF lo, x
<1>4. CASE u \in report[c]
    BY <1>3, <1>4 DEF c2sVars
<1>5. ASSUME NEW i \in DOMAIN up[s], up[s][i] = lo PROVE LogoutComing(c, s, u)'
  <2>1. CASE up'[s] = up[s]
      BY <1>3, <1>5, <2>1
  <2>2. CASE up[s] # <<>> /\ up'[s] = Tail(up[s]) /\ OnRecvSession(s)
    <3>1. /\ Len(up[s]) \in Nat \ {0} /\ DOMAIN up[s] = 1..Len(up[s]) /\ Head(up[s]) = up[s][1]
          /\ DOMAIN up'[s] = 1..(Len(up[s]) - 1)
          /\ \A j \in 1..(Len(up[s]) - 1) : up'[s][j] = up[s][j + 1]
        BY <1>0, <2>2, TailIsSeq
    <3>2. CASE i # 1
      <4>1. i - 1 \in 1..(Len(up[s]) - 1) /\ (i - 1) + 1 = i
          BY <3>1, <3>2
      <4>2. i - 1 \in DOMAIN up'[s] /\ up'[s][i - 1] = lo
          BY <1>5, <3>1, <4>1
      <4> QED BY <1>3, <4>2
    <3>3. CASE i = 1
      <4>1. Head(up[s]) = lo /\ c \in Server
          BY <1>5, <3>1, <3>3 DEF Server
      <4>2. task' = Append(task, [cmd |-> "recv", conn |-> s, msg |-> lo, c2s |-> lo.src])
          BY <1>0, <1>1, <2>2, <4>1 DEF OnRecvSession
      <4>3. task' = Append(task, x)
          BY <1>1, <4>2 DEF x
      <4>4. IsSeq(task)
          BY DEF IndexInv, TaskIsSeq, IsSeq
      <4>5. \E j \in DOMAIN task' : task'[j] = x
        <5>1. /\ Len(task) \in Nat /\ DOMAIN task' = 1..(Len(task) + 1) /\ task'[Len(task) + 1] = x
            BY <4>3, <4>4, AppendIsSeq
        <5>2. Len(task) + 1 \in DOMAIN task'
            BY <5>1
        <5> QED BY <5>1, <5>2
      <4> QED BY <1>3, <4>5
    <3> QED BY <3>2, <3>3
  <2> QED BY <2>1, <2>2, ServerLinkUp
<1>6. ASSUME NEW i \in DOMAIN task, task[i] = x PROVE LogoutComing(c, s, u)'
  <2>1. CASE \E j \in DOMAIN task' : task'[j] = task[i]
      BY <1>3, <1>6, <2>1
  <2>2. CASE task[i] = Head(task) /\ Executes
    <3>1. Head(task) = x /\ Head(task).cmd = "recv" /\ Head(task).msg.type = "logout" /\ rsp = {}
          /\ Head(task).msg.user = u /\ Head(task).c2s = c
        BY <1>1, <1>6, <2>2 DEF Executes
    <3>2. CASE ClientLogout
      <4>1. u \in m_session2Ctx[s].subs
          BY <1>0, <3>1, <3>2, ServerLinkSubs DEF LinkSubs, Due, ClientLogout, Nothing
      <4>2. Known(u) /\ m_user2Ctx[u] = s
          BY <1>0, <4>1 DEF IndexInv, Agree, Known
      <4>3. u # c /\ Known(u) /\ Ctx(u).isC2s /\ Ctx(u).base = c
          BY <1>0, <4>1, <4>2, NamesAssumption DEF Ctx, OwnInv, SubsFit
      <4>4. m_session2Ctx' = [m_session2Ctx EXCEPT ![m_user2Ctx[u]].subs = @ \ {u}]
          BY <3>1, <3>2, <4>3 DEF ClientLogout
      <4>5. IsCtx(m_session2Ctx[s])
          BY <1>0 DEF IndexInv, Agree
      <4>6. m_session2Ctx'[s].subs = m_session2Ctx[s].subs \ {u}
          BY <1>0, <4>2, <4>4, <4>5 DEF IsCtx
      <4> QED BY <4>6
    <3>3. ClientLogout
      <4>1. CASE RejectSession \/ AddBaseUser \/ AsyncOnCloseSession \/ AsyncKickoutUser
        <5>1. Head(task).cmd \in {"accept", "close", "kickout"}
            BY <4>1 DEF RejectSession, AddBaseUser, AsyncOnCloseSession, AsyncKickoutUser, Command
        <5> QED BY <3>1, <5>1
      <4>2. CASE LoginRefused \/ AddSubUser \/ DrainCommand
        <5>1. Head(task).msg.type = "login" \/ ~alive
            BY <4>2 DEF LoginRefused, AddSubUser, DrainCommand
        <5> QED BY <1>0, <3>1, <5>1
      <4> QED BY <2>2, <4>1, <4>2 DEF Executes
    <3> QED BY <3>2, <3>3
  <2> QED BY <1>1, <1>6, <2>1, <2>2, TaskStays
<1> QED BY <1>2, <1>4, <1>5, <1>6

\* What is refused stays refused.
LEMMA ServerLost ==
  ASSUME ServerNext
  PROVE  lost \subseteq lost'
<1>a. ASSUME \/ UNCHANGED lost \/ (\E pk : SendDown(pk)) \/ (\E S, pk : DeleteSessions(S, pk))
      PROVE  lost \subseteq lost'
    BY <1>a DEF SendDown, DeleteSessions
<1>1. ASSUME NEW u, KickoutUser(u) PROVE lost \subseteq lost'
    BY <1>1 DEF KickoutUser, linkVars
<1>5. ASSUME NEW u, SendMsg(u) PROVE lost \subseteq lost'
  <2>1. PICK pk : SendDown(pk)
      BY <1>5 DEF SendMsg
  <2> QED BY <2>1 DEF SendDown
<1>6. ASSUME NEW t, OnCloseSession(t) PROVE lost \subseteq lost'
    BY <1>6 DEF OnCloseSession, linkVars
<1>2. ASSUME NEW t, OnRecvSession(t) PROVE lost \subseteq lost'
  <2>1. \E pk : SendDown(pk)
      BY <1>2 DEF OnRecvSession
  <2> QED BY <2>1 DEF SendDown
<1>3. CASE RejectSession \/ ClientLogout \/ DrainCommand \/ Fini
    BY <1>3, <1>a DEF RejectSession, ClientLogout, DrainCommand, Fini, Nothing, linkVars
<1>7. CASE Respond \/ LoginRefused
  <2>1. \E pk : SendDown(pk)
      BY <1>7 DEF Respond, LoginRefused
  <2> QED BY <2>1 DEF SendDown
<1>4. CASE AddBaseUser \/ AddSubUser \/ AsyncOnCloseSession \/ AsyncKickoutUser \/ FiniSessions
    BY <1>4, <1>a DEF AddBaseUser, AddSubUser, AsyncOnCloseSession, AsyncKickoutUser, FiniSessions,
         Nothing, linkVars
<1> QED BY <1>1, <1>2, <1>3, <1>4, <1>5, <1>6, <1>7 DEF ServerNext

\* A new context is that of a connection accepted.
LEMMA NewContext ==
  ASSUME IndexInv, ServerNext, NEW s, s \in DOMAIN m_session2Ctx', s \notin DOMAIN m_session2Ctx
  PROVE  /\ m_session2Ctx'[s].subs = {} /\ s \in Waiters(task) /\ rsp = {}
         /\ \E u : rsp' = {[conn |-> s, msg |-> Response(u), user |-> u]}
                   /\ \E i \in DOMAIN task : Waiting(i) /\ task[i].user = u
<1>1. CASE \/ \E u : KickoutUser(u) \/ SendMsg(u)
           \/ \E t : OnRecvSession(t) \/ OnCloseSession(t)
           \/ RejectSession \/ Respond \/ LoginRefused \/ DrainCommand \/ FiniSessions
    BY <1>1 DEF KickoutUser, SendMsg, OnRecvSession, OnCloseSession, RejectSession, Respond,
         LoginRefused, DrainCommand, FiniSessions, Nothing, serverVars
<1>2. CASE ClientLogout \/ AsyncOnCloseSession \/ AsyncKickoutUser
    BY <1>2, RemoveEffect, WithoutUser
<1>3. CASE Fini
    BY <1>3 DEF Fini, Without
<1>4. CASE AddBaseUser
  <2>0. PICK t, u : t = Head(task).conn /\ u = Head(task).user
      OBVIOUS
  <2>1. /\ Waiting(1) /\ Head(task) = task[1] /\ m_session2Ctx'[t].subs = {}
        /\ DOMAIN m_session2Ctx' = (DOMAIN m_session2Ctx \ Dead(u)) \cup {t}
      BY <1>4, <2>0, AddBaseEffect
  <2>2. s = t
      BY <2>1
  <2>3. rsp = {} /\ rsp' = {[conn |-> t, msg |-> Response(u), user |-> u]}
      BY <1>4, <2>0 DEF AddBaseUser, Command
  <2>4. s \in Waiters(task)
      BY <2>0, <2>1, <2>2 DEF Waiting, Waiters
  <2> QED BY <2>0, <2>1, <2>2, <2>3, <2>4 DEF Waiting
<1>5. CASE AddSubUser
    BY <1>5, AddSubCases, AddsEffect DEF Added
<1> QED BY <1>1, <1>2, <1>3, <1>4, <1>5 DEF ServerNext

\* The packets for the node, before and after: one may have come.
LEMMA LinkGrows ==
  ASSUME NEW s, IsSeq(down[s]), LinkDown(s)
  PROVE  /\ \A i \in DOMAIN down[s] : i \in Nat /\ i \in DOMAIN down'[s] /\ down'[s][i] = down[s][i]
         /\ \A i \in DOMAIN down'[s] :
              i \in DOMAIN down[s] \/ (LinkNews(s, down'[s][i]) /\ \A j \in DOMAIN down[s] : j < i)
<1>1. CASE down'[s] = down[s]
    BY <1>1, AppendIsSeq
<1>2. ASSUME NEW e, down'[s] = Append(down[s], e), LinkNews(s, e)
      PROVE  /\ \A i \in DOMAIN down[s] : i \in Nat /\ i \in DOMAIN down'[s] /\ down'[s][i] = down[s][i]
             /\ \A i \in DOMAIN down'[s] :
                  i \in DOMAIN down[s] \/ (LinkNews(s, down'[s][i]) /\ \A j \in DOMAIN down[s] : j < i)
  <2>1. PICK q, p, n : q = down[s] /\ p = down'[s] /\ n = Len(q)
      OBVIOUS
  <2>2. /\ n \in Nat /\ DOMAIN q = 1..n /\ DOMAIN p = 1..(n + 1)
        /\ (\A i \in 1..n : p[i] = q[i]) /\ p[n + 1] = e
      BY <1>2, <2>1, AppendIsSeq
  <2>3. \A i \in DOMAIN q : i \in Nat /\ i \in DOMAIN p /\ p[i] = q[i]
      BY <2>2
  <2>4. \A i \in DOMAIN p : i \in DOMAIN q \/ (p[i] = e /\ \A j \in DOMAIN q : j < i)
      BY <2>2
  <2> QED BY <1>2, <2>1, <2>3, <2>4
<1> QED BY <1>1, <1>2 DEF LinkDown

\* An answer that is due is given.
LEMMA DueStays ==
  ASSUME NEW s, IsSeq(down[s]), LinkRsp(s), NEW u, Due(s, u)
  PROVE  Due(s, u)' \/ \E j \in DOMAIN down'[s] : IsOk(down'[s][j], u) /\ \A i \in DOMAIN down[s] : i < j
<1>1. PICK r \in rsp : r.conn = s /\ IsOk(r.msg, u)
    BY DEF Due
<1>2. CASE r \in rsp'
    BY <1>1, <1>2 DEF Due, IsOk
<1>3. CASE down'[s] = Append(down[s], r.msg)
  <2>1. PICK q, p, n : q = down[s] /\ p = down'[s] /\ n = Len(q)
      OBVIOUS
  <2>2. n \in Nat /\ DOMAIN q = 1..n /\ DOMAIN p = 1..(n + 1) /\ p[n + 1] = r.msg
      BY <1>3, <2>1, AppendIsSeq
  <2>3. n + 1 \in DOMAIN p /\ \A i \in DOMAIN q : i < n + 1
      BY <2>2
  <2> QED BY <1>1, <2>1, <2>2, <2>3
<1> QED BY <1>1, <1>2, <1>3 DEF LinkRsp

\* A step of the server makes no ghost.
LEMMA ServerGhost ==
  ASSUME SockInv, UplinkInv, UplinkInv', PlaceInv, IndexInv, OnlineInv, OwnInv, GhostInv,
         ServerNext, UNCHANGED c2sVars
  PROVE  GhostInv'
<1> SUFFICES ASSUME NEW c \in C2s, NEW s \in Conns, Sees(c, s)'
             PROVE  /\ ident'[s] = None => Welcome(s)'
                    /\ \A u \in m_session2Ctx'[s].subs :
                         Renewed(s, u)' /\ (ident'[s] \in {c, None} => Accounted(c, s, u)')
    BY DEF GhostInv
<1>0. /\ s = m_msgClient[c] /\ s \in DOMAIN m_session2Ctx' /\ s \notin lost' /\ s \notin lost
      /\ UNCHANGED <<m_user2Session, visit>>
    BY ServerLost, ServerShape DEF Sees, c2sVars, UplinkInv
<1>1. CASE s \notin DOMAIN m_session2Ctx
  <2>1. m_session2Ctx'[s].subs = {} /\ s \in Waiters(task)
      BY <1>0, <1>1, NewContext
  <2>2. PICK u : /\ rsp' = {[conn |-> s, msg |-> Response(u), user |-> u]}
                 /\ \E i \in DOMAIN task : Waiting(i) /\ task[i].user = u
      BY <1>0, <1>1, NewContext
  <2>3. u \in Ids /\ down[s] = <<>>
      BY <2>1, <2>2 DEF PlaceInv, WaitersFit, Waiters, Waiting
  <2> DEFINE r == [conn |-> s, msg |-> Response(u), user |-> u]
  <2>4. rsp' = {r} /\ r.conn = s /\ IsResponse(r)
      BY <2>2, <2>3 DEF IsResponse
  <2> HIDE DEF r
  <2>5. down'[s] = <<>>
    <3>1. \A e : ~ServerSays(s, e)
        BY <2>1, SaysToSomebody
    <3>2. Slid(down'[s], down[s])
        BY <3>1, ServerEffect DEF ServerEffects, ServerDown
    <3>3. IsSeq(down'[s])
        BY DEF UplinkInv, LinkShape, IsQueue
    <3> QED BY <2>3, <3>2, <3>3, SlidEmpty
  <2>6. Welcome(s)'
      BY <2>4, <2>5 DEF Welcome, IsResponse
  <2> QED BY <2>1, <2>6
<1>2. CASE s \in DOMAIN m_session2Ctx
  <2>1. Sees(c, s)
      BY <1>0, <1>2 DEF Sees
  <2>2. IsSeq(down[s]) /\ visit[s].user = c
      BY <2>1, SeenIsOwn
  <2>3. LinkDown(s) /\ LinkSubs(s) /\ LinkRsp(s) /\ LinkLogout(c, s)
      BY <1>0, <1>2, <2>1, ServerLinkDown, ServerLinkSubs, ServerLinkRsp, ServerLinkLogout
  <2>4. ident'[s] = ident[s]
      BY <2>2, ServerEffect DEF ServerEffects
  <2>5. /\ ident[s] = None => Welcome(s)
        /\ \A u \in m_session2Ctx[s].subs :
             Renewed(s, u) /\ (ident[s] \in {c, None} => Accounted(c, s, u))
      BY <2>1 DEF GhostInv
  <2>6. /\ \A i \in DOMAIN down[s] : i \in Nat /\ i \in DOMAIN down'[s] /\ down'[s][i] = down[s][i]
        /\ \A i \in DOMAIN down'[s] :
             i \in DOMAIN down[s] \/ (LinkNews(s, down'[s][i]) /\ \A j \in DOMAIN down[s] : j < i)
      BY <2>2, <2>3, LinkGrows
  <2>7. ASSUME NEW u, Due(s, u)
        PROVE  Due(s, u)' \/ \E j \in DOMAIN down'[s] : IsOk(down'[s][j], u) /\ \A i \in DOMAIN down[s] : i < j
      BY <2>2, <2>3, <2>7, DueStays
  <2>8. ASSUME NEW u \in m_session2Ctx'[s].subs PROVE Renewed(s, u)'
    <3> SUFFICES ASSUME NEW i \in DOMAIN down'[s], IsKick(down'[s][i], u)
                 PROVE  Due(s, u)' \/ \E j \in DOMAIN down'[s] : j > i /\ IsOk(down'[s][j], u)
        BY DEF Renewed, IsKick, IsOk
    <3>1. CASE u \notin m_session2Ctx[s].subs
        BY <2>3, <3>1 DEF LinkSubs
    <3>2. CASE u \in m_session2Ctx[s].subs /\ i \in DOMAIN down[s]
      <4>1. Due(s, u) \/ \E j \in DOMAIN down[s] : j > i /\ IsOk(down[s][j], u)
          BY <2>5, <2>6, <3>2 DEF Renewed
      <4>2. ASSUME NEW j \in DOMAIN down[s], j > i, IsOk(down[s][j], u)
            PROVE  \E l \in DOMAIN down'[s] : l > i /\ IsOk(down'[s][l], u)
          BY <2>6, <4>2
      <4>3. ASSUME Due(s, u), ~Due(s, u)'
            PROVE  \E l \in DOMAIN down'[s] : l > i /\ IsOk(down'[s][l], u)
        <5>1. PICK j \in DOMAIN down'[s] : IsOk(down'[s][j], u) /\ i < j
            BY <2>7, <3>2, <4>3
        <5>0. IsSeq(down'[s])
            BY DEF UplinkInv, LinkShape, IsQueue
        <5>2. DOMAIN down'[s] \subseteq Nat
            BY <5>0, AppendIsSeq
        <5>3. j > i
            BY <5>1, <5>2
        <5> QED BY <5>1, <5>3
      <4> QED BY <4>1, <4>2, <4>3
    <3>3. CASE i \notin DOMAIN down[s]
      <4>1. LinkNews(s, down'[s][i])
          BY <2>6, <3>3
      <4>2. ASSUME NEW r \in rsp PROVE r.msg.type # "kickout"
        <5>1. CASE IsResponse(r)
            BY <5>1 DEF IsResponse, Response
        <5>2. CASE IsAnswer(r)
          <6>1. PICK k : r.msg = LoginOk(k, r.user)
              BY <5>2 DEF IsAnswer
          <6> QED BY <6>1 DEF LoginOk
        <5> QED BY <5>1, <5>2 DEF OwnInv, RspOwn
      <4>3. PICK e : e = down'[s][i] /\ LinkNews(s, e) /\ e.type = "kickout" /\ e.user = u
          BY <4>1 DEF IsKick
      <4>4. PICK v : e = Kickout(v) /\ v \notin m_session2Ctx'[s].subs
          BY <4>2, <4>3 DEF LinkNews
      <4> QED BY <4>3, <4>4 DEF Kickout
    <3> QED BY <3>1, <3>2, <3>3
  <2>9. ASSUME NEW u \in m_session2Ctx'[s].subs, ident'[s] \in {c, None} PROVE Accounted(c, s, u)'
    <3>1. CASE u \notin m_session2Ctx[s].subs
        BY <2>3, <3>1 DEF LinkSubs, Accounted, OkComing
    <3>2. CASE Due(s, u)
        BY <2>7, <3>2 DEF Accounted, OkComing, IsOk
    <3>3. CASE u \in DOMAIN m_user2Session[c] \/ LogoutComing(c, s, u)
        BY <1>0, <2>3, <3>3 DEF LinkLogout, Accounted
    <3>4. CASE \E i \in DOMAIN down[s] : IsOk(down[s][i], u)
        BY <2>6, <3>4 DEF Accounted, OkComing, IsOk
    <3> QED BY <2>4, <2>5, <2>9, <3>1, <3>2, <3>3, <3>4 DEF Accounted, OkComing
  <2>10. ASSUME ident'[s] = None PROVE Welcome(s)'
    <3>1. CASE down[s] = <<>>
      <4>1. PICK r \in rsp : r.conn = s /\ IsResponse(r)
          BY <2>4, <2>5, <2>10, <3>1 DEF Welcome
      <4>2. rsp = {r}
          BY DEF OnlineInv, OnePending
      <4>3. r.msg.type = "response" /\ r.msg.src # None
          BY <4>1, NamesAssumption DEF IsResponse, Response, Ids
      <4>4. CASE down'[s] = <<>>
        <5>1. \A e : Append(down[s], e) # <<>>
            BY <2>2, AppendIsSeq
        <5>2. r \in rsp'
            BY <2>3, <4>1, <4>4, <5>1 DEF LinkRsp
        <5> QED BY <4>1, <4>4, <5>2 DEF Welcome, IsResponse
      <4>5. CASE down'[s] # <<>>
        <5>1. PICK e : down'[s] = Append(down[s], e) /\ LinkNews(s, e)
            BY <2>3, <3>1, <4>5 DEF LinkDown
        <5>2. down'[s][1] = e
            BY <3>1, <5>1
        <5>3. e.type \in {"data", "response"} /\ e.src # None
            BY <4>2, <4>3, <5>1 DEF LinkNews
        <5> QED BY <4>5, <5>2, <5>3 DEF Welcome
      <4> QED BY <4>4, <4>5
    <3>2. CASE down[s] # <<>>
      <4>1. 1 \in DOMAIN down[s]
          BY <2>2, <3>2, TailIsSeq
      <4>2. down'[s][1] = down[s][1] /\ down'[s] # <<>>
          BY <2>6, <4>1
      <4> QED BY <2>4, <2>5, <2>10, <3>2, <4>2 DEF Welcome
    <3> QED BY <3>1, <3>2
  <2> QED BY <2>8, <2>9, <2>10
<1> QED BY <1>1, <1>2

-----------------------------------------------------------------------------
(***************************************************************************)
(* What a step of a node does to its uplink s, in full: the packet it      *)
(* takes, the logout it reports, and the users it keeps.                   *)
(***************************************************************************)
Grows(c, s) ==
  /\ UNCHANGED <<m_user2Session, report>> /\ ident'[s] = ident[s] /\ down'[s] = down[s]
  /\ up'[s] = up[s] \/ \E e : up'[s] = Append(up[s], e)
Takes(s) == down[s] # <<>> /\ down'[s] = Tail(down[s]) /\ up'[s] = up[s]
Starts(c, s) ==
  /\ Takes(s) /\ ident[s] = None /\ ident'[s] = Head(down[s]).src
  /\ UNCHANGED <<m_user2Session, report>>
Stable(s) == ident[s] # None /\ ident'[s] = ident[s]
Passes(c, s) ==
  /\ Takes(s) /\ Stable(s) /\ Head(down[s]).type \in {"data", "response", "login_error"}
  /\ UNCHANGED <<m_user2Session, report>>
Ignores(c, s) ==
  /\ Takes(s) /\ Stable(s) /\ ident[s] # c /\ UNCHANGED <<m_user2Session, report>>
Completes(c, s) ==
  /\ Takes(s) /\ Stable(s) /\ Head(down[s]).type = "login_ok" /\ report[c] = {}
  /\ \A u \in DOMAIN m_user2Session[c] \cup {Head(down[s]).user} :
       u \in DOMAIN m_user2Session'[c] \cup report'[c]
Evicts(c, s) ==
  /\ Takes(s) /\ Stable(s) /\ Head(down[s]).type = "kickout" /\ report'[c] = report[c]
  /\ \A u \in DOMAIN m_user2Session[c] : u # Head(down[s]).user => u \in DOMAIN m_user2Session'[c]
  /\ \A k \in DOMAIN m_session2User'[c] : m_session2User[c][k] # Head(down[s]).user
Reports(c, s, u) ==
  /\ Stable(s) /\ down'[s] = down[s]
  /\ s \in lost' \/ up'[s] = Append(up[s], Logout(ident[s], u))
  /\ \A v \in DOMAIN m_user2Session[c] : v # u => v \in DOMAIN m_user2Session'[c]
  /\ \A v \in report[c] : v # u => v \in report'[c]
NodeLink(c, s) ==
  \/ Grows(c, s) \/ Starts(c, s) \/ Passes(c, s) \/ Ignores(c, s)
  \/ Completes(c, s) \/ Evicts(c, s) \/ (\E u : Reports(c, s, u)) \/ m_msgClient'[c] = 0
Untouched(t) == up'[t] = up[t] /\ down'[t] = down[t] /\ ident'[t] = ident[t]
NodeTouches(c, t) ==
  lost \subseteq lost' /\ IF t = m_msgClient[c] THEN NodeLink(c, t) ELSE Untouched(t)

\* Closing connections of node c as seen by any other connection.
LEMMA CloseApart ==
  ASSUME UplinkInv, NEW c \in C2s, NEW S, S \subseteq AtNode(c), NEW pk, Close(S, pk),
         NEW t \in Conns, t \notin AtNode(c)
  PROVE  /\ ident'[t] = ident[t] /\ lost \subseteq lost'
         /\ t \notin DOMAIN pk => up'[t] = up[t]
         /\ t \in DOMAIN pk => t \in lost' \/ up'[t] = Append(up[t], pk[t])
<1>1. IsQueue(up) /\ DOMAIN ident = Conns /\ t \notin S
    BY DEF UplinkInv, LinkShape
<1> QED BY <1>1, CloseQueue

\* The same for a packet taken from the uplink and answered below.
LEMMA PopApart ==
  ASSUME UplinkInv, NEW c \in C2s, m_msgClient[c] # 0, down[m_msgClient[c]] # <<>>,
         NEW S, S \subseteq AtNode(c), NEW pk, DOMAIN pk \subseteq AtNode(c),
         NEW t \in Conns, t \notin AtNode(c)
  PROVE  /\ Popped(c)[t] = IF t = m_msgClient[c] THEN Tail(down[t]) ELSE down[t]
         /\ Discard(Popped(c), S)[t] = Popped(c)[t]
         /\ Send(Popped(c), pk)[t] = Popped(c)[t]
         /\ Send(Discard(Popped(c), S), pk)[t] = Popped(c)[t]
<1>1. /\ IsQueue(Popped(c))
      /\ Popped(c)[t] = IF t = m_msgClient[c] THEN Tail(down[t]) ELSE down[t]
    BY PoppedQueue
<1>2. t \notin S /\ t \notin DOMAIN pk
    OBVIOUS
<1>3. IsQueue(Discard(Popped(c), S)) /\ Discard(Popped(c), S)[t] = Popped(c)[t]
    BY <1>1, <1>2, DiscardQueue
<1>4. /\ Send(Popped(c), pk)[t] = Popped(c)[t]
      /\ Send(Discard(Popped(c), S), pk)[t] = Discard(Popped(c), S)[t]
    BY <1>1, <1>2, <1>3, SendQueue
<1> QED BY <1>1, <1>3, <1>4

\* The same for a client that goes away.
LEMMA LogoffApart ==
  ASSUME C2sInv, SockInv, UplinkInv, PlaceInv, NEW c \in C2s, NEW k, NEW u,
         k \in DOMAIN m_session2User[c], Logoff(c, k, u), NEW t \in Conns, t \notin AtNode(c)
  PROVE  NodeTouches(c, t)
<1>1. /\ m_user2Session' = [m_user2Session EXCEPT ![c] = Erase(@, {u})] /\ report' = report
      /\ Close({k}, ReportLogout(c, u)) /\ down' = Discard(down, {k})
    BY DEF Logoff
<1>2. {k} \subseteq AtNode(c) /\ IsQueue(down) /\ DOMAIN m_user2Session = C2s
    BY DEF AtNode, UplinkInv, LinkShape, C2sInv, TablesOfNodes
<1>3. m_msgClient[c] # 0 /\ ident[m_msgClient[c]] # None
    BY <1>2 DEF PlaceInv, Linked
<1>4. down'[t] = down[t]
    BY <1>1, <1>2, DiscardQueue
<1>5. DOMAIN ReportLogout(c, u) = {m_msgClient[c]}
      /\ ReportLogout(c, u)[m_msgClient[c]] = Logout(ident[m_msgClient[c]], u)
    BY <1>3 DEF ReportLogout
<1>6. /\ ident'[t] = ident[t] /\ lost \subseteq lost'
      /\ t # m_msgClient[c] => up'[t] = up[t]
      /\ t = m_msgClient[c] => t \in lost' \/ up'[t] = Append(up[t], Logout(ident[t], u))
  <2>1. PICK pk, S : pk = ReportLogout(c, u) /\ S = {k}
      OBVIOUS
  <2>a. Close(S, pk) /\ S \subseteq AtNode(c)
      BY <1>1, <1>2, <2>1
  <2>2. /\ ident'[t] = ident[t] /\ lost \subseteq lost'
        /\ t \notin DOMAIN pk => up'[t] = up[t]
        /\ t \in DOMAIN pk => t \in lost' \/ up'[t] = Append(up[t], pk[t])
      BY <2>a, CloseApart
  <2> QED BY <1>5, <2>1, <2>2
<1>7. \A v \in DOMAIN m_user2Session[c] : v # u => v \in DOMAIN m_user2Session'[c]
    BY <1>1, <1>2 DEF Erase
<1>8. t = m_msgClient[c] => Reports(c, t, u)
    BY <1>1, <1>3, <1>4, <1>6, <1>7 DEF Reports, Stable
<1> QED BY <1>4, <1>6, <1>8 DEF NodeTouches, NodeLink, Untouched

\* The answer to a login is taken from the uplink t.
LEMMA LoginOkApart ==
  ASSUME C2sInv, SockInv, UplinkInv, NEW c \in C2s, NEW outcome, C2sLoginOk(c, outcome),
         NEW t \in Conns, t \notin AtNode(c)
  PROVE  lost \subseteq lost' /\ IF t = m_msgClient[c] THEN Completes(c, t) ELSE Untouched(t)
<1>z. IsQueue(up) /\ IsQueue(down) /\ DOMAIN m_user2Session = C2s /\ DOMAIN report = C2s
    BY DEF UplinkInv, LinkShape, C2sInv, TablesOfNodes
<1>y. t \notin DOMAIN <<>>
    OBVIOUS
<1>x. ASSUME m_msgClient[c] # 0, down[m_msgClient[c]] # <<>>, down'[t] = Popped(c)[t], up'[t] = up[t]
      PROVE  IF t = m_msgClient[c] THEN Takes(t) ELSE down'[t] = down[t] /\ up'[t] = up[t]
    BY <1>x, <1>z, PoppedQueue DEF Takes
<1> DEFINE m     == Msg(c)
           k     == m.index
           u     == m.user
           known == k \in DOMAIN m_timerId2Info[c]
           new   == outcome # "no session"
           old   == IF known /\ new /\ u \in DOMAIN m_user2Session[c]
                      THEN {m_user2Session[c][u]} ELSE {}
           ok    == known /\ outcome = "ok"
           closed == old \cup IF known /\ ~ok THEN {k} ELSE {}
           pk    == [j \in IF ok THEN {k} ELSE {} |-> Response(u)]
<1>1. /\ Uplink(c, {"login_ok"})
      /\ Close(closed, <<>>) /\ down' = Send(Discard(Popped(c), closed), pk)
    BY DEF C2sLoginOk, OnRecvMsg
<1>2. closed \subseteq AtNode(c)
  <2>0. u \in DOMAIN m_user2Session[c] => m_user2Session[c][u] \in AtNode(c)
    <3> HIDE DEF u
    <3> QED BY DEF C2sInv, NodeInv, Inverses, AtNode
  <2>1. old \subseteq AtNode(c)
    <3> HIDE DEF u, known, new
    <3> QED BY <2>0
  <2>2. known => k \in AtNode(c)
      BY DEF AtNode
  <2> HIDE DEF old, k, ok
  <2> QED BY <2>1, <2>2
<1>3. DOMAIN pk \subseteq AtNode(c)
    BY DEF AtNode
<1> DEFINE u2s == IF old = {} THEN m_user2Session[c] ELSE Erase(m_user2Session[c], {u})
<1>a. /\ m_user2Session' = [m_user2Session EXCEPT ![c] = IF ok THEN Put(u2s, u, k) ELSE u2s]
      /\ report' = [report EXCEPT ![c] = IF ok THEN {} ELSE {u}]
    BY DEF C2sLoginOk
<1> DEFINE G == m_user2Session'[c]
           R == report'[c]
<1> HIDE DEF u2s, ok, u, k
<1>4. G = IF ok THEN Put(u2s, u, k) ELSE u2s
    BY <1>z, <1>a
<1>5. R = IF ok THEN {} ELSE {u}
    BY <1>z, <1>a
<1> HIDE DEF closed, pk, ok, old, u, G, R, k
<1>6. \A v \in DOMAIN m_user2Session[c] \cup {u} : v \in DOMAIN G \cup R
  <2>1. DOMAIN u2s \cup {u} = DOMAIN m_user2Session[c] \cup {u}
      BY DEF Erase, u2s
  <2>2. CASE ok
      BY <1>4, <2>1, <2>2 DEF Put
  <2>3. CASE ~ok
      BY <1>4, <1>5, <2>1, <2>3
  <2> QED BY <2>2, <2>3
<1>7. /\ m_msgClient[c] # 0 /\ down[m_msgClient[c]] # <<>> /\ ident[m_msgClient[c]] # None
      /\ Head(down[m_msgClient[c]]).type = "login_ok" /\ report[c] = {}
      /\ u = Head(down[m_msgClient[c]]).user
    BY <1>1 DEF Uplink, Upcall, u, Msg
<1>8. down'[t] = Popped(c)[t]
    BY <1>1, <1>2, <1>3, <1>7, PopApart
<1>9. ident'[t] = ident[t] /\ lost \subseteq lost' /\ up'[t] = up[t]
    BY <1>y, <1>1, <1>2, CloseApart
<1>10. IF t = m_msgClient[c] THEN Takes(t) ELSE Untouched(t)
    BY <1>x, <1>7, <1>8, <1>9 DEF Untouched
<1>11. t = m_msgClient[c] => Completes(c, t)
    BY <1>6, <1>7, <1>9, <1>10 DEF Completes, Stable, G, R
<1> QED BY <1>9, <1>10, <1>11

\* What a step of node c does to the connections that are not its clients'.
LEMMA NodeTouch ==
  ASSUME C2sInv, SockInv, UplinkInv, PlaceInv, NEW c \in C2s, C2sNext(c),
         NEW t \in Conns, t \notin AtNode(c)
  PROVE  NodeTouches(c, t)
<1>0. IsQueue(up) /\ IsQueue(down) /\ DOMAIN m_user2Session = C2s /\ DOMAIN report = C2s
    BY DEF UplinkInv, LinkShape, C2sInv, TablesOfNodes
<1>a. t \notin DOMAIN <<>>
    OBVIOUS
<1>b. ASSUME lost \subseteq lost', Grows(c, t), t # m_msgClient[c] => up'[t] = up[t] PROVE NodeTouches(c, t)
    BY <1>b DEF NodeTouches, NodeLink, Grows, Untouched
<1>c. ASSUME m_msgClient[c] # 0, down[m_msgClient[c]] # <<>>, down'[t] = Popped(c)[t], up'[t] = up[t]
      PROVE  IF t = m_msgClient[c] THEN Takes(t) ELSE down'[t] = down[t] /\ up'[t] = up[t]
    BY <1>c, <1>0, PoppedQueue DEF Takes
<1>1. ASSUME NEW u, C2sAcceptSession(c, u) PROVE NodeTouches(c, t)
  <2>1. PICK pk : up' = Send(up, pk) /\ DOMAIN pk \subseteq {m_msgClient[c]}
                  /\ UNCHANGED <<down, ident, lost, m_user2Session, report>>
      BY <1>1 DEF C2sAcceptSession
  <2>2. Grows(c, t) /\ (t # m_msgClient[c] => up'[t] = up[t])
      BY <1>0, <2>1, SendQueue DEF Grows
  <2> QED BY <1>b, <2>1, <2>2
<1>2. ASSUME NEW k, C2sOnTimer(c, k) PROVE NodeTouches(c, t)
  <2>1. Close({k}, <<>>) /\ {k} \subseteq AtNode(c) /\ UNCHANGED <<down, m_user2Session, report>>
      BY <1>2 DEF C2sOnTimer, AtNode
  <2>2. ident'[t] = ident[t] /\ lost \subseteq lost' /\ up'[t] = up[t]
      BY <1>a, <2>1, CloseApart
  <2> QED BY <1>b, <2>1, <2>2 DEF Grows
<1>3. CASE C2sOnOkMsg(c)
  <2>1. /\ m_msgClient[c] # 0 /\ down[m_msgClient[c]] # <<>> /\ down' = Popped(c)
        /\ ident[m_msgClient[c]] = None
        /\ ident' = [ident EXCEPT ![m_msgClient[c]] = Head(down[m_msgClient[c]]).src]
        /\ UNCHANGED <<up, lost, m_user2Session, report>>
      BY <1>3 DEF C2sOnOkMsg, OnFirstPacket, c2sVars
  <2>2. DOMAIN ident = Conns
      BY DEF UplinkInv, LinkShape
  <2> QED BY <1>c, <2>1, <2>2 DEF NodeTouches, NodeLink, Starts, Untouched
<1>4. CASE C2sOnTransferMsg(c)
  <2> DEFINE m == Msg(c)
             to == IF /\ m.type = "data" /\ m.dst # ident[m_msgClient[c]]
                      /\ m.dst \in DOMAIN m_user2Session[c]
                     THEN {m_user2Session[c][m.dst]} ELSE {}
             pk == [k \in to |-> m]
  <2>1. /\ down' = Send(Popped(c), pk) /\ UNCHANGED <<up, ident, lost, m_user2Session, report>>
      BY <1>4 DEF C2sOnTransferMsg, c2sVars
  <2>2. DOMAIN pk \subseteq AtNode(c)
      BY DEF C2sInv, NodeInv, Inverses, AtNode
  <2> HIDE DEF pk
  <2>3. m_msgClient[c] # 0 /\ down[m_msgClient[c]] # <<>> /\ ident[m_msgClient[c]] # None
      BY <1>4 DEF C2sOnTransferMsg, Uplink
  <2>4. Head(down[m_msgClient[c]]).type \in {"data", "response"} \/ ident[m_msgClient[c]] # c
      BY <1>4 DEF C2sOnTransferMsg, Uplink, Named
  <2>5. Send(Popped(c), pk)[t] = Popped(c)[t]
    <3>1. PICK S : S = DOMAIN pk
        OBVIOUS
    <3>2. S \subseteq AtNode(c)
        BY <2>2, <3>1
    <3> QED BY <2>2, <2>3, <3>2, PopApart
  <2>6. down'[t] = Popped(c)[t]
      BY <2>1, <2>5
  <2> QED BY <1>c, <2>1, <2>3, <2>4, <2>6 DEF NodeTouches, NodeLink, Passes, Ignores, Stable, Untouched
<1>5. ASSUME NEW outcome, C2sLoginOk(c, outcome) PROVE NodeTouches(c, t)
    BY <1>5, LoginOkApart DEF NodeTouches, NodeLink
<1>6. CASE C2sReport(c)
  <2>1. PICK u \in report[c] : Close({}, ReportLogout(c, u)) /\ down' = down
                               /\ m_user2Session' = m_user2Session
      BY <1>6 DEF C2sReport
  <2>2. ident[m_msgClient[c]] # None \/ m_msgClient[c] = 0
      BY <2>1 DEF PlaceInv, Linked
  <2>3. \A v \in report[c] : v = u
      BY DEF PlaceInv, Linked
  <2>4. 0 \notin Conns
      BY DEF Conns
  <2>5. DOMAIN ReportLogout(c, u) = {m_msgClient[c]} \ {0}
        /\ \A s \in DOMAIN ReportLogout(c, u) : ReportLogout(c, u)[s] = Logout(ident[s], u)
      BY DEF ReportLogout
  <2>6. /\ ident'[t] = ident[t] /\ lost \subseteq lost'
        /\ t # m_msgClient[c] => up'[t] = up[t]
        /\ t = m_msgClient[c] => t \in lost' \/ up'[t] = Append(up[t], Logout(ident[t], u))
    <3>1. PICK pk : pk = ReportLogout(c, u)
        OBVIOUS
    <3>2. /\ ident'[t] = ident[t] /\ lost \subseteq lost'
          /\ t \notin DOMAIN pk => up'[t] = up[t]
          /\ t \in DOMAIN pk => t \in lost' \/ up'[t] = Append(up[t], pk[t])
        BY <2>1, <3>1, CloseApart
    <3>3. t \in DOMAIN pk <=> t = m_msgClient[c]
        BY <2>4, <2>5, <3>1
    <3>4. t \in DOMAIN pk => pk[t] = Logout(ident[t], u)
        BY <2>5, <3>1
    <3> QED BY <3>2, <3>3, <3>4
  <2>7. t = m_msgClient[c] => Reports(c, t, u)
      BY <2>1, <2>2, <2>3, <2>4, <2>6 DEF Reports, Stable
  <2> QED BY <2>1, <2>6, <2>7 DEF NodeTouches, NodeLink, Untouched
<1>7. CASE C2sLoginError(c)
  <2> DEFINE k == {Msg(c).index} \cap DOMAIN m_timerId2Info[c]
  <2>1. /\ Uplink(c, {"login_error"}) /\ UNCHANGED <<m_user2Session, report>>
        /\ Close(k, <<>>) /\ down' = Popped(c)
      BY <1>7 DEF C2sLoginError, OnRecvMsg
  <2>2. k \subseteq AtNode(c)
      BY DEF AtNode
  <2> HIDE DEF k
  <2>3. ident'[t] = ident[t] /\ lost \subseteq lost' /\ up'[t] = up[t]
      BY <1>a, <2>1, <2>2, CloseApart
  <2>4. /\ m_msgClient[c] # 0 /\ down[m_msgClient[c]] # <<>> /\ ident[m_msgClient[c]] # None
        /\ Head(down[m_msgClient[c]]).type = "login_error"
      BY <2>1 DEF Uplink
  <2> QED BY <1>c, <2>1, <2>3, <2>4 DEF NodeTouches, NodeLink, Passes, Stable, Untouched
<1>8. CASE C2sKickout(c)
  <2> DEFINE u == Msg(c).user
             k == IF u \in DOMAIN m_user2Session[c] THEN {m_user2Session[c][u]} ELSE {}
  <2>1. /\ Uplink(c, {"kickout"}) /\ report' = report
        /\ m_user2Session' = [m_user2Session EXCEPT ![c] = Erase(@, {u})]
        /\ m_session2User' = [m_session2User EXCEPT ![c] = Erase(@, k)]
        /\ Close(k, <<>>) /\ down' = Discard(Popped(c), k)
      BY <1>8 DEF C2sKickout, OnRecvMsg
  <2>2. k \subseteq AtNode(c)
      BY DEF C2sInv, NodeInv, Inverses, AtNode
  <2>10. \A j \in DOMAIN m_session2User'[c] : m_session2User[c][j] # u
    <3>1. \A j \in DOMAIN m_session2User[c] : m_session2User[c][j] = u => j \in k
      <4>1. PICK v : v = u
          OBVIOUS
      <4>2. \A j \in DOMAIN m_session2User[c] : m_session2User[c][j] = v =>
              v \in DOMAIN m_user2Session[c] /\ m_user2Session[c][v] = j
          BY DEF C2sInv, NodeInv, Inverses
      <4> HIDE DEF u
      <4> QED BY <4>1, <4>2
    <3> HIDE DEF k, u
    <3>2. m_session2User'[c] = Erase(m_session2User[c], k)
        BY <2>1 DEF C2sInv, TablesOfNodes
    <3> QED BY <3>1, <3>2 DEF Erase
  <2>5. \A v \in DOMAIN m_user2Session[c] : v # u => v \in DOMAIN m_user2Session'[c]
      BY <1>0, <2>1 DEF Erase
  <2> HIDE DEF k, u
  <2>3. ident'[t] = ident[t] /\ lost \subseteq lost' /\ up'[t] = up[t]
      BY <1>a, <2>1, <2>2, CloseApart
  <2>4. /\ m_msgClient[c] # 0 /\ down[m_msgClient[c]] # <<>> /\ ident[m_msgClient[c]] # None
        /\ Head(down[m_msgClient[c]]).type = "kickout" /\ u = Head(down[m_msgClient[c]]).user
      BY <2>1 DEF Uplink, u, Msg
  <2>6. DOMAIN <<>> \subseteq AtNode(c)
      OBVIOUS
  <2>7. down'[t] = Popped(c)[t]
      BY <2>1, <2>2, <2>4, <2>6, PopApart
  <2>8. IF t = m_msgClient[c] THEN Takes(t) ELSE Untouched(t)
      BY <1>c, <2>3, <2>4, <2>7 DEF Untouched
  <2>9. t = m_msgClient[c] => Evicts(c, t)
      BY <2>1, <2>3, <2>4, <2>5, <2>8, <2>10 DEF Evicts, Stable
  <2> QED BY <2>3, <2>8, <2>9 DEF NodeTouches, NodeLink
<1>9. ASSUME NEW k \in Conns, C2sOnRecvSession(c, k) PROVE NodeTouches(c, t)
  <2> DEFINE m     == Head(up[k])
             ok    == k \in DOMAIN m_session2User[c] /\ m.src = m_session2User[c][k]
             local == m.dst \in DOMAIN m_user2Session[c]
             pk == [j \in IF ok /\ local THEN {m_user2Session[c][m.dst]} ELSE {} |-> m]
             qk == [s \in IF ok /\ ~local THEN {m_msgClient[c]} \ {0} ELSE {} |-> m]
             d == [up EXCEPT ![k] = Tail(@)]
  <2>1. /\ k \in DOMAIN m_session2User[c] /\ up[k] # <<>>
        /\ down' = Send(down, pk) /\ up' = Send(d, qk)
        /\ UNCHANGED <<ident, lost, m_user2Session, report>>
      BY <1>9 DEF C2sOnRecvSession, c2sVars
  <2>2. DOMAIN pk \subseteq AtNode(c) /\ DOMAIN qk \subseteq {m_msgClient[c]} /\ k \in AtNode(c)
      BY <2>1 DEF C2sInv, NodeInv, Inverses, AtNode
  <2>3. IsQueue(d) /\ d[t] = up[t]
    <3>1. t # k
        BY <2>2
    <3>2. IsQueue(d)
        BY <1>0, <2>1, PopQueue
    <3>3. d[t] = up[t]
        BY <1>0, <3>1 DEF IsQueue
    <3> QED BY <3>2, <3>3
  <2> HIDE DEF pk, qk, d
  <2>4. down'[t] = down[t]
      BY <1>0, <2>1, <2>2, SendQueue
  <2>5. (up'[t] = up[t] \/ \E e : up'[t] = Append(up[t], e)) /\ (t # m_msgClient[c] => up'[t] = up[t])
    <3>1. Send(d, qk)[t] = IF t \in DOMAIN qk /\ ~Full(d, t) THEN Append(d[t], qk[t]) ELSE d[t]
        BY <2>3, SendQueue
    <3> QED BY <2>1, <2>2, <2>3, <3>1
  <2> QED BY <1>b, <2>1, <2>4, <2>5 DEF Grows
<1>10. CASE DropAll(c)
  <2> DEFINE s == {m_msgClient[c]} \ {0}
             k == AtNode(c)
  <2>1. /\ up' = Discard(up, k) /\ down' = Discard(down, k \cup s) /\ Forget(k \cup s)
        /\ m_msgClient' = [m_msgClient EXCEPT ![c] = 0] /\ lost' = lost
      BY <1>10 DEF DropAll, AtNode
  <2>2. m_msgClient'[c] = 0
      BY <2>1 DEF UplinkInv, LinkShape
  <2>3. up'[t] = up[t] /\ (t # m_msgClient[c] => ident'[t] = ident[t] /\ down'[t] = down[t])
      BY <1>0, <2>1, DiscardQueue DEF Forget
  <2> QED BY <2>1, <2>2, <2>3 DEF NodeTouches, NodeLink, Untouched
<1>11. ASSUME NEW u, C2sKickoutUser(c, u) PROVE NodeTouches(c, t)
  <2>1. u \in DOMAIN m_user2Session[c] /\ Logoff(c, m_user2Session[c][u], u)
      BY <1>11 DEF C2sKickoutUser
  <2>2. m_user2Session[c][u] \in DOMAIN m_session2User[c]
      BY <2>1 DEF C2sInv, NodeInv, Inverses
  <2> QED BY <2>1, <2>2, LogoffApart
<1>12. ASSUME NEW k, C2sOnCloseSession(c, k) PROVE NodeTouches(c, t)
    BY <1>12, LogoffApart DEF C2sOnCloseSession
<1>13. CASE C2sOnCloseMsg(c) \/ C2sFini(c)
    BY <1>10, <1>13 DEF C2sOnCloseMsg, C2sFini
<1> QED
    BY <1>1, <1>2, <1>3, <1>4, <1>5, <1>6, <1>7, <1>8, <1>9, <1>11, <1>12, <1>13 DEF C2sNext

\* A packet of the node's is taken.
LEMMA TakesFirst ==
  ASSUME NEW s, IsSeq(down[s]), Takes(s)
  PROVE  /\ 1 \in DOMAIN down[s] /\ down[s][1] = Head(down[s])
         /\ \A i \in DOMAIN down[s] : i \in Nat /\ (i # 1 => i - 1 \in DOMAIN down'[s] /\ down'[s][i - 1] = down[s][i])
         /\ \A i \in DOMAIN down'[s] : i \in Nat /\ i + 1 \in DOMAIN down[s] /\ down[s][i + 1] = down'[s][i]
<1>1. PICK q, p, n : q = down[s] /\ p = down'[s] /\ n = Len(q)
    OBVIOUS
<1>2. /\ n \in Nat \ {0} /\ DOMAIN q = 1..n /\ DOMAIN p = 1..(n - 1) /\ Head(q) = q[1]
      /\ \A i \in 1..(n - 1) : p[i] = q[i + 1]
    BY <1>1, TailIsSeq DEF Takes
<1>3. /\ 1 \in DOMAIN q /\ q[1] = Head(q)
      /\ \A i \in DOMAIN p : i \in Nat /\ i + 1 \in DOMAIN q /\ q[i + 1] = p[i]
    BY <1>2
<1>4. ASSUME NEW i \in DOMAIN q PROVE i \in Nat /\ (i # 1 => i - 1 \in DOMAIN p /\ p[i - 1] = q[i])
  <2>1. i \in 1..n
      BY <1>2
  <2>2. ASSUME i # 1 PROVE i - 1 \in 1..(n - 1) /\ (i - 1) + 1 = i
      BY <1>2, <2>1, <2>2
  <2> QED BY <1>2, <2>1, <2>2
<1> QED BY <1>1, <1>3, <1>4

\* A user is still to be renewed once the oldest packet is taken.
LEMMA TakenRenews ==
  ASSUME NEW s, IsSeq(down[s]), Takes(s), rsp' = rsp, NEW u, Renewed(s, u)
  PROVE  Renewed(s, u)'
<1>1. Due(s, u) => Due(s, u)'
    BY DEF Due, IsOk
<1>2. PICK q, p : q = down[s] /\ p = down'[s]
    OBVIOUS
<1>3. /\ \A i \in DOMAIN q : i \in Nat /\ (i # 1 => i - 1 \in DOMAIN p /\ p[i - 1] = q[i])
      /\ \A i \in DOMAIN p : i \in Nat /\ i + 1 \in DOMAIN q /\ q[i + 1] = p[i]
    BY <1>2, TakesFirst
<1>4. ASSUME NEW i \in DOMAIN p, IsKick(p[i], u), ~Due(s, u)
      PROVE  \E j \in DOMAIN p : j > i /\ IsOk(p[j], u)
  <2>1. i \in Nat /\ i + 1 \in DOMAIN q /\ IsKick(q[i + 1], u)
      BY <1>3, <1>4
  <2>2. PICK j \in DOMAIN q : j > i + 1 /\ IsOk(q[j], u)
      BY <1>2, <1>4, <2>1 DEF Renewed
  <2>3. j \in Nat /\ j # 1 /\ j - 1 > i
      BY <1>3, <2>1, <2>2
  <2>4. j - 1 \in DOMAIN p /\ IsOk(p[j - 1], u)
      BY <1>3, <2>2, <2>3
  <2> QED BY <2>3, <2>4
<1> QED BY <1>1, <1>2, <1>4 DEF Renewed, IsKick, IsOk

\* A login_ok is still coming, or it is the packet taken.
LEMMA TakenComing ==
  ASSUME NEW s, IsSeq(down[s]), Takes(s), rsp' = rsp, NEW u, OkComing(s, u)
  PROVE  OkComing(s, u)' \/ IsOk(Head(down[s]), u)
<1>1. CASE Due(s, u)
    BY <1>1 DEF Due, OkComing, IsOk
<1>2. ASSUME NEW i \in DOMAIN down[s], IsOk(down[s][i], u)
      PROVE  OkComing(s, u)' \/ IsOk(Head(down[s]), u)
  <2>1. CASE i = 1
      BY <1>2, <2>1, TakesFirst
  <2>2. CASE i # 1
    <3>1. i - 1 \in DOMAIN down'[s] /\ down'[s][i - 1] = down[s][i]
        BY <1>2, <2>2, TakesFirst
    <3>2. \E j \in DOMAIN down'[s] : down'[s][j] = down[s][i]
        BY <3>1
    <3> QED BY <1>2, <3>2 DEF OkComing, IsOk
  <2> QED BY <2>1, <2>2
<1> QED BY <1>1, <1>2 DEF OkComing

\* A logout that is coming keeps coming.
LEMMA LogoutKept ==
  ASSUME NEW c, NEW s, IsSeq(up[s]), task' = task, NEW u, LogoutComing(c, s, u),
         up'[s] = up[s] \/ \E e : up'[s] = Append(up[s], e),
         u \in report[c] => u \in report'[c]
  PROVE  LogoutComing(c, s, u)'
<1>1. CASE u \in report[c]
    BY <1>1 DEF LogoutComing
<1>2. ASSUME NEW i \in DOMAIN up[s], up[s][i] = Logout(c, u) PROVE LogoutComing(c, s, u)'
  <2>1. CASE up'[s] = up[s]
      BY <1>2, <2>1 DEF LogoutComing, Logout
  <2>2. ASSUME NEW e, up'[s] = Append(up[s], e) PROVE LogoutComing(c, s, u)'
    <3>1. i \in DOMAIN up'[s] /\ up'[s][i] = up[s][i]
        BY <2>2, AppendIsSeq
    <3> QED BY <1>2, <3>1 DEF LogoutComing, Logout
  <2> QED BY <2>1, <2>2
<1>3. CASE \E i \in DOMAIN task : task[i] = [cmd |-> "recv", conn |-> s, msg |-> Logout(c, u), c2s |-> c]
    BY <1>3 DEF LogoutComing, Logout
<1> QED BY <1>1, <1>2, <1>3 DEF LogoutComing

\* A step of a node makes no ghost: who goes is reported, to the server or to be.
LEMMA NodeGhost ==
  ASSUME C2sInv, SockInv, UplinkInv, UplinkInv', PlaceInv, GhostInv, NEW d \in C2s, C2sNext(d),
         UNCHANGED serverVars
  PROVE  GhostInv'
<1> SUFFICES ASSUME NEW c \in C2s, NEW s \in Conns, Sees(c, s)'
             PROVE  /\ ident'[s] = None => Welcome(s)'
                    /\ \A u \in m_session2Ctx'[s].subs :
                         Renewed(s, u)' /\ (ident'[s] \in {c, None} => Accounted(c, s, u)')
    BY DEF GhostInv
<1>0. UNCHANGED <<m_session2Ctx, task, rsp>> /\ s = m_msgClient'[c] /\ s \notin lost' /\ s # 0
    BY DEF serverVars, Sees, Conns
<1>1. s = m_msgClient[c]
    BY <1>0, NodeTable DEF NodeTables, Keeps, Drops
<1>2. s \notin AtNode(d)
    BY <1>1, UplinkApart
<1>3. NodeTouches(d, s)
    BY <1>2, NodeTouch
<1>4. Sees(c, s)
    BY <1>0, <1>1, <1>3 DEF NodeTouches, Sees
<1>5. IsSeq(down[s]) /\ IsSeq(up[s])
    BY <1>4, SeenIsOwn
<1>6. /\ ident[s] = None => Welcome(s)
      /\ \A u \in m_session2Ctx[s].subs :
           Renewed(s, u) /\ (ident[s] \in {c, None} => Accounted(c, s, u))
    BY <1>4 DEF GhostInv
<1>7. \A u : Due(s, u)' <=> Due(s, u)
    BY <1>0 DEF Due, IsOk
<1>8. ASSUME down'[s] = down[s], ident'[s] = ident[s],
             up'[s] = up[s] \/ \E e : up'[s] = Append(up[s], e),
             m_user2Session'[c] = m_user2Session[c], report'[c] = report[c]
      PROVE  /\ ident'[s] = None => Welcome(s)'
             /\ \A u \in m_session2Ctx'[s].subs :
                  Renewed(s, u)' /\ (ident'[s] \in {c, None} => Accounted(c, s, u)')
  <2>1. Welcome(s) => Welcome(s)'
      BY <1>0, <1>8 DEF Welcome, IsResponse, Response
  <2>2. \A u : Renewed(s, u) => Renewed(s, u)'
      BY <1>7, <1>8 DEF Renewed, IsOk, IsKick
  <2>3. \A u : OkComing(s, u) => OkComing(s, u)'
      BY <1>7, <1>8 DEF OkComing, IsOk
  <2>4. \A u : LogoutComing(c, s, u) => LogoutComing(c, s, u)'
      BY <1>0, <1>5, <1>8, LogoutKept
  <2>5. \A u : Accounted(c, s, u) => Accounted(c, s, u)'
      BY <1>8, <2>3, <2>4 DEF Accounted
  <2> QED BY <1>0, <1>6, <1>8, <2>1, <2>2, <2>5
<1>9. CASE d # c
  <2>1. s # m_msgClient[d]
      BY <1>0, <1>1, <1>9 DEF UplinkInv
  <2>2. Untouched(s)
      BY <1>3, <2>1 DEF NodeTouches
  <2>3. m_user2Session'[c] = m_user2Session[c] /\ report'[c] = report[c]
      BY <1>9, NodeTable, NodeEntry DEF NodeTables, NodeEntries
  <2> QED BY <1>8, <2>2, <2>3 DEF Untouched
<1>10. CASE d = c
  <2>0. NodeLink(c, s)
      BY <1>1, <1>3, <1>10 DEF NodeTouches
  <2>a. ASSUME Takes(s) PROVE \A u \in m_session2Ctx'[s].subs : Renewed(s, u)'
      BY <1>0, <1>5, <1>6, <2>a, TakenRenews
  <2>b. ASSUME Takes(s), NEW u, OkComing(s, u)
        PROVE  OkComing(s, u)' \/ (Head(down[s]).type = "login_ok" /\ Head(down[s]).user = u)
      BY <1>0, <1>5, <2>b, TakenComing DEF IsOk
  <2>c. ASSUME Takes(s), NEW u, LogoutComing(c, s, u), u \in report[c] => u \in report'[c]
        PROVE  LogoutComing(c, s, u)'
      BY <1>0, <1>5, <2>c, LogoutKept DEF Takes
  <2>1. CASE Grows(c, s)
      BY <1>8, <2>1 DEF Grows
  <2>2. CASE Starts(c, s)
    <3>1. Takes(s) /\ ident[s] = None /\ UNCHANGED <<m_user2Session, report>>
          /\ ident'[s] = Head(down[s]).src /\ down[s] # <<>>
        BY <2>2 DEF Starts, Takes
    <3>2. Head(down[s]).type \in {"data", "response"} /\ Head(down[s]).src # None
        BY <1>5, <1>6, <3>1, TakesFirst DEF Welcome
    <3>3. ASSUME NEW u, Accounted(c, s, u) PROVE Accounted(c, s, u)'
        BY <2>b, <2>c, <3>1, <3>2, <3>3 DEF Accounted
    <3> QED BY <1>0, <1>6, <2>a, <3>1, <3>2, <3>3
  <2>3. CASE Passes(c, s)
    <3>1. Takes(s) /\ ident[s] # None /\ UNCHANGED <<m_user2Session, report>>
          /\ ident'[s] = ident[s] /\ Head(down[s]).type # "login_ok"
        BY <2>3 DEF Passes, Stable
    <3>3. ASSUME NEW u, Accounted(c, s, u) PROVE Accounted(c, s, u)'
        BY <2>b, <2>c, <3>1, <3>3 DEF Accounted
    <3> QED BY <1>0, <1>6, <2>a, <3>1, <3>3
  <2>7. CASE Ignores(c, s)
    <3>1. Takes(s) /\ ident'[s] \notin {c, None}
        BY <2>7 DEF Ignores, Stable
    <3> QED BY <2>a, <3>1
  <2>4. CASE Completes(c, s)
    <3>1. Takes(s) /\ ident[s] # None /\ ident'[s] = ident[s] /\ report[c] = {}
          /\ \A u \in DOMAIN m_user2Session[c] \cup {Head(down[s]).user} :
               u \in DOMAIN m_user2Session'[c] \cup report'[c]
        BY <2>4 DEF Completes, Stable
    <3>2. \A u : u \in report'[c] => LogoutComing(c, s, u)'
        BY DEF LogoutComing
    <3>3. ASSUME NEW u, Accounted(c, s, u) PROVE Accounted(c, s, u)'
        BY <2>b, <2>c, <3>1, <3>2, <3>3 DEF Accounted
    <3> QED BY <1>0, <1>6, <2>a, <3>1, <3>3
  <2>5. CASE Evicts(c, s)
    <3>1. Takes(s) /\ ident[s] # None /\ ident'[s] = ident[s] /\ report'[c] = report[c]
          /\ Head(down[s]).type = "kickout"
          /\ \A u \in DOMAIN m_user2Session[c] : u # Head(down[s]).user => u \in DOMAIN m_user2Session'[c]
        BY <2>5 DEF Evicts, Stable
    <3>2. ASSUME NEW u, Renewed(s, u), Head(down[s]).user = u PROVE OkComing(s, u)
      <4>1. 1 \in DOMAIN down[s] /\ IsKick(down[s][1], u)
          BY <1>5, <3>1, <3>2, TakesFirst DEF IsKick
      <4> QED BY <3>2, <4>1 DEF Renewed, OkComing
    <3>3. ASSUME NEW u, Renewed(s, u), Accounted(c, s, u) PROVE Accounted(c, s, u)'
        BY <2>b, <2>c, <3>1, <3>2, <3>3 DEF Accounted
    <3> QED BY <1>0, <1>6, <2>a, <3>1, <3>3
  <2>6. ASSUME NEW v, Reports(c, s, v)
        PROVE  /\ ident'[s] = None => Welcome(s)'
               /\ \A u \in m_session2Ctx'[s].subs :
                    Renewed(s, u)' /\ (ident'[s] \in {c, None} => Accounted(c, s, u)')
    <3>1. /\ ident[s] # None /\ ident'[s] = ident[s] /\ down'[s] = down[s]
          /\ up'[s] = Append(up[s], Logout(ident[s], v))
          /\ \A u \in DOMAIN m_user2Session[c] : u # v => u \in DOMAIN m_user2Session'[c]
          /\ \A u \in report[c] : u # v => u \in report'[c]
        BY <1>0, <2>6 DEF Reports, Stable
    <3>2. \A u : Renewed(s, u) => Renewed(s, u)'
        BY <1>7, <3>1 DEF Renewed, IsOk, IsKick
    <3>3. \A u : OkComing(s, u) => OkComing(s, u)'
        BY <1>7, <3>1 DEF OkComing, IsOk
    <3>4. ASSUME ident[s] = c PROVE LogoutComing(c, s, v)'
      <4>1. \E i \in DOMAIN up'[s] : up'[s][i] = Logout(c, v)
          BY <1>5, <3>1, <3>4, AppendIsSeq
      <4> QED BY <4>1 DEF LogoutComing, Logout
    <3>5. ASSUME NEW u, u # v, LogoutComing(c, s, u) PROVE LogoutComing(c, s, u)'
        BY <1>0, <1>5, <3>1, <3>5, LogoutKept
    <3>6. ASSUME NEW u, ident[s] = c, Accounted(c, s, u) PROVE Accounted(c, s, u)'
        BY <3>1, <3>3, <3>4, <3>5, <3>6 DEF Accounted
    <3> QED BY <1>0, <1>6, <3>1, <3>2, <3>6
  <2> QED BY <1>0, <1>10, <2>0, <2>1, <2>2, <2>3, <2>4, <2>5, <2>6, <2>7 DEF NodeLink
<1> QED BY <1>9, <1>10

\* Steps of others leave the uplinks alone.
LEMMA GhostStays ==
  ASSUME GhostInv, UNCHANGED <<m_session2Ctx, rsp, m_user2Session, report>>,
         \A c \in C2s : \A s \in Conns : Sees(c, s)' => Sees(c, s) /\ Untouched(s),
         \A i \in DOMAIN task : i \in DOMAIN task' /\ task'[i] = task[i]
  PROVE  GhostInv'
<1> SUFFICES ASSUME NEW c \in C2s, NEW s \in Conns, Sees(c, s)'
             PROVE  /\ ident'[s] = None => Welcome(s)'
                    /\ \A u \in m_session2Ctx'[s].subs :
                         Renewed(s, u)' /\ (ident'[s] \in {c, None} => Accounted(c, s, u)')
    BY DEF GhostInv
<1>1. Sees(c, s) /\ up'[s] = up[s] /\ down'[s] = down[s] /\ ident'[s] = ident[s]
    BY DEF Untouched
<1>2. /\ ident[s] = None => Welcome(s)
      /\ \A u \in m_session2Ctx[s].subs :
           Renewed(s, u) /\ (ident[s] \in {c, None} => Accounted(c, s, u))
    BY <1>1 DEF GhostInv
<1>3. Welcome(s) => Welcome(s)'
    BY <1>1 DEF Welcome, IsResponse, Response
<1>4. \A u : Due(s, u)' <=> Due(s, u)
    BY DEF Due, IsOk
<1>5. \A u : Renewed(s, u) => Renewed(s, u)'
    BY <1>1, <1>4 DEF Renewed, IsOk, IsKick
<1>6. \A u : OkComing(s, u) => OkComing(s, u)'
    BY <1>1, <1>4 DEF OkComing, IsOk
<1>7. \A u : LogoutComing(c, s, u) => LogoutComing(c, s, u)'
    BY <1>1 DEF LogoutComing, Logout
<1>8. \A u : Accounted(c, s, u) => Accounted(c, s, u)'
    BY <1>6, <1>7 DEF Accounted
<1> QED BY <1>1, <1>2, <1>3, <1>5, <1>8

\* Nor does a new connection,
LEMMA DialGhost ==
  ASSUME IndexInv, SockInv, UplinkInv, GhostInv, NEW v, OnAcceptSession(v),
         UNCHANGED <<up, down, ident, lost, m_session2Ctx, rsp, m_user2Session, report>>,
         \/ UNCHANGED m_msgClient
         \/ \E c \in C2s : m_msgClient' = [m_msgClient EXCEPT ![c] = next]
  PROVE  GhostInv'
<1>1. \A i \in DOMAIN task : i \in DOMAIN task' /\ task'[i] = task[i]
  <2>1. task' = task \/ \E e : task' = Append(task, e)
      BY DEF OnAcceptSession
  <2> QED BY <2>1, AppendTask DEF IndexInv, TaskIsSeq
<1>2. next \notin DOMAIN m_session2Ctx
    BY DEF IndexInv, Fresh
<1>3. ASSUME NEW c \in C2s, NEW s \in Conns, Sees(c, s)' PROVE Sees(c, s) /\ Untouched(s)
    BY <1>2, <1>3 DEF Sees, Untouched, UplinkInv, LinkShape
<1> QED BY <1>1, <1>3, GhostStays

\* nor a client.
LEMMA ClientGhost ==
  ASSUME SockInv, UplinkInv, PlaceInv, GhostInv, NEW k \in Conns, ClientRecv(k) \/ \E u \in Ids : ClientSend(k, u)
  PROVE  GhostInv'
<1>1. /\ visit[k].user \in Users
      /\ UNCHANGED <<m_session2Ctx, task, rsp, lost, m_user2Session, report, m_msgClient>>
    BY DEF ClientRecv, ClientSend, ClientConns, c2sVars, serverVars
<1>2. IsQueue(up) /\ IsQueue(down) /\ DOMAIN ident = Conns
    BY DEF UplinkInv, LinkShape
<1>3. \A t \in Conns : t # k => Untouched(t)
  <2>1. CASE ClientRecv(k)
      BY <1>2, <2>1, PopQueue DEF ClientRecv, OnFirstPacket, Untouched
  <2>2. ASSUME NEW u, ClientSend(k, u)
        PROVE  \A t \in Conns : t # k => Untouched(t)
    <3>1. PICK pk : up' = Send(up, pk) /\ DOMAIN pk = {k} /\ UNCHANGED <<down, ident>>
        BY <2>2 DEF ClientSend
    <3> QED BY <1>2, <3>1, SendQueue DEF Untouched
  <2> QED BY <2>1, <2>2
<1>4. ASSUME NEW c \in C2s, NEW s \in Conns, Sees(c, s)' PROVE Sees(c, s) /\ Untouched(s)
  <2>1. Sees(c, s)
      BY <1>1, <1>4 DEF Sees
  <2>2. visit[s].user = c
      BY <2>1, SeenIsOwn
  <2>3. s # k
      BY <1>1, <2>2, NamesAssumption
  <2> QED BY <1>3, <2>1, <2>3
<1> QED BY <1>1, <1>4, GhostStays

\* GhostInv holds in every state.
LEMMA GhostInvariance == Spec => []GhostInv
<1>1. Init => GhostInv
  <2>1. Init => DOMAIN m_session2Ctx = {}
      BY DEF Init, ServerInit
  <2> QED BY <2>1 DEF GhostInv, Sees
<1>2. /\ IndexInv /\ OnlineInv /\ C2sInv /\ SockInv /\ UplinkInv /\ UplinkInv' /\ PlaceInv /\ OwnInv
      /\ GhostInv /\ [Next]_vars
      => GhostInv'
  <2> SUFFICES ASSUME IndexInv, OnlineInv, C2sInv, SockInv, UplinkInv, UplinkInv', PlaceInv, OwnInv,
                      GhostInv, [Next]_vars
               PROVE  GhostInv'
      OBVIOUS
  <2>1. CASE UNCHANGED vars
      BY <2>1, GhostStays DEF vars, linkVars, serverVars, c2sVars, Untouched, Sees
  <2>2. CASE ServerNext /\ UNCHANGED c2sVars
      BY <2>2, ServerGhost
  <2>3. ASSUME NEW c \in C2s, C2sNext(c), UNCHANGED serverVars PROVE GhostInv'
      BY <2>3, NodeGhost
  <2>4. ASSUME NEW c \in C2s, Connect(c) PROVE GhostInv'
      BY <2>4, DialGhost DEF Connect
  <2>5. ASSUME NEW u \in Users, ClientConnect(u) PROVE GhostInv'
      BY <2>5, DialGhost DEF ClientConnect, c2sVars
  <2>6. ASSUME NEW k \in Conns, ClientRecv(k) \/ \E u \in Ids : ClientSend(k, u) PROVE GhostInv'
      BY <2>6, ClientGhost
  <2> QED BY <2>1, <2>2, <2>3, <2>4, <2>5, <2>6 DEF Next
<1> QED BY <1>1, <1>2, IndexInvariance, OnlineInvariance, C2sInvariance, SockInvariance,
           UplinkInvariance, PlaceInvariance, OwnInvariance, PTL DEF Spec

(***************************************************************************)
(* A user that the server believes to be behind a C2S is one the C2S has,  *)
(* is about to hear of, or has reported gone, for every number of nodes,   *)
(* users, connections and calls: as long as nothing was refused on the     *)
(* uplink and OnFirstPacket gave the C2S no number but its own, no login   *)
(* that came too late and no client gone meanwhile leaves a ghost.         *)
(***************************************************************************)
THEOREM GhostCorrect == Spec => []NoGhostUser
<1>1. SockInv /\ OwnInv /\ GhostInv => NoGhostUser
  <2> SUFFICES ASSUME SockInv, OwnInv, GhostInv, NEW c \in C2s, NEW s, s = m_msgClient[c],
                      s \in DOMAIN m_session2Ctx, s \notin lost, ident[s] \in {c, None},
                      NEW u \in m_session2Ctx[s].subs
               PROVE  \/ u \in DOMAIN m_user2Session[c]
                      \/ SayingIn(down, s, "login_ok", u) \/ \E r \in rsp : r.user = u
                      \/ LogoutComing(c, s, u)
      BY DEF NoGhostUser
  <2>1. s \in Conns /\ Sees(c, s)
      BY DEF Sees, SockInv, AtServer
  <2>2. Accounted(c, s, u)
      BY <2>1 DEF GhostInv
  <2>3. ASSUME Due(s, u) PROVE \E r \in rsp : r.user = u
    <3>1. PICK r \in rsp : IsOk(r.msg, u)
        BY <2>3 DEF Due
    <3>2. IsResponse(r) \/ IsAnswer(r)
        BY DEF OwnInv, RspOwn
    <3>3. CASE IsResponse(r)
        BY <3>1, <3>3 DEF IsResponse, Response, IsOk
    <3>4. CASE IsAnswer(r)
      <4>1. PICK k : r.msg = LoginOk(k, r.user)
          BY <3>4 DEF IsAnswer
      <4>2. r.msg.user = r.user
          BY <4>1 DEF LoginOk
      <4> QED BY <3>1, <4>2 DEF IsOk
    <3> QED BY <3>2, <3>3, <3>4
  <2>4. ASSUME NEW i \in DOMAIN down[s], IsOk(down[s][i], u) PROVE SayingIn(down, s, "login_ok", u)
      BY <2>4 DEF SayingIn, IsOk
  <2> QED BY <2>2, <2>3, <2>4 DEF Accounted, OkComing
<1> QED BY <1>1, SockInvariance, OwnInvariance, GhostInvariance, PTL
-----------------------------------------------------------------------------
(***************************************************************************)
(* OnceInv: a login is in one place.                                       *)
(***************************************************************************)

\* Where a login was before the step, when the packets of every connection move
\* up by n and d places and the commands by m.
Src(n, d, m, g, x, i, h, y, j) ==
  \/ g = "up" /\ h = "up" /\ y = x /\ j = i + n[x]
  \/ g = "task" /\ h = "task" /\ y = x /\ j = i + m
  \/ g = "task" /\ h = "up" /\ j = 1 /\ n[y] = 1 /\ i = Len(task) + 1
  \/ g = "rsp" /\ h = "rsp" /\ rsp' = rsp
  \/ g = "rsp" /\ h = "task" /\ j = 1 /\ m = 1
  \/ g = "down" /\ h = "down" /\ y = x /\ j = i + d[x]
  \/ g = "down" /\ h = "rsp" /\ rsp' = {} /\ (\E r \in rsp : x = r.conn) /\ i + d[x] = Len(down[x]) + 1
  \/ g = "session" /\ h = "session" /\ y = x
  \/ g = "session" /\ h = "down" /\ j = 1 /\ d[y] = 1 /\ y = m_msgClient[x]

\* The kinds of place and their numbers.
LEMMA PlaceKinds ==
  ASSUME UplinkInv, IndexInv, NEW k, NEW g, NEW x, NEW i, At(k, g, x, i)
  PROVE  \/ g = "up" /\ x \in Conns /\ i \in Nat \ {0} /\ i \in DOMAIN up[x] /\ IsLogin(up[x][i], k)
         \/ g = "task" /\ x = 0 /\ i \in Nat \ {0} /\ i \in DOMAIN task /\ task[i].cmd = "recv"
              /\ IsLogin(task[i].msg, k)
         \/ g = "rsp" /\ x = 0 /\ i = 0 /\ \E r \in rsp : IsDone(r.msg, k)
         \/ g = "down" /\ x \in Conns /\ i \in Nat \ {0} /\ i \in DOMAIN down[x] /\ IsDone(down[x][i], k)
         \/ g = "session" /\ x \in C2s /\ i = 0 /\ k \in DOMAIN m_session2User[x]
<1>1. \A t \in Conns : /\ \A l \in DOMAIN up[t] : l \in Nat \ {0}
                       /\ \A l \in DOMAIN down[t] : l \in Nat \ {0}
  <2>1. \A t \in Conns : IsSeq(up[t]) /\ IsSeq(down[t])
      BY DEF UplinkInv, LinkShape, IsQueue
  <2>2. ASSUME NEW r, IsSeq(r) PROVE \A l \in DOMAIN r : l \in Nat \ {0}
      BY <2>2, AppendIsSeq
  <2> QED BY <2>1, <2>2
<1>2. \A l \in DOMAIN task : l \in Nat \ {0}
    BY AppendTask DEF IndexInv, TaskIsSeq
<1> QED BY <1>1, <1>2 DEF At

\* One place has one successor.
LEMMA OnePlace ==
  ASSUME IndexInv, UplinkInv, OnlineInv, IndexInv', UplinkInv', OnceInv,
         NEW n, NEW d, NEW m \in Nat, \A t \in Conns : n[t] \in Nat /\ d[t] \in Nat,
         NEW k,
         \A g, x, i : At(k, g, x, i)' => \E h, y, j : At(k, h, y, j) /\ Src(n, d, m, g, x, i, h, y, j),
         NEW g, NEW x, NEW i, NEW h, NEW y, NEW j, At(k, g, x, i)', At(k, h, y, j)'
  PROVE  g = h /\ x = y /\ i = j
<1>1. PICK a, v, l : At(k, a, v, l) /\ Src(n, d, m, g, x, i, a, v, l) /\ Src(n, d, m, h, y, j, a, v, l)
  <2>1. PICK a, v, l : At(k, a, v, l) /\ Src(n, d, m, g, x, i, a, v, l)
      OBVIOUS
  <2>2. PICK b, w, o : At(k, b, w, o) /\ Src(n, d, m, h, y, j, b, w, o)
      OBVIOUS
  <2>3. b = a /\ w = v /\ o = l
      BY <2>1, <2>2 DEF OnceInv
  <2> QED BY <2>1, <2>2, <2>3
<1> DEFINE Kind(c, p, q) ==
      \/ c = "up" /\ p \in Conns /\ q \in Nat \ {0}
      \/ c = "task" /\ p = 0 /\ q \in Nat \ {0}
      \/ c = "rsp" /\ p = 0 /\ q = 0
      \/ c = "down" /\ p \in Conns /\ q \in Nat \ {0}
      \/ c = "session" /\ p \in C2s /\ q = 0
<1>2. Kind(g, x, i) /\ Kind(h, y, j)
  <2>1. ASSUME NEW c, NEW p, NEW q, At(k, c, p, q)' PROVE Kind(c, p, q)
    <3>1. \A t \in Conns : IsSeq(up'[t]) /\ IsSeq(down'[t])
        BY DEF UplinkInv, LinkShape, IsQueue
    <3>2. ASSUME NEW r, IsSeq(r) PROVE \A o \in DOMAIN r : o \in Nat \ {0}
        BY <3>2, AppendIsSeq
    <3>3. \A o \in DOMAIN task' : o \in Nat \ {0}
        BY <3>2 DEF IndexInv, TaskIsSeq, IsSeq
    <3> QED BY <2>1, <3>1, <3>2, <3>3 DEF At
  <2> HIDE DEF Kind
  <2> QED BY <2>1
<1>3. /\ a = "up" => v \in Conns /\ l \in Nat \ {0}
      /\ a = "down" => v \in Conns /\ l \in Nat \ {0}
      /\ a = "rsp" => rsp # {}
    BY <1>1, PlaceKinds
<1>4. CASE a = "up"
  <2>1. /\ (g = "up" /\ v = x /\ l = i + n[x]) \/ (g = "task" /\ l = 1 /\ n[v] = 1 /\ i = Len(task) + 1)
        /\ (h = "up" /\ v = y /\ l = j + n[y]) \/ (h = "task" /\ l = 1 /\ n[v] = 1 /\ j = Len(task) + 1)
      BY <1>1, <1>4 DEF Src
  <2> QED BY <1>2, <1>3, <1>4, <2>1
<1>5. CASE a = "task"
  <2>1. /\ (g = "task" /\ v = x /\ l = i + m) \/ (g = "rsp" /\ l = 1 /\ m = 1)
        /\ (h = "task" /\ v = y /\ l = j + m) \/ (h = "rsp" /\ l = 1 /\ m = 1)
      BY <1>1, <1>5 DEF Src
  <2> QED BY <1>2, <2>1
<1>6. CASE a = "rsp"
  <2>1. /\ (g = "rsp" /\ rsp' = rsp) \/ (g = "down" /\ rsp' = {} /\ (\E r \in rsp : x = r.conn) /\ i + d[x] = Len(down[x]) + 1)
        /\ (h = "rsp" /\ rsp' = rsp) \/ (h = "down" /\ rsp' = {} /\ (\E r \in rsp : y = r.conn) /\ j + d[y] = Len(down[y]) + 1)
      BY <1>1, <1>6 DEF Src
  <2>2. \A r, q \in rsp : r = q
      BY DEF OnlineInv, OnePending
  <2>3. CASE rsp' = rsp
      BY <1>2, <1>3, <1>6, <2>1, <2>3
  <2>4. CASE rsp' # rsp
    <3>1. /\ g = "down" /\ i + d[x] = Len(down[x]) + 1
          /\ h = "down" /\ j + d[y] = Len(down[y]) + 1 /\ x = y
        BY <2>1, <2>2, <2>4
    <3>2. i \in Nat /\ j \in Nat /\ d[x] \in Nat
        BY <1>2, <3>1
    <3> QED BY <3>1, <3>2
  <2> QED BY <2>3, <2>4
<1>7. CASE a = "down"
  <2>1. /\ (g = "down" /\ v = x /\ l = i + d[x]) \/ (g = "session" /\ l = 1 /\ d[v] = 1 /\ v = m_msgClient[x])
        /\ (h = "down" /\ v = y /\ l = j + d[y]) \/ (h = "session" /\ l = 1 /\ d[v] = 1 /\ v = m_msgClient[y])
      BY <1>1, <1>7 DEF Src
  <2>2. v # 0
      BY <1>3, <1>7 DEF Conns
  <2>3. \A b, c \in C2s : v = m_msgClient[b] /\ v = m_msgClient[c] => b = c
      BY <2>2 DEF UplinkInv
  <2>4. CASE g = "down" /\ h = "down"
      BY <1>2, <1>3, <1>7, <2>1, <2>4
  <2>5. CASE g = "session" /\ h = "session"
      BY <1>2, <2>1, <2>3, <2>5
  <2>6. ~(g = "down" /\ h = "session") /\ ~(g = "session" /\ h = "down")
      BY <1>2, <2>1
  <2> QED BY <2>1, <2>4, <2>5, <2>6
<1>8. CASE a = "session"
  <2>1. g = "session" /\ v = x /\ h = "session" /\ v = y
      BY <1>1, <1>8 DEF Src
  <2> QED BY <1>2, <2>1
<1>9. a \in {"up", "task", "rsp", "down", "session"}
    BY <1>1 DEF At
<1> QED BY <1>4, <1>5, <1>6, <1>7, <1>8, <1>9

\* Whose login it is has connected; nobody has with the next number.
LEMMA PlaceIsMade ==
  ASSUME SockInv, UplinkInv, OwnInv, NEW k, NEW g, NEW x, NEW i, At(k, g, x, i)
  PROVE  k \in Conns /\ visit[k].user \in Users /\ k # next
<1>1. \E u, c : Own(k, u, c)
  <2>1. CASE g = "up"
      BY <2>1 DEF At, IsLogin, OwnInv, UpOwn
  <2>2. CASE g = "task"
      BY <2>2 DEF At, IsLogin, OwnInv, TaskOwn
  <2>3. CASE g = "rsp"
    <3>1. PICK r \in rsp : IsDone(r.msg, k)
        BY <2>3 DEF At
    <3>2. ~IsResponse(r)
        BY <3>1 DEF IsResponse, Response, IsDone
    <3>3. IsAnswer(r)
        BY <3>2 DEF OwnInv, RspOwn
    <3>4. r.msg.index = k
        BY <3>1 DEF IsDone
    <3> QED BY <3>3, <3>4 DEF IsAnswer
  <2>4. CASE g = "down"
      BY <2>4 DEF At, IsDone, OwnInv, DownOwn
  <2>5. CASE g = "session"
      BY <2>5 DEF At, OwnInv, TablesOwn
  <2> QED BY <2>1, <2>2, <2>3, <2>4, <2>5 DEF At
<1>2. k \in Conns /\ visit[k].user \in Users
    BY <1>1 DEF Own
<1>3. k # next
    BY <1>2, NamesAssumption DEF UplinkInv, SockInv, Conns
<1> QED BY <1>2, <1>3

\* The packets of a connection move up by n; the one that may come does not
\* name k, unless connection t is in ok.
Names(e, k) == IsLogin(e, k) \/ IsDone(e, k)
Moves(a, r, n, k, t, ok) ==
  /\ r # <<>> /\ a = Tail(r) => n = 1
  /\ \A i \in DOMAIN a :
       /\ i \in Nat
       /\ \/ i + n \in DOMAIN r /\ a[i] = r[i + n]
          \/ i + n = Len(r) + 1 /\ (t \in ok \/ ~Names(a[i], k))

\* The packets of a connection that slides move up by some number.
LEMMA MovesBy ==
  ASSUME NEW r, IsSeq(r), NEW a, NEW k, NEW t, NEW ok,
         Slid(a, r) \/ \E e : SlidNew(a, r, e) /\ (t \in ok \/ ~Names(e, k))
  PROVE  \E n \in Nat : Moves(a, r, n, k, t, ok)
<1>1. CASE r # <<>> /\ a = Tail(r)
  <2>1. /\ Len(r) \in Nat \ {0} /\ DOMAIN r = 1..Len(r)
        /\ DOMAIN a = 1..(Len(r) - 1) /\ \A i \in 1..(Len(r) - 1) : a[i] = r[i + 1]
      BY <1>1, TailIsSeq
  <2> QED BY <2>1 DEF Moves
<1>2. CASE ~(r # <<>> /\ a = Tail(r)) /\ Slid(a, r)
  <2>1. PICK n \in Nat : \A i \in DOMAIN a : i \in Nat /\ i + n \in DOMAIN r /\ a[i] = r[i + n]
      BY <1>2 DEF Slid
  <2> QED BY <1>2, <2>1 DEF Moves
<1>3. CASE ~(r # <<>> /\ a = Tail(r)) /\ \E e : SlidNew(a, r, e) /\ (t \in ok \/ ~Names(e, k))
  <2>1. PICK e : SlidNew(a, r, e) /\ (t \in ok \/ ~Names(e, k))
      BY <1>3
  <2>2. PICK n \in Nat : \A i \in DOMAIN a : /\ i \in Nat
                                             /\ \/ i + n \in DOMAIN r /\ a[i] = r[i + n]
                                                \/ i + n = Len(r) + 1 /\ a[i] = e
      BY <2>1 DEF SlidNew
  <2> QED BY <1>3, <2>1, <2>2 DEF Moves
<1> QED BY <1>1, <1>2, <1>3

\* So do the packets of every connection.
LEMMA QueueMoves ==
  ASSUME NEW q, IsQueue(q), NEW p, NEW k, NEW ok,
         \A t \in Conns : Slid(p[t], q[t]) \/ \E e : SlidNew(p[t], q[t], e) /\ (t \in ok \/ ~Names(e, k))
  PROVE  \E n : \A t \in Conns : n[t] \in Nat /\ Moves(p[t], q[t], n[t], k, t, ok)
<1>1. ASSUME NEW t \in Conns PROVE \E a \in Nat : Moves(p[t], q[t], a, k, t, ok)
  <2>1. PICK r, a : r = q[t] /\ a = p[t]
      OBVIOUS
  <2>2. \E b \in Nat : Moves(a, r, b, k, t, ok)
      BY <2>1, MovesBy DEF IsQueue
  <2> QED BY <2>1, <2>2
<1> DEFINE n == [t \in Conns |-> CHOOSE a \in Nat : Moves(p[t], q[t], a, k, t, ok)]
<1>2. \A t \in Conns : n[t] \in Nat /\ Moves(p[t], q[t], n[t], k, t, ok)
    BY <1>1
<1> HIDE DEF n
<1> QED BY <1>2

DownFrom(k, d, ok, x, i) ==
  At(k, "down", x, i + d[x]) \/ (x \in Conns /\ x \in ok /\ i + d[x] = Len(down[x]) + 1)

\* Where a login under way was before the packets moved.
LEMMA PlacesMove ==
  ASSUME NEW k, NEW n, NEW d, NEW ok,
         \A t \in Conns : Moves(up'[t], up[t], n[t], k, t, {}) /\ Moves(down'[t], down[t], d[t], k, t, ok),
         NEW x, NEW i
  PROVE  /\ At(k, "up", x, i)' => At(k, "up", x, i + n[x])
         /\ At(k, "down", x, i)' => DownFrom(k, d, ok, x, i)
<1>1. ASSUME At(k, "up", x, i)' PROVE At(k, "up", x, i + n[x])
  <2>1. x \in Conns /\ i \in DOMAIN up'[x] /\ IsLogin(up'[x][i], k)
      BY <1>1 DEF At
  <2>2. Names(up'[x][i], k)
      BY <2>1 DEF Names
  <2>3. i + n[x] \in DOMAIN up[x] /\ up'[x][i] = up[x][i + n[x]]
      BY <2>1, <2>2 DEF Moves
  <2> QED BY <2>1, <2>3 DEF At
<1>2. ASSUME At(k, "down", x, i)' PROVE DownFrom(k, d, ok, x, i)
  <2>1. x \in Conns /\ i \in DOMAIN down'[x] /\ IsDone(down'[x][i], k)
      BY <1>2 DEF At
  <2>2. Names(down'[x][i], k)
      BY <2>1 DEF Names
  <2>3. \/ i + d[x] \in DOMAIN down[x] /\ down'[x][i] = down[x][i + d[x]]
        \/ x \in ok /\ i + d[x] = Len(down[x]) + 1
      BY <2>1, <2>2 DEF Moves
  <2> QED BY <2>1, <2>3 DEF At, DownFrom
<1> QED BY <1>1, <1>2

\* A command that is a login was one, or has just been taken from a C2S.
LEMMA TaskSource ==
  ASSUME UplinkInv, IndexInv, TaskEffect, NEW k, NEW i, At(k, "task", 0, i)'
  PROVE  \/ /\ ~(task # <<>> /\ task' = Tail(task))
            /\ At(k, "task", 0, i) \/ \E s \in Conns : At(k, "up", s, 1) /\ OnRecvSession(s) /\ i = Len(task) + 1
         \/ task # <<>> /\ task' = Tail(task) /\ At(k, "task", 0, i + 1)
<1>1. i \in DOMAIN task' /\ task'[i].cmd = "recv" /\ IsLogin(task'[i].msg, k)
    BY DEF At
<1>2. IsSeq(task)
    BY DEF IndexInv, TaskIsSeq, IsSeq
<1>3. CASE task # <<>> /\ task' = Tail(task)
  <2>1. DOMAIN task = 1..Len(task) /\ Len(task) \in Nat /\ DOMAIN task' = 1..(Len(task) - 1)
        /\ task'[i] = task[i + 1]
      BY <1>1, <1>2, <1>3, TailIsSeq
  <2>2. i + 1 \in DOMAIN task
      BY <1>1, <2>1
  <2> QED BY <1>1, <1>3, <2>1, <2>2 DEF At
<1>4. CASE ~(task # <<>> /\ task' = Tail(task)) /\ task' = task
    BY <1>1, <1>4 DEF At
<1>5. CASE ~(task # <<>> /\ task' = Tail(task)) /\ \E e : task' = Append(task, e) /\ TaskNews(e)
  <2>1. PICK e : task' = Append(task, e) /\ TaskNews(e)
      BY <1>5
  <2>2. /\ DOMAIN task = 1..Len(task) /\ Len(task) \in Nat /\ DOMAIN task' = 1..(Len(task) + 1)
        /\ \A l \in 1..Len(task) : task'[l] = task[l]
        /\ task'[Len(task) + 1] = e
      BY <1>2, <2>1, AppendIsSeq
  <2>3. CASE i \in DOMAIN task
      BY <1>1, <1>5, <2>2, <2>3 DEF At
  <2>4. CASE i = Len(task) + 1
    <3>1. Moved(e)
        BY <1>1, <2>1, <2>2, <2>4 DEF TaskNews
    <3>2. PICK s \in Conns : /\ up[s] # <<>> /\ OnRecvSession(s)
                             /\ e = [cmd |-> "recv", conn |-> s, msg |-> up[s][1], c2s |-> m_session2Ctx[s].base]
        BY <3>1 DEF Moved
    <3>3. IsLogin(up[s][1], k)
        BY <1>1, <2>2, <2>4, <3>2
    <3>4. IsSeq(up[s])
        BY DEF UplinkInv, LinkShape, IsQueue
    <3>5. 1 \in DOMAIN up[s]
        BY <3>2, <3>4, TailIsSeq
    <3> QED BY <1>5, <2>4, <3>2, <3>3, <3>5 DEF At
  <2>5. i \in DOMAIN task \/ i = Len(task) + 1
      BY <1>1, <2>2
  <2> QED BY <2>3, <2>4, <2>5
<1> QED BY <1>3, <1>4, <1>5 DEF TaskEffect

\* An answer to be given was one, or is to the login just executed.
LEMMA RspSource ==
  ASSUME IndexInv, ServerNext, NEW k, At(k, "rsp", 0, 0)'
  PROVE  \/ rsp' = rsp /\ At(k, "rsp", 0, 0)
         \/ task # <<>> /\ task' = Tail(task) /\ At(k, "task", 0, 1)
<1>1. PICK r \in rsp' : IsDone(r.msg, k)
    BY DEF At
<1>2. CASE rsp' = rsp
    BY <1>1, <1>2 DEF At
<1>3. CASE rsp' # rsp /\ Executes
  <2>1. AddBaseUser \/ AddSubUser
    <3>1. ~RejectSession /\ ~LoginRefused /\ ~DrainCommand
        BY <1>3 DEF RejectSession, LoginRefused, DrainCommand, Nothing
    <3>2. ~(ClientLogout \/ AsyncOnCloseSession \/ AsyncKickoutUser)
        BY <1>3, RemoveEffect
    <3> QED BY <1>3, <3>1, <3>2 DEF Executes
  <2>2. ~AddBaseUser
    <3>1. ASSUME AddBaseUser PROVE \E u : r.msg = Response(u)
      <4>1. PICK s, u : rsp' = {[conn |-> s, msg |-> Response(u), user |-> u]}
          BY <3>1 DEF AddBaseUser
      <4> QED BY <1>1, <4>1
    <3>2. \A u : ~IsDone(Response(u), k)
        BY DEF Response, IsDone
    <3> QED BY <1>1, <3>1, <3>2
  <2>3. PICK c, u, j, s : Adds(c, u, j, s)
      BY <1>3, <2>1, <2>2, AddSubCases
  <2>4. r.msg = LoginOk(j, u)
      BY <1>1, <2>3 DEF Adds
  <2>5. j = k
      BY <1>1, <2>4 DEF LoginOk, IsDone
  <2>6. /\ task # <<>> /\ task' = Tail(task) /\ 1 \in DOMAIN task
        /\ task[1].cmd = "recv" /\ task[1].msg.type = "login" /\ task[1].msg.index = j
      BY <2>3 DEF Adds
  <2> QED BY <2>5, <2>6 DEF At, IsLogin
<1>4. CASE rsp' # rsp /\ ~Executes
  <2>1. Respond
      BY <1>4, ServerKinds DEF Calls, Answers
  <2> QED BY <1>1, <2>1 DEF Respond
<1> QED BY <1>2, <1>3, <1>4

\* A step of the server keeps every login in one place.
LEMMA ServerOnce ==
  ASSUME IndexInv, UplinkInv, OnlineInv, IndexInv', UplinkInv', OwnInv, OnceInv, ServerNext,
         UNCHANGED c2sVars
  PROVE  OnceInv'
<1> SUFFICES ASSUME NEW k, NEW g, NEW x, NEW i, NEW h, NEW y, NEW j, At(k, g, x, i)', At(k, h, y, j)'
             PROVE  g = h /\ x = y /\ i = j
    BY DEF OnceInv
<1> DEFINE ok == {t \in Conns : \E r \in rsp : t = r.conn /\ rsp' = {} /\ IsDone(r.msg, k)}
           m  == IF task # <<>> /\ task' = Tail(task) THEN 1 ELSE 0
<1>1. ServerEffects /\ TaskEffect
    BY ServerEffect, ServerTask
<1>2. IsQueue(up) /\ IsQueue(down)
    BY DEF UplinkInv, LinkShape
<1>3. PICK n : \A t \in Conns : n[t] \in Nat /\ Moves(up'[t], up[t], n[t], k, t, {})
  <2>1. \A t \in Conns : Slid(up'[t], up[t])
      BY <1>1 DEF ServerEffects
  <2> QED BY <1>2, <2>1, QueueMoves
<1>4. PICK d : \A t \in Conns : d[t] \in Nat /\ Moves(down'[t], down[t], d[t], k, t, ok)
  <2>1. ASSUME NEW t \in Conns, NEW e, ServerSays(t, e) PROVE t \in ok \/ ~Names(e, k)
    <3>1. CASE e.type \in {"data", "kickout", "login_error"}
        BY <3>1 DEF Names, IsLogin, IsDone
    <3>2. CASE \E r \in rsp : t = r.conn /\ e = r.msg /\ rsp' = {}
      <4>1. PICK r \in rsp : t = r.conn /\ e = r.msg /\ rsp' = {}
          BY <3>2
      <4>2. IsResponse(r) \/ IsAnswer(r)
          BY DEF OwnInv, RspOwn
      <4>3. CASE IsResponse(r)
        <5>1. r.msg.type = "response"
            BY <4>3 DEF IsResponse, Response
        <5> QED BY <4>1, <5>1 DEF Names, IsLogin, IsDone
      <4>4. CASE IsAnswer(r)
        <5>1. PICK l : r.msg = LoginOk(l, r.user)
            BY <4>4 DEF IsAnswer
        <5>2. r.msg.type = "login_ok"
            BY <5>1 DEF LoginOk
        <5>3. IsDone(r.msg, k) => t \in ok
            BY <4>1
        <5> QED BY <4>1, <5>2, <5>3 DEF Names, IsLogin
      <4> QED BY <4>2, <4>3, <4>4
    <3> QED BY <2>1, <3>1, <3>2 DEF ServerSays
  <2> HIDE DEF ok
  <2>2. \A t \in Conns : Slid(down'[t], down[t]) \/ \E e : SlidNew(down'[t], down[t], e) /\ (t \in ok \/ ~Names(e, k))
      BY <1>1, <2>1 DEF ServerEffects, ServerDown
  <2> QED BY <1>2, <2>2, QueueMoves
<1>5. m \in Nat
    OBVIOUS
<1>6. ASSUME NEW a, NEW v, NEW l, At(k, a, v, l)'
      PROVE  \E b, w, o : At(k, b, w, o) /\ Src(n, d, m, a, v, l, b, w, o)
  <2>1. CASE a = "up"
    <3>1. At(k, "up", v, l + n[v])
        BY <1>3, <1>4, <1>6, <2>1, PlacesMove
    <3> QED BY <2>1, <3>1 DEF Src
  <2>2. CASE a = "task"
    <3>1. v = 0 /\ At(k, "task", 0, l)'
        BY <1>6, <2>2 DEF At
    <3>2. CASE task # <<>> /\ task' = Tail(task)
      <4>1. At(k, "task", 0, l + 1) /\ m = 1
          BY <1>1, <3>1, <3>2, TaskSource
      <4> QED BY <2>2, <3>1, <4>1 DEF Src
    <3>3. CASE ~(task # <<>> /\ task' = Tail(task)) /\ At(k, "task", 0, l)
      <4>1. m = 0 /\ l + 0 = l
        <5>1. l \in Nat
            BY <3>3, PlaceKinds
        <5> QED BY <3>3, <5>1
      <4> QED BY <2>2, <3>1, <3>3, <4>1 DEF Src
    <3>4. ASSUME NEW s \in Conns, At(k, "up", s, 1), OnRecvSession(s), l = Len(task) + 1
          PROVE  \E b, w, o : At(k, b, w, o) /\ Src(n, d, m, a, v, l, b, w, o)
      <4>1. up[s] # <<>> /\ up' = [up EXCEPT ![s] = Tail(@)]
          BY <3>4 DEF OnRecvSession
      <4>2. up'[s] = Tail(up[s])
          BY <1>2, <4>1 DEF IsQueue
      <4>3. n[s] = 1
          BY <1>3, <4>1, <4>2 DEF Moves
      <4> QED BY <2>2, <3>4, <4>3 DEF Src
    <3> QED BY <1>1, <3>1, <3>2, <3>3, <3>4, TaskSource
  <2>3. CASE a = "rsp"
    <3>1. v = 0 /\ l = 0 /\ At(k, "rsp", 0, 0)'
        BY <1>6, <2>3 DEF At
    <3>2. \/ rsp' = rsp /\ At(k, "rsp", 0, 0)
          \/ task # <<>> /\ task' = Tail(task) /\ At(k, "task", 0, 1)
        BY <3>1, RspSource
    <3> QED BY <2>3, <3>1, <3>2 DEF Src
  <2>4. CASE a = "down"
    <3>1. At(k, "down", v, l + d[v]) \/ (v \in Conns /\ v \in ok /\ l + d[v] = Len(down[v]) + 1)
      <4> HIDE DEF ok
      <4>1. DownFrom(k, d, ok, v, l)
          BY <1>3, <1>4, <1>6, <2>4, PlacesMove
      <4> QED BY <4>1 DEF DownFrom
    <3>2. CASE At(k, "down", v, l + d[v])
        BY <2>4, <3>2 DEF Src
    <3>3. CASE v \in Conns /\ v \in ok /\ l + d[v] = Len(down[v]) + 1
      <4>1. PICK r \in rsp : v = r.conn /\ rsp' = {} /\ IsDone(r.msg, k)
          BY <3>3
      <4>2. At(k, "rsp", 0, 0)
          BY <4>1 DEF At
      <4> QED BY <2>4, <3>3, <4>1, <4>2 DEF Src
    <3> QED BY <3>1, <3>2, <3>3
  <2>5. CASE a = "session"
    <3>1. At(k, a, v, l)
        BY <1>6, <2>5 DEF At, c2sVars
    <3> QED BY <2>5, <3>1 DEF Src
  <2> QED BY <1>6, <2>1, <2>2, <2>3, <2>4, <2>5 DEF At
<1> HIDE DEF m, ok
<1>7. \A t \in Conns : n[t] \in Nat /\ d[t] \in Nat
    BY <1>3, <1>4
<1> QED BY <1>5, <1>6, <1>7, OnePlace

\* What was where before a step of node c, but for the login it sends.
LEMMA NodeSource ==
  ASSUME C2sInv, SockInv, UplinkInv, IndexInv, NEW c \in C2s, NodeEntries(c), UNCHANGED serverVars,
         NEW k, NEW n, NEW d,
         \A t \in Conns : Moves(down'[t], down[t], d[t], k, t, {}),
         NEW g, NEW x, NEW i, At(k, g, x, i)', g # "up"
  PROVE  \E h, y, j : At(k, h, y, j) /\ Src(n, d, 0, g, x, i, h, y, j)
<1>1. CASE g = "task"
  <2>1. At(k, g, x, i)
      BY <1>1 DEF At, serverVars
  <2>2. i \in Nat
      BY <1>1, <2>1, PlaceKinds
  <2>3. i = i + 0
      BY <2>2
  <2> QED BY <1>1, <2>1, <2>3 DEF Src
<1>2. CASE g = "rsp"
  <2>1. At(k, g, x, i) /\ rsp' = rsp
      BY <1>2 DEF At, serverVars
  <2> QED BY <1>2, <2>1 DEF Src
<1>3. CASE g = "down"
  <2>1. x \in Conns /\ i \in DOMAIN down'[x] /\ IsDone(down'[x][i], k)
      BY <1>3 DEF At
  <2>2. Names(down'[x][i], k)
      BY <2>1 DEF Names
  <2>3. i + d[x] \in DOMAIN down[x] /\ down'[x][i] = down[x][i + d[x]]
      BY <2>1, <2>2 DEF Moves
  <2>4. At(k, "down", x, i + d[x])
      BY <2>1, <2>3 DEF At
  <2> QED BY <1>3, <2>4 DEF Src
<1>4. CASE g = "session"
  <2>1. x \in C2s /\ i = 0 /\ k \in DOMAIN m_session2User'[x]
      BY <1>4 DEF At
  <2>2. CASE k \in DOMAIN m_session2User[x]
    <3>1. At(k, "session", x, 0)
        BY <2>1, <2>2 DEF At
    <3> QED BY <1>4, <2>1, <3>1 DEF Src
  <2>3. CASE k \notin DOMAIN m_session2User[x]
    <3>1. x = c /\ Answered(c, k)
        BY <2>1, <2>3 DEF NodeEntries
    <3>2. PICK s : s = m_msgClient[c]
        OBVIOUS
    <3>3. s # 0 /\ down[s] # <<>> /\ Head(down[s]).type = "login_ok" /\ k = Head(down[s]).index
        BY <3>1, <3>2 DEF Answered, OnRecvMsg, Uplink, Msg
    <3>4. s \in Conns /\ 1 \in DOMAIN down[s] /\ Head(down[s]) = down[s][1]
        BY <3>2, <3>3, MsgIsFirst DEF Msg
    <3>5. At(k, "down", s, 1)
        BY <3>3, <3>4 DEF At, IsDone
    <3>6. s \notin AtNode(c)
        BY <3>2, UplinkApart
    <3>7. PICK outcome : C2sLoginOk(c, outcome)
        BY <3>1 DEF Answered
    <3>8. down'[s] = Tail(down[s])
        BY <3>2, <3>4, <3>6, <3>7, LoginOkApart DEF Completes, Takes
    <3>9. d[s] = 1
        BY <3>3, <3>4, <3>8 DEF Moves
    <3> QED BY <1>4, <3>1, <3>2, <3>5, <3>9 DEF Src
  <2> QED BY <2>2, <2>3
<1> QED BY <1>1, <1>2, <1>3, <1>4 DEF At

\* So does a step of a node,
LEMMA NodeOnce ==
  ASSUME C2sInv, SockInv, IndexInv, UplinkInv, OnlineInv, IndexInv', UplinkInv', PlaceInv, OwnInv, OnceInv,
         NEW c \in C2s, C2sNext(c), UNCHANGED serverVars
  PROVE  OnceInv'
<1> SUFFICES ASSUME NEW k, NEW g, NEW x, NEW i, NEW h, NEW y, NEW j, At(k, g, x, i)', At(k, h, y, j)'
             PROVE  g = h /\ x = y /\ i = j
    BY DEF OnceInv
<1>1. NodeEffects(c) /\ NodeEntries(c)
    BY NodeEffect, NodeEntry
<1>2. IsQueue(up) /\ IsQueue(down)
    BY DEF UplinkInv, LinkShape
<1>3. PICK d : \A t \in Conns : d[t] \in Nat /\ Moves(down'[t], down[t], d[t], k, t, {})
  <2>1. ASSUME NEW t \in Conns
        PROVE  Slid(down'[t], down[t]) \/ \E e : SlidNew(down'[t], down[t], e) /\ ~Names(e, k)
    <3>1. \A e : e.type \in {"data", "response"} => ~Names(e, k)
        BY DEF Names, IsLogin, IsDone
    <3> QED BY <1>1, <3>1 DEF NodeEffects, NodeDown
  <2> QED BY <1>2, <2>1, QueueMoves
<1>4. PICK S : S = IF k = next THEN {m_msgClient[c]} ELSE {}
    OBVIOUS
<1>5. PICK n : \A t \in Conns : n[t] \in Nat /\ Moves(up'[t], up[t], n[t], k, t, S)
  <2>1. ASSUME NEW t \in Conns
        PROVE  Slid(up'[t], up[t]) \/ \E e : SlidNew(up'[t], up[t], e) /\ (t \in S \/ ~Names(e, k))
    <3>1. ASSUME NEW e, NodeSays(c, e), k # next PROVE ~Names(e, k)
      <4>1. e.type = "data" \/ e.type = "logout" \/ (e.type = "login" /\ e.index = next)
          BY <3>1 DEF NodeSays
      <4> QED BY <3>1, <4>1 DEF Names, IsLogin, IsDone
    <3> QED BY <1>1, <1>4, <3>1 DEF NodeEffects, NodeUp
  <2> QED BY <1>2, <2>1, QueueMoves
<1>6. ASSUME NEW a, NEW v, NEW l, At(k, a, v, l)', a # "up"
      PROVE  \E b, w, o : At(k, b, w, o) /\ Src(n, d, 0, a, v, l, b, w, o)
    BY <1>1, <1>3, <1>6, NodeSource
<1>7. CASE k # next
  <2>1. ASSUME NEW a, NEW v, NEW l, At(k, a, v, l)'
        PROVE  \E b, w, o : At(k, b, w, o) /\ Src(n, d, 0, a, v, l, b, w, o)
    <3>1. CASE a = "up"
      <4>1. \A t \in Conns : Moves(up'[t], up[t], n[t], k, t, {}) /\ Moves(down'[t], down[t], d[t], k, t, {})
          BY <1>3, <1>4, <1>5, <1>7
      <4>2. At(k, "up", v, l + n[v])
          BY <2>1, <3>1, <4>1, PlacesMove
      <4> QED BY <3>1, <4>2 DEF Src
    <3> QED BY <1>6, <2>1, <3>1
  <2>2. \A t \in Conns : n[t] \in Nat /\ d[t] \in Nat
      BY <1>3, <1>5
  <2> QED BY <2>1, <2>2, OnePlace
<1>8. CASE k = next
  <2>1. ASSUME NEW a, NEW v, NEW l, At(k, a, v, l)'
        PROVE  a = "up" /\ v = m_msgClient[c] /\ v \in Conns /\ l \in Nat /\ l + n[v] = Len(up[v]) + 1
    <3>1. \A b, w, o : ~At(k, b, w, o)
        BY <1>8, PlaceIsMade
    <3>2. a = "up"
        BY <1>6, <2>1, <3>1
    <3>3. v \in Conns /\ l \in DOMAIN up'[v] /\ IsLogin(up'[v][l], k)
        BY <2>1, <3>2 DEF At
    <3>4. Names(up'[v][l], k)
        BY <3>3 DEF Names
    <3>5. /\ l \in Nat
          /\ (l + n[v] \in DOMAIN up[v] /\ up'[v][l] = up[v][l + n[v]]) \/ (l + n[v] = Len(up[v]) + 1 /\ v \in S)
        BY <1>5, <3>3, <3>4 DEF Moves
    <3>6. ~(l + n[v] \in DOMAIN up[v] /\ up'[v][l] = up[v][l + n[v]])
        BY <3>1, <3>3 DEF At
    <3> QED BY <1>4, <1>8, <3>2, <3>3, <3>5, <3>6
  <2>2. /\ g = "up" /\ x = m_msgClient[c] /\ x \in Conns /\ i \in Nat /\ i + n[x] = Len(up[x]) + 1
        /\ h = "up" /\ y = m_msgClient[c] /\ j \in Nat /\ j + n[y] = Len(up[y]) + 1
      BY <2>1
  <2>3. n[x] \in Nat
      BY <1>5, <2>2
  <2> QED BY <2>2, <2>3
<1> QED BY <1>7, <1>8

\* Somebody connects to the server, or nothing happens.
LEMMA DialOnce ==
  ASSUME IndexInv, OnceInv, UNCHANGED <<up, down, rsp, m_session2User>>,
         task' = task \/ \E e : task' = Append(task, e) /\ e.cmd = "accept"
  PROVE  OnceInv'
<1>1. IsSeq(task)
    BY DEF IndexInv, TaskIsSeq, IsSeq
<1>2. ASSUME NEW k, NEW i, At(k, "task", 0, i)' PROVE At(k, "task", 0, i)
  <2>1. i \in DOMAIN task' /\ task'[i].cmd = "recv" /\ IsLogin(task'[i].msg, k)
      BY <1>2 DEF At
  <2>2. ASSUME NEW e, task' = Append(task, e), e.cmd = "accept"
        PROVE  i \in DOMAIN task /\ task'[i] = task[i]
    <3>1. /\ DOMAIN task = 1..Len(task) /\ Len(task) \in Nat /\ DOMAIN task' = 1..(Len(task) + 1)
          /\ \A l \in 1..Len(task) : task'[l] = task[l]
          /\ task'[Len(task) + 1] = e
        BY <1>1, <2>2, AppendIsSeq
    <3>2. i \in DOMAIN task \/ i = Len(task) + 1
        BY <2>1, <3>1
    <3>3. i # Len(task) + 1
        BY <2>1, <2>2, <3>1
    <3> QED BY <3>1, <3>2, <3>3
  <2> QED BY <2>1, <2>2 DEF At
<1>3. ASSUME NEW k, NEW g, NEW x, NEW i, At(k, g, x, i)' PROVE At(k, g, x, i)
  <2>1. CASE g = "task"
    <3>1. x = 0
        BY <1>3, <2>1 DEF At
    <3> QED BY <1>2, <1>3, <2>1, <3>1
  <2>2. CASE g # "task"
      BY <1>3, <2>2 DEF At
  <2> QED BY <2>1, <2>2
<1> QED BY <1>3 DEF OnceInv

\* and one of a client.
LEMMA ClientOnce ==
  ASSUME IndexInv, UplinkInv, OnlineInv, IndexInv', UplinkInv', OnceInv,
         NEW c \in Conns, ClientRecv(c) \/ \E u \in Ids : ClientSend(c, u)
  PROVE  OnceInv'
<1> SUFFICES ASSUME NEW k, NEW g, NEW x, NEW i, NEW h, NEW y, NEW j, At(k, g, x, i)', At(k, h, y, j)'
             PROVE  g = h /\ x = y /\ i = j
    BY DEF OnceInv
<1>1. UNCHANGED <<task, rsp, m_session2User>>
    BY DEF ClientRecv, ClientSend, c2sVars, serverVars
<1>2. IsQueue(up) /\ IsQueue(down)
    BY DEF UplinkInv, LinkShape
<1>3. \A t \in Conns : Slid(up'[t], up[t]) \/ \E e : SlidNew(up'[t], up[t], e) /\ ~Names(e, k)
  <2>1. CASE ClientRecv(c)
      BY <1>2, <2>1, SlidForms DEF ClientRecv, IsQueue
  <2>2. ASSUME NEW u, ClientSend(c, u)
        PROVE  \A t \in Conns : Slid(up'[t], up[t]) \/ \E e : SlidNew(up'[t], up[t], e) /\ ~Names(e, k)
    <3> DEFINE e == Data(ident[c], u)
               pk == [l \in {c} |-> e]
    <3>1. up' = Send(up, pk) /\ DOMAIN pk = {c} /\ pk[c] = e
        BY <2>2 DEF ClientSend
    <3>2. ~Names(e, k)
        BY DEF Data, Names, IsLogin, IsDone
    <3> HIDE DEF pk, e
    <3>3. \A t \in Conns : up'[t] = up[t] \/ up'[t] = Append(up[t], e)
        BY <1>2, <3>1, SendQueue
    <3>4. \A t \in Conns : SlidNew(Append(up[t], e), up[t], e) /\ Slid(up[t], up[t])
        BY <1>2, SlidForms DEF IsQueue
    <3> QED BY <3>2, <3>3, <3>4
  <2> QED BY <2>1, <2>2
<1>4. \A t \in Conns : Slid(down'[t], down[t])
  <2>1. CASE ClientRecv(c)
    <3>1. down[c] # <<>> /\ down' = [down EXCEPT ![c] = Tail(@)]
        BY <2>1 DEF ClientRecv
    <3> QED BY <1>2, <3>1, ShorterForms, QueueSlides
  <2>2. ASSUME NEW u, ClientSend(c, u) PROVE down' = down
      BY <2>2 DEF ClientSend
  <2>3. \A t \in Conns : Slid(down[t], down[t])
      BY <1>2, SlidForms DEF IsQueue
  <2> QED BY <2>1, <2>2, <2>3
<1>5. PICK n : \A t \in Conns : n[t] \in Nat /\ Moves(up'[t], up[t], n[t], k, t, {})
    BY <1>2, <1>3, QueueMoves
<1>6. PICK d : \A t \in Conns : d[t] \in Nat /\ Moves(down'[t], down[t], d[t], k, t, {})
    BY <1>2, <1>4, QueueMoves
<1>7. ASSUME NEW a, NEW v, NEW l, At(k, a, v, l)'
      PROVE  \E b, w, o : At(k, b, w, o) /\ Src(n, d, 0, a, v, l, b, w, o)
  <2>1. CASE a = "up"
    <3>1. At(k, "up", v, l + n[v])
        BY <1>5, <1>6, <1>7, <2>1, PlacesMove
    <3> QED BY <2>1, <3>1 DEF Src
  <2>2. CASE a = "down"
    <3>1. DownFrom(k, d, {}, v, l)
        BY <1>5, <1>6, <1>7, <2>2, PlacesMove
    <3>2. At(k, "down", v, l + d[v])
        BY <3>1 DEF DownFrom
    <3> QED BY <2>2, <3>2 DEF Src
  <2>3. CASE a \in {"task", "rsp", "session"}
    <3>1. At(k, a, v, l)
        BY <1>1, <1>7, <2>3 DEF At
    <3>2. l \in Nat
        BY <2>3, <3>1, PlaceKinds
    <3>3. l = l + 0
        BY <3>2
    <3> QED BY <1>1, <2>3, <3>1, <3>3 DEF Src
  <2> QED BY <1>7, <2>1, <2>2, <2>3 DEF At
<1>8. \A t \in Conns : n[t] \in Nat /\ d[t] \in Nat
    BY <1>5, <1>6
<1> QED BY <1>7, <1>8, OnePlace

\* OnceInv holds in every state.
LEMMA OnceInvariance == Spec => []OnceInv
<1>1. Init => OnceInv
  <2>1. ASSUME Init, NEW k, NEW g, NEW x, NEW i PROVE ~At(k, g, x, i)
    <3>1. /\ \A t \in Conns : up[t] = <<>> /\ down[t] = <<>>
          /\ task = <<>> /\ rsp = {} /\ \A c \in C2s : DOMAIN m_session2User[c] = {}
        BY <2>1 DEF Init, LinkInit, ServerInit, C2sInit
    <3> QED BY <3>1 DEF At
  <2> QED BY <2>1 DEF OnceInv
<1>2. /\ IndexInv /\ IndexInv' /\ OnlineInv /\ C2sInv /\ SockInv /\ UplinkInv /\ UplinkInv' /\ PlaceInv
      /\ OwnInv /\ OnceInv /\ [Next]_vars
      => OnceInv'
  <2> SUFFICES ASSUME IndexInv, IndexInv', OnlineInv, C2sInv, SockInv, UplinkInv, UplinkInv', PlaceInv,
                      OwnInv, OnceInv, [Next]_vars
               PROVE  OnceInv'
      OBVIOUS
  <2>1. CASE UNCHANGED vars
      BY <2>1, DialOnce DEF vars, linkVars, serverVars, c2sVars
  <2>2. CASE ServerNext /\ UNCHANGED c2sVars
      BY <2>2, ServerOnce
  <2>3. ASSUME NEW c \in C2s, C2sNext(c), UNCHANGED serverVars PROVE OnceInv'
      BY <2>3, NodeOnce
  <2>a. ASSUME NEW u, OnAcceptSession(u)
        PROVE  task' = task \/ \E e : task' = Append(task, e) /\ e.cmd = "accept"
      BY <2>a DEF OnAcceptSession
  <2>4. ASSUME NEW c \in C2s, Connect(c) PROVE OnceInv'
      BY <2>4, <2>a, DialOnce DEF Connect
  <2>5. ASSUME NEW u \in Users, ClientConnect(u) PROVE OnceInv'
      BY <2>5, <2>a, DialOnce DEF ClientConnect, c2sVars
  <2>6. ASSUME NEW k \in Conns, ClientRecv(k) \/ \E u \in Ids : ClientSend(k, u) PROVE OnceInv'
      BY <2>6, ClientOnce
  <2> QED BY <2>1, <2>2, <2>3, <2>4, <2>5, <2>6 DEF Next
<1> QED BY <1>1, <1>2, IndexInvariance, OnlineInvariance, C2sInvariance, SockInvariance,
           UplinkInvariance, PlaceInvariance, OwnInvariance, PTL DEF Spec
-----------------------------------------------------------------------------
(***************************************************************************)
(* LogoutInv: who is reported gone is gone.                                *)
(***************************************************************************)

\* A node gets no connection but the next.
NodesKeep == \A c \in C2s : \A k \in AtNode(c)' : k \in AtNode(c) \/ k = next

\* Who has left has left for good: numbers of connections are not used twice.
LEMMA LeftStays ==
  ASSUME SockInv, UplinkInv, VisitsStay, NodesKeep, NEW u, NEW c, HasLeft(u, c)
  PROVE  HasLeft(u, c)'
<1>1. PICK j : Own(j, u, c) /\ j \notin AtNode(c)
    BY DEF HasLeft
<1>2. Own(j, u, c)'
    BY <1>1, OwnStays
<1>3. j # next
    BY <1>1, NamesAssumption DEF Own, UplinkInv, SockInv, Conns
<1>4. c \in C2s
    BY <1>1 DEF Own
<1>5. j \notin AtNode(c)'
    BY <1>1, <1>3, <1>4 DEF NodesKeep
<1> QED BY <1>2, <1>5 DEF HasLeft

\* Who is reported gone stays gone, if every new report is true.
LEMMA LogoutStays ==
  ASSUME SockInv, UplinkInv, VisitsStay, NodesKeep, LogoutInv,
         \A c \in C2s : \A u \in report'[c] : u \in report[c] \/ HasLeft(u, c)',
         \A t \in Conns : \A i \in DOMAIN up'[t] : (\E j \in DOMAIN up[t] : up'[t][i] = up[t][j]) \/ UpLeft(t, i)',
         \A i \in DOMAIN task' : (\E j \in DOMAIN task : task'[i] = task[j]) \/ TaskLeft(i)'
  PROVE  LogoutInv'
<1>1. \A c \in C2s : ReportLeft(c)'
    BY LeftStays DEF LogoutInv, ReportLeft
<1>2. ASSUME NEW t \in Conns, NEW i \in DOMAIN up'[t] PROVE UpLeft(t, i)'
  <2>1. ASSUME NEW j \in DOMAIN up[t], up'[t][i] = up[t][j], up[t][j].type = "logout"
        PROVE  UpLeft(t, i)'
    <3>1. PICK u, v : u = up[t][j].user /\ v = visit[t].user
        OBVIOUS
    <3>2. HasLeft(u, v)
        BY <2>1, <3>1 DEF LogoutInv, UpLeft
    <3>3. HasLeft(u, v)'
        BY <3>2, LeftStays
    <3>4. v \in C2s
        BY <3>2 DEF HasLeft, Own
    <3>5. visit'[t] = visit[t]
        BY <3>1, <3>4, NamesAssumption DEF VisitsStay
    <3>6. u = up'[t][i].user /\ v = visit'[t].user
        BY <2>1, <3>1, <3>5
    <3> QED BY <3>3, <3>6 DEF UpLeft
  <2> QED BY <2>1 DEF UpLeft
<1>3. ASSUME NEW i \in DOMAIN task' PROVE TaskLeft(i)'
  <2>1. ASSUME NEW j \in DOMAIN task, task'[i] = task[j], task[j].cmd = "recv", task[j].msg.type = "logout"
        PROVE  TaskLeft(i)'
    <3>1. PICK u, v : u = task[j].msg.user /\ v = task[j].c2s
        OBVIOUS
    <3>2. HasLeft(u, v)
        BY <2>1, <3>1 DEF LogoutInv, TaskLeft
    <3>3. HasLeft(u, v)'
        BY <3>2, LeftStays
    <3>4. u = task'[i].msg.user /\ v = task'[i].c2s
        BY <2>1, <3>1
    <3> QED BY <3>3, <3>4 DEF TaskLeft
  <2> QED BY <2>1 DEF TaskLeft
<1> QED BY <1>1, <1>2, <1>3 DEF LogoutInv

\* The server reports nobody.
LEMMA ServerLogout ==
  ASSUME SockInv, UplinkInv, IndexInv, PlaceInv, VisitsStay, LogoutInv, ServerNext, UNCHANGED c2sVars
  PROVE  LogoutInv'
<1>1. NodesKeep /\ report' = report
    BY DEF NodesKeep, AtNode, c2sVars
<1>2. \A t \in Conns : \A i \in DOMAIN up'[t] : \E j \in DOMAIN up[t] : up'[t][i] = up[t][j]
  <2>1. \A t \in Conns : Slid(up'[t], up[t])
      BY ServerEffect DEF ServerEffects
  <2> QED BY <2>1 DEF Slid
<1>3. ASSUME NEW i \in DOMAIN task'
      PROVE  (\E j \in DOMAIN task : task'[i] = task[j]) \/ TaskLeft(i)'
  <2>1. ASSUME NEW e, TaskNews(e), task'[i] = e PROVE TaskLeft(i)'
    <3>1. CASE e.cmd = "kickout" \/ e.cmd = "close"
        BY <2>1, <3>1 DEF TaskLeft
    <3>2. CASE Moved(e)
      <4>1. PICK s \in Conns : /\ s \in DOMAIN m_session2Ctx /\ up[s] # <<>>
                               /\ e = [cmd |-> "recv", conn |-> s, msg |-> up[s][1], c2s |-> m_session2Ctx[s].base]
          BY <3>2 DEF Moved
      <4>2. m_session2Ctx[s].base = visit[s].user
          BY <4>1 DEF PlaceInv, CtxFits
      <4>3. 1 \in DOMAIN up[s]
        <5>1. IsSeq(up[s])
            BY DEF UplinkInv, LinkShape, IsQueue
        <5> QED BY <4>1, <5>1, TailIsSeq
      <4>4. CASE up[s][1].type = "logout"
        <5>1. PICK u, v : u = up[s][1].user /\ v = visit[s].user
            OBVIOUS
        <5>2. HasLeft(u, v)
            BY <4>3, <4>4, <5>1 DEF LogoutInv, UpLeft
        <5>3. HasLeft(u, v)'
            BY <1>1, <5>2, LeftStays
        <5>4. u = task'[i].msg.user /\ v = task'[i].c2s
            BY <2>1, <4>1, <4>2, <5>1
        <5> QED BY <5>3, <5>4 DEF TaskLeft
      <4>5. CASE up[s][1].type # "logout"
          BY <2>1, <4>1, <4>5 DEF TaskLeft
      <4> QED BY <4>4, <4>5
    <3> QED BY <2>1, <3>1, <3>2 DEF TaskNews
  <2> QED BY <2>1, ServerTask, TaskFrom
<1> QED BY <1>1, <1>2, <1>3, LogoutStays

\* A node reports the logout of a user whose login came to nothing.
LEMMA NodeReport ==
  ASSUME C2sInv, SockInv, UplinkInv, PlaceInv, OwnInv, OnceInv, NEW c \in C2s, C2sNext(c), NEW u \in report'[c]
  PROVE  u \in report[c] \/ \E k : Own(k, u, c) /\ k \notin AtNode(c)'
<1>0. /\ DOMAIN report = C2s /\ DOMAIN m_timerId2Info = C2s /\ DOMAIN m_session2User = C2s
    BY DEF UplinkInv, LinkShape, C2sInv, TablesOfNodes
<1>1. CASE report'[c] \subseteq report[c]
    BY <1>1
<1>2. ASSUME NEW outcome, C2sLoginOk(c, outcome) PROVE u \in report[c] \/ \E k : Own(k, u, c) /\ k \notin AtNode(c)'
  <2> DEFINE m     == Msg(c)
             k     == m.index
             w     == m.user
             known == k \in DOMAIN m_timerId2Info[c]
             new   == outcome # "no session"
             old   == IF known /\ new /\ w \in DOMAIN m_user2Session[c]
                        THEN {m_user2Session[c][w]} ELSE {}
             ok    == known /\ outcome = "ok"
             s2u   == Erase(m_session2User[c], old)
  <2>1. /\ Uplink(c, {"login_ok"})
        /\ m_timerId2Info' = [m_timerId2Info EXCEPT ![c] = Erase(@, {k})]
        /\ m_session2User' = [m_session2User EXCEPT ![c] = IF ok THEN Put(s2u, k, w) ELSE s2u]
        /\ report' = [report EXCEPT ![c] = IF ok THEN {} ELSE {w}]
      BY <1>2 DEF C2sLoginOk, OnRecvMsg
  <2>2. PICK s : s = m_msgClient[c]
      OBVIOUS
  <2>3. s # 0 /\ down[s] # <<>> /\ m.type = "login_ok" /\ ident[s] # None
      BY <2>1, <2>2 DEF Uplink, Msg
  <2>4. s \in Conns /\ 1 \in DOMAIN down[s] /\ m = down[s][1] /\ visit[s].user = c
      BY <2>2, <2>3, MsgIsFirst, ToldIsMade
  <2> HIDE DEF m
  <2>5. Own(k, w, c)
      BY <2>3, <2>4 DEF OwnInv, DownOwn
  <2>6. k \notin DOMAIN m_session2User[c]
    <3>1. At(k, "down", s, 1)
        BY <2>3, <2>4 DEF At, IsDone
    <3>2. k \in DOMAIN m_session2User[c] => At(k, "session", c, 0)
        BY DEF At
    <3> HIDE DEF k
    <3>3. ~At(k, "session", c, 0)
        BY <3>1 DEF OnceInv
    <3> QED BY <3>2, <3>3
  <2> HIDE DEF k, w, ok, old
  <2>7. u = w /\ ~ok
      BY <1>0, <2>1
  <2>8. m_session2User'[c] = s2u /\ m_timerId2Info'[c] = Erase(m_timerId2Info[c], {k})
      BY <1>0, <2>1, <2>7
  <2>9. k \notin AtNode(c)'
      BY <2>6, <2>8 DEF AtNode, Erase
  <2> QED BY <2>5, <2>7, <2>9
<1>3. CASE C2sReport(c)
    BY <1>0, <1>3 DEF C2sReport
<1>4. CASE \/ (\E v \in Users : C2sAcceptSession(c, v) \/ C2sKickoutUser(c, v))
           \/ (\E k \in Conns : C2sOnTimer(c, k) \/ C2sOnCloseSession(c, k) \/ C2sOnRecvSession(c, k))
    BY <1>1, <1>4 DEF C2sAcceptSession, C2sKickoutUser, C2sOnTimer, C2sOnCloseSession, C2sOnRecvSession,
                      Logoff, c2sVars
<1>5. CASE \/ C2sOnOkMsg(c) \/ C2sOnTransferMsg(c) \/ C2sLoginError(c) \/ C2sKickout(c)
           \/ C2sOnCloseMsg(c) \/ C2sFini(c)
    BY <1>1, <1>5 DEF C2sOnOkMsg, C2sOnTransferMsg, C2sLoginError, C2sKickout, C2sOnCloseMsg, C2sFini,
                      DropAll, c2sVars
<1> QED BY <1>2, <1>3, <1>4, <1>5 DEF C2sNext

\* A node reports only who has gone.
LEMMA NodeLogout ==
  ASSUME C2sInv, SockInv, UplinkInv, PlaceInv, OwnInv, OnceInv, VisitsStay, LogoutInv,
         NEW c \in C2s, C2sNext(c), UNCHANGED serverVars
  PROVE  LogoutInv'
<1>1. NodeTables(c) /\ NodeEffects(c)
    BY NodeTable, NodeEffect
<1>2. NodesKeep
    BY <1>1 DEF NodesKeep, NodeTables, Keeps, Drops
<1>3. ASSUME NEW d \in C2s, NEW u \in report'[d] PROVE u \in report[d] \/ HasLeft(u, d)'
  <2>1. CASE d # c
      BY <1>1, <1>3, <2>1 DEF NodeTables
  <2>2. ASSUME NEW k, Own(k, u, c), k \notin AtNode(c)' PROVE HasLeft(u, c)'
      BY <2>2, OwnStays DEF HasLeft
  <2> QED BY <1>3, <2>1, <2>2, NodeReport
<1>4. ASSUME NEW t \in Conns, NEW i \in DOMAIN up'[t]
      PROVE  (\E j \in DOMAIN up[t] : up'[t][i] = up[t][j]) \/ UpLeft(t, i)'
  <2>1. CASE Slid(up'[t], up[t])
      BY <1>4, <2>1 DEF Slid
  <2>2. ASSUME NEW e, t = m_msgClient[c], NodeSays(c, e), up'[t][i] = e PROVE UpLeft(t, i)'
    <3>1. CASE e.type # "logout"
        BY <2>2, <3>1 DEF UpLeft
    <3>2. CASE e.type = "logout"
      <4>1. PICK u : u = e.user
          OBVIOUS
      <4>2. Departs(c, u) /\ t # 0 /\ ident[t] # None
          BY <2>2, <3>2, <4>1 DEF NodeSays
      <4>3. HasLeft(u, c)'
        <5>1. CASE u \in report[c]
          <6>1. HasLeft(u, c)
              BY <5>1 DEF LogoutInv, ReportLeft
          <6> QED BY <1>2, <6>1, LeftStays
        <5>2. ASSUME NEW k \in DOMAIN m_session2User[c], m_session2User[c][k] = u, k \notin AtNode(c)'
              PROVE  HasLeft(u, c)'
          <6>1. Own(k, u, c)
              BY <5>2 DEF OwnInv, TablesOwn
          <6> QED BY <5>2, <6>1, OwnStays DEF HasLeft
        <5> QED BY <4>2, <5>1, <5>2 DEF Departs
      <4>4. visit[t].user = c
          BY <2>2, <4>2, ToldIsMade
      <4>5. visit'[t].user = c
          BY <4>4, NamesAssumption DEF VisitsStay
      <4> QED BY <2>2, <4>1, <4>3, <4>5 DEF UpLeft
    <3> QED BY <3>1, <3>2
  <2>3. ASSUME NEW e, t = m_msgClient[c], NodeSays(c, e), SlidNew(up'[t], up[t], e)
        PROVE  up'[t][i] = e \/ \E j \in DOMAIN up[t] : up'[t][i] = up[t][j]
      BY <2>3, SlidFrom
  <2> QED BY <1>1, <2>1, <2>2, <2>3 DEF NodeEffects, NodeUp
<1>5. task' = task
    BY DEF serverVars
<1> QED BY <1>2, <1>3, <1>4, <1>5, LogoutStays

\* LogoutInv holds in every state.
LEMMA LogoutInvariance == Spec => []LogoutInv
<1>1. Init => LogoutInv
  <2>1. ASSUME Init PROVE /\ \A t \in Conns : DOMAIN up[t] = {}
                          /\ DOMAIN task = {} /\ \A c \in C2s : report[c] = {}
      BY <2>1 DEF Init, LinkInit, ServerInit, C2sInit
  <2> QED BY <2>1 DEF LogoutInv, ReportLeft
<1>2. /\ IndexInv /\ C2sInv /\ SockInv /\ UplinkInv /\ PlaceInv /\ OwnInv /\ OnceInv
      /\ LogoutInv /\ [Next]_vars
      => LogoutInv'
  <2> SUFFICES ASSUME IndexInv, C2sInv, SockInv, UplinkInv, PlaceInv, OwnInv, OnceInv,
                      LogoutInv, [Next]_vars
               PROVE  LogoutInv'
      OBVIOUS
  <2>a. VisitsStay
      BY VisitorsStay
  <2>b. ASSUME UNCHANGED <<up, report, m_timerId2Info, m_session2User>>,
               task' = task \/ \E e : task' = Append(task, e) /\ e.cmd = "accept"
        PROVE  LogoutInv'
    <3>1. NodesKeep
        BY <2>b DEF NodesKeep, AtNode
    <3>2. ASSUME NEW i \in DOMAIN task'
          PROVE  (\E j \in DOMAIN task : task'[i] = task[j]) \/ TaskLeft(i)'
      <4>1. IsSeq(task)
          BY DEF IndexInv, TaskIsSeq, IsSeq
      <4>2. ASSUME NEW e, task' = Append(task, e), e.cmd = "accept"
            PROVE  (\E j \in DOMAIN task : task'[i] = task[j]) \/ TaskLeft(i)'
        <5>1. /\ DOMAIN task = 1..Len(task) /\ Len(task) \in Nat /\ DOMAIN task' = 1..(Len(task) + 1)
              /\ \A l \in 1..Len(task) : task'[l] = task[l]
              /\ task'[Len(task) + 1] = e
            BY <4>1, <4>2, AppendIsSeq
        <5>2. i \in DOMAIN task \/ i = Len(task) + 1
            BY <3>2, <5>1
        <5>3. i = Len(task) + 1 => TaskLeft(i)'
            BY <4>2, <5>1 DEF TaskLeft
        <5> QED BY <5>1, <5>2, <5>3
      <4> QED BY <2>b, <3>2, <4>2
    <3> QED BY <2>a, <2>b, <3>1, <3>2, LogoutStays
  <2>c. ASSUME NEW u, OnAcceptSession(u)
        PROVE  task' = task \/ \E e : task' = Append(task, e) /\ e.cmd = "accept"
      BY <2>c DEF OnAcceptSession
  <2>1. CASE UNCHANGED vars
      BY <2>1, <2>b DEF vars, linkVars, serverVars, c2sVars
  <2>2. CASE ServerNext /\ UNCHANGED c2sVars
      BY <2>2, <2>a, ServerLogout
  <2>3. ASSUME NEW c \in C2s, C2sNext(c), UNCHANGED serverVars PROVE LogoutInv'
      BY <2>3, <2>a, NodeLogout
  <2>4. ASSUME NEW c \in C2s, Connect(c) PROVE LogoutInv'
      BY <2>4, <2>b, <2>c DEF Connect
  <2>5. ASSUME NEW u \in Users, ClientConnect(u) PROVE LogoutInv'
      BY <2>5, <2>b, <2>c DEF ClientConnect, c2sVars
  <2>6. ASSUME NEW k \in Conns, ClientRecv(k) PROVE LogoutInv'
    <3>1. UNCHANGED <<up, task, report, m_timerId2Info, m_session2User>>
        BY <2>6 DEF ClientRecv, c2sVars, serverVars
    <3> QED BY <2>b, <3>1
  <2>7. ASSUME NEW k \in Conns, NEW u, ClientSend(k, u) PROVE LogoutInv'
    <3>1. UNCHANGED <<task, report, m_timerId2Info, m_session2User>>
        BY <2>7 DEF ClientSend, c2sVars, serverVars
    <3>2. NodesKeep
        BY <3>1 DEF NodesKeep, AtNode
    <3>3. ASSUME NEW t \in Conns, NEW i \in DOMAIN up'[t]
          PROVE  (\E j \in DOMAIN up[t] : up'[t][i] = up[t][j]) \/ UpLeft(t, i)'
      <4> DEFINE e == Data(ident[k], u)
                 pk == [j \in {k} |-> e]
      <4>1. up' = Send(up, pk) /\ DOMAIN pk = {k} /\ pk[k] = e /\ e.type = "data"
          BY <2>7 DEF ClientSend, Data
      <4> HIDE DEF pk, e
      <4>2. IsQueue(up)
          BY DEF UplinkInv, LinkShape
      <4>3. up'[t] = up[t] \/ up'[t] = Append(up[t], e)
          BY <4>1, <4>2, SendQueue
      <4>4. SlidNew(Append(up[t], e), up[t], e)
          BY <4>2, SlidForms DEF IsQueue
      <4>5. \A l \in DOMAIN Append(up[t], e) :
              Append(up[t], e)[l] = e \/ \E j \in DOMAIN up[t] : Append(up[t], e)[l] = up[t][j]
          BY <4>4, SlidFrom
      <4>6. up'[t][i] = e \/ \E j \in DOMAIN up[t] : up'[t][i] = up[t][j]
          BY <3>3, <4>3, <4>5
      <4>7. up'[t][i] = e => UpLeft(t, i)'
          BY <4>1 DEF UpLeft
      <4> QED BY <4>6, <4>7
    <3> QED BY <2>a, <3>1, <3>2, <3>3, LogoutStays
  <2> QED BY <2>1, <2>2, <2>3, <2>4, <2>5, <2>6, <2>7 DEF Next
<1> QED BY <1>1, <1>2, IndexInvariance, C2sInvariance, SockInvariance,
           UplinkInvariance, PlaceInvariance, OwnInvariance, OnceInvariance, PTL DEF Spec
-----------------------------------------------------------------------------
(***************************************************************************)
(* MuteInv: a waiting connection has told nobody who it is.                *)
(***************************************************************************)

\* A new connection is somebody's, to somewhere.
LEMMA DialFits ==
  ASSUME SockInv, VisitsFit, NEW u, NEW n, NEW accepted, Dial(u, n, accepted)
  PROVE  VisitsFit'
<1>1. CASE visit' = visit
    BY <1>1 DEF VisitsFit
<1>2. CASE visit' = [visit EXCEPT ![next] = [user |-> u, at |-> n]]
    BY <1>2 DEF VisitsFit, SockInv
<1> QED BY <1>1, <1>2 DEF Dial

\* MuteInv holds in every state.
LEMMA MuteInvariance == Spec => []MuteInv
<1>1. Init => MuteInv
  <2>1. Init => VisitsFit
      BY DEF Init, LinkInit, VisitsFit
  <2>2. Init => DOMAIN task = {}
      BY DEF Init, ServerInit
  <2> QED BY <2>1, <2>2 DEF MuteInv
<1>2. IndexInv /\ C2sInv /\ SockInv /\ UplinkInv /\ PlaceInv /\ MuteInv /\ [Next]_vars => MuteInv'
  <2> SUFFICES ASSUME IndexInv, C2sInv, SockInv, UplinkInv, PlaceInv, MuteInv, [Next]_vars
               PROVE  MuteInv'
      OBVIOUS
  <2>a. \A i \in DOMAIN task : Waiting(i) =>
          task[i].conn \in Conns /\ down[task[i].conn] = <<>> /\ ident[task[i].conn] = None
      BY DEF MuteInv, PlaceInv, WaitersFit, Waiting, SockInv, AtServer, Waiters
  <2>b. ASSUME VisitsFit', \A t \in Conns : ident'[t] = ident[t] \/ ident'[t] = None \/ down[t] # <<>>,
               \A i \in DOMAIN task' : Waiting(i)' => \E j \in DOMAIN task : Waiting(j) /\ task'[i] = task[j]
        PROVE  MuteInv'
      BY <2>a, <2>b DEF MuteInv
  <2>c. ASSUME NEW u, OnAcceptSession(u), ident' = ident PROVE MuteInv'
    <3>1. VisitsFit'
        BY <2>c, DialFits DEF OnAcceptSession, MuteInv
    <3> DEFINE e == [cmd |-> "accept", conn |-> next, user |-> u]
    <3>2. task' = task \/ task' = Append(task, e)
        BY <2>c DEF OnAcceptSession
    <3>3. next \in Conns => ident[next] = None
        BY DEF SockInv, UplinkInv, PlaceInv, Silent, Conns
    <3>4. next \in Conns
        BY <2>c, BoundsAssumption DEF OnAcceptSession, Dial, SockInv, Conns
    <3>5. CASE task' = task
        BY <2>c, <3>1, <3>5 DEF MuteInv, Waiting
    <3>6. CASE task' = Append(task, e)
      <4>1. IsSeq(task)
          BY DEF IndexInv, TaskIsSeq, IsSeq
      <4>2. e.conn = next
          OBVIOUS
      <4> HIDE DEF e
      <4>3. /\ DOMAIN task = 1..Len(task) /\ Len(task) \in Nat /\ DOMAIN task' = 1..(Len(task) + 1)
            /\ \A l \in 1..Len(task) : task'[l] = task[l]
            /\ task'[Len(task) + 1] = e
          BY <3>6, <4>1, AppendIsSeq
      <4>4. ASSUME NEW i \in DOMAIN task', Waiting(i)' PROVE ident'[task'[i].conn] = None
        <5>1. i \in DOMAIN task \/ i = Len(task) + 1
            BY <4>3, <4>4
        <5>2. CASE i \in DOMAIN task
            BY <2>a, <2>c, <4>3, <4>4, <5>2 DEF Waiting
        <5>3. CASE i = Len(task) + 1
            BY <2>c, <3>3, <3>4, <4>2, <4>3, <5>3
        <5> QED BY <5>1, <5>2, <5>3
      <4> QED BY <3>1, <4>4 DEF MuteInv
    <3> QED BY <3>2, <3>5, <3>6
  <2>d. ASSUME visit' = visit PROVE VisitsFit'
      BY <2>d DEF MuteInv, VisitsFit
  <2>e. ASSUME task' = task
        PROVE  \A i \in DOMAIN task' : Waiting(i)' => \E j \in DOMAIN task : Waiting(j) /\ task'[i] = task[j]
      BY <2>e DEF Waiting
  <2>1. CASE UNCHANGED vars
      BY <2>1, <2>b, <2>d, <2>e DEF vars, linkVars, serverVars
  <2>2. CASE ServerNext /\ UNCHANGED c2sVars
    <3>1. visit' = visit
        BY <2>2, ServerShape DEF UplinkInv
    <3> QED BY <2>2, <2>b, <2>d, <3>1, ServerEffect, ServerTask, WaitersFrom DEF ServerEffects
  <2>3. ASSUME NEW c \in C2s, C2sNext(c), UNCHANGED serverVars PROVE MuteInv'
    <3>1. VisitsFit'
      <4>1. visit' = visit \/ \E u, n, accepted : Dial(u, n, accepted)
        <5>1. CASE \E v \in Users : C2sAcceptSession(c, v)
            BY <5>1 DEF C2sAcceptSession
        <5>2. CASE \/ (\E v \in Users : C2sKickoutUser(c, v))
                   \/ (\E k \in Conns : C2sOnTimer(c, k) \/ C2sOnCloseSession(c, k) \/ C2sOnRecvSession(c, k))
            BY <5>2 DEF C2sKickoutUser, C2sOnTimer, C2sOnCloseSession, C2sOnRecvSession, Logoff
        <5>3. CASE \/ C2sOnOkMsg(c) \/ C2sOnTransferMsg(c) \/ C2sLoginError(c) \/ C2sKickout(c)
                   \/ C2sOnCloseMsg(c) \/ C2sFini(c) \/ C2sReport(c) \/ \E o : C2sLoginOk(c, o)
            BY <5>3 DEF C2sOnOkMsg, C2sOnTransferMsg, C2sLoginError, C2sKickout, C2sOnCloseMsg, C2sFini,
                        DropAll, C2sReport, C2sLoginOk
        <5> QED BY <2>3, <5>1, <5>2, <5>3 DEF C2sNext
      <4> QED BY <2>d, <4>1, DialFits DEF MuteInv
    <3>2. task' = task
        BY <2>3 DEF serverVars
    <3> QED BY <2>3, <2>b, <2>e, <3>1, <3>2, NodeEffect DEF NodeEffects, NodeIdent
  <2>4. ASSUME NEW c \in C2s, Connect(c) PROVE MuteInv'
      BY <2>4, <2>c DEF Connect
  <2>5. ASSUME NEW u \in Users, ClientConnect(u) PROVE MuteInv'
      BY <2>5, <2>c DEF ClientConnect
  <2>6. ASSUME NEW k \in Conns, ClientRecv(k) PROVE MuteInv'
    <3>1. task' = task /\ visit' = visit /\ down[k] # <<>>
          /\ (ident' = ident \/ ident' = [ident EXCEPT ![k] = Head(down[k]).src])
        BY <2>6 DEF ClientRecv, OnFirstPacket, serverVars
    <3>2. \A t \in Conns : ident'[t] = ident[t] \/ down[t] # <<>>
        BY <3>1 DEF UplinkInv, LinkShape
    <3> QED BY <2>b, <2>d, <2>e, <3>1, <3>2
  <2>7. ASSUME NEW k \in Conns, NEW u, ClientSend(k, u) PROVE MuteInv'
      BY <2>7, <2>b, <2>d, <2>e DEF ClientSend, serverVars
  <2> QED BY <2>1, <2>2, <2>3, <2>4, <2>5, <2>6, <2>7 DEF Next
<1> QED BY <1>1, <1>2, IndexInvariance, C2sInvariance, SockInvariance,
           UplinkInvariance, PlaceInvariance, PTL DEF Spec
-----------------------------------------------------------------------------
(***************************************************************************)
(* KnownInv: what a node believes of the server.                           *)
(***************************************************************************)

\* NotifyKickout reaches the node that has the user.
LEMMA NotifyTells ==
  ASSUME SockInv, UplinkInv, PlaceInv, IndexInv, NEW c \in C2s, NEW s, Sees(c, s), s \notin lost',
         NEW S, NEW u, NEW told, DeleteSessions(S, Notify(u, told)), told, u \in m_session2Ctx[s].subs
  PROVE  down'[s] = Append(down[s], Kickout(u))
<1>1. s \in DOMAIN m_session2Ctx /\ m_session2Ctx[s].base # u
    BY DEF Sees, PlaceInv, CtxFits
<1>2. IsSub(u) /\ m_user2Ctx[u] = s
    BY <1>1, WithoutUser
<1> DEFINE pk == Notify(u, told)
<1>3. s \in DOMAIN pk /\ pk[s] = Kickout(u)
    BY <1>2 DEF Notify
<1> HIDE DEF pk
<1>4. DeleteSessions(S, pk)
    BY DEF pk
<1> QED BY <1>3, <1>4, LinkDelete

\* The command is the logout of u, reported by c.
LogsOut(c, u) ==
  /\ 1 \in DOMAIN task /\ task[1].cmd = "recv" /\ task[1].msg.type = "logout"
  /\ task[1].msg.user = u /\ task[1].c2s = c

\* The server tells a node of every user it takes away from it, unless it is
\* the node that has reported the user gone.
LEMMA ServerRemoves ==
  ASSUME SockInv, UplinkInv, PlaceInv, IndexInv, OwnInv, NEW c \in C2s, NEW s, Sees(c, s), s \notin lost',
         s \in DOMAIN m_session2Ctx', ServerNext,
         NEW u \in m_session2Ctx[s].subs, u \notin m_session2Ctx'[s].subs
  PROVE  rsp = {} /\ (down'[s] = Append(down[s], Kickout(u)) \/ LogsOut(c, u))
<1>0. /\ s \in DOMAIN m_session2Ctx /\ m_session2Ctx[s].base = c /\ m_session2Ctx' # m_session2Ctx
    BY SeenIsOwn DEF Sees
<1>1. CASE \/ \E v : KickoutUser(v) \/ SendMsg(v)
           \/ \E t : OnRecvSession(t) \/ OnCloseSession(t)
           \/ RejectSession \/ Respond \/ LoginRefused \/ DrainCommand \/ FiniSessions
    BY <1>0, <1>1 DEF KickoutUser, SendMsg, OnRecvSession, OnCloseSession, RejectSession, Respond,
         LoginRefused, DrainCommand, FiniSessions, Nothing, serverVars
<1>2. CASE Fini
    BY <1>2 DEF Fini, Without
<1>3. CASE AddBaseUser
  <2>0. PICK t, v : t = Head(task).conn /\ v = Head(task).user
      OBVIOUS
  <2>1. DeleteSessions(Dead(v), Notify(v, TRUE)) /\ rsp = {}
      BY <1>3, <2>0 DEF AddBaseUser, Command
  <2>2. /\ t \notin DOMAIN m_session2Ctx
        /\ \A k \in DOMAIN m_session2Ctx' \ {t} : Less(m_session2Ctx'[k], m_session2Ctx[k], {v})
      BY <1>3, <2>0, AddBaseEffect
  <2>3. u = v
      BY <1>0, <2>2 DEF Less
  <2> QED BY <2>1, <2>3, NotifyTells
<1>4. CASE AsyncKickoutUser
  <2>0. PICK v : v = Head(task).user
      OBVIOUS
  <2>1. DeleteSessions(Dead(v), Notify(v, TRUE)) /\ rsp = {} /\ m_session2Ctx' = CtxWithout(v)
      BY <1>4, <2>0 DEF AsyncKickoutUser, Command
  <2>2. Less(m_session2Ctx'[s], m_session2Ctx[s], {v})
      BY <2>1, WithoutUser
  <2>3. u = v
      BY <2>2 DEF Less
  <2> QED BY <2>1, <2>3, NotifyTells
<1>5. ASSUME NEW d, NEW v, NEW k, NEW t, Adds(d, v, k, t)
      PROVE  rsp = {} /\ down'[s] = Append(down[s], Kickout(u))
  <2>1. DeleteSessions(Dead(v), Notify(v, Known(v) /\ d # Ctx(v).base)) /\ rsp = {} /\ t = m_user2Ctx[d]
      BY <1>5 DEF Adds
  <2>2. Added(d, v, t)
      BY <1>5, AddsEffect
  <2>3. s # t
      BY <2>2 DEF Added
  <2>4. u = v
      BY <2>2, <2>3 DEF Added, Less
  <2>5. Known(u) /\ m_user2Ctx[u] = s /\ m_user2Ctx[c] = s
      BY <1>0 DEF IndexInv, Agree, Known
  <2>6. d # Ctx(u).base
      BY <1>0, <2>1, <2>3, <2>5 DEF Ctx
  <2>7. DeleteSessions(Dead(u), Notify(u, TRUE))
    <3>1. (Known(v) /\ d # Ctx(v).base) = TRUE
        BY <2>4, <2>5, <2>6
    <3> QED BY <2>1, <2>4, <3>1
  <2> QED BY <2>1, <2>7, NotifyTells
<1>6. CASE AddSubUser
    BY <1>0, <1>5, <1>6, AddSubCases
<1>7. CASE ClientLogout
  <2>0. PICK v, d : v = Head(task).msg.user /\ d = Head(task).c2s
      OBVIOUS
  <2>1. /\ m_session2Ctx' = [m_session2Ctx EXCEPT ![m_user2Ctx[v]].subs = @ \ {v}]
        /\ Known(v) /\ Ctx(v).base = d /\ rsp = {} /\ task # <<>>
        /\ Head(task).cmd = "recv" /\ Head(task).msg.type = "logout"
      BY <1>0, <1>7, <2>0 DEF ClientLogout, Nothing, Command
  <2>2. IsCtx(m_session2Ctx[s])
      BY <1>0 DEF IndexInv, Agree
  <2>3. s = m_user2Ctx[v]
      BY <1>0, <2>1
  <2>4. m_session2Ctx'[s].subs = m_session2Ctx[s].subs \ {v}
      BY <1>0, <2>1, <2>2, <2>3 DEF IsCtx
  <2>5. u = v /\ d = c
      BY <1>0, <2>1, <2>3, <2>4 DEF Ctx
  <2>6. IsSeq(task)
      BY DEF IndexInv, TaskIsSeq, IsSeq
  <2>7. 1 \in DOMAIN task /\ Head(task) = task[1]
      BY <2>1, <2>6, TailIsSeq
  <2> QED BY <2>0, <2>1, <2>5, <2>7 DEF LogsOut
<1>8. CASE AsyncOnCloseSession
    BY <1>0, <1>8 DEF AsyncOnCloseSession, Nothing, Without
<1> QED BY <1>1, <1>2, <1>3, <1>4, <1>6, <1>7, <1>8 DEF ServerNext

\* A lone connection was one before.
LEMMA LoneStays ==
  ASSUME VisitsStay, NEW k \in Conns, visit[k].user # None, Lone(k)'
  PROVE  Lone(k) /\ visit'[k] = visit[k]
<1>1. visit'[k] = visit[k]
    BY DEF VisitsStay
<1>2. ASSUME NEW j \in Conns \ {k} PROVE visit[j] # visit[k]
  <2>1. CASE visit[j].user # None
      BY <1>1, <1>2, <2>1 DEF VisitsStay, Lone
  <2>2. CASE visit[j].user = None
      BY <2>2
  <2> QED BY <2>1, <2>2
<1> QED BY <1>1, <1>2 DEF Lone

\* Nobody has reported it gone.
LEMMA LoneHasNotLeft ==
  ASSUME VisitsFit, SockInv, PlaceInv, NEW c \in C2s, NEW k \in AtNode(c), Lone(k)
  PROVE  ~HasLeft(visit[k].user, c)
<1>1. k \in Conns /\ visit[k].at = c
    BY DEF SockInv
<1>2. ASSUME NEW j, Own(j, visit[k].user, c), j \notin AtNode(c) PROVE FALSE
  <2>1. j \in Conns \ {k} /\ visit[j].user = visit[k].user /\ visit[j].at = c
      BY <1>2 DEF Own
  <2>2. visit[j] = visit[k]
      BY <1>1, <2>1 DEF VisitsFit
  <2> QED BY <2>1, <2>2 DEF Lone
<1> QED BY <1>2 DEF HasLeft

\* A step of the server that forgets a user tells the node.
LEMMA ServerKnown ==
  ASSUME SockInv, UplinkInv, UplinkInv', PlaceInv, IndexInv, OwnInv, LogoutInv, MuteInv, KnownInv,
         ServerNext, UNCHANGED c2sVars
  PROVE  KnownInv'
<1>0. visit' = visit
    BY ServerShape DEF UplinkInv
<1> SUFFICES ASSUME NEW c \in C2s, NEW s \in Conns, Sees(c, s)', NEW k \in AtNode(c)', Lone(k)'
             PROVE  KnownAt(c, s, k)'
    BY DEF KnownInv
<1>1. /\ s = m_msgClient[c] /\ s \in DOMAIN m_session2Ctx' /\ s \notin lost' /\ s \notin lost
      /\ k \in AtNode(c) /\ Lone(k) /\ m_session2User' = m_session2User
    BY <1>0, ServerLost DEF Sees, c2sVars, AtNode, Lone
<1>2. s \in DOMAIN m_session2Ctx
  <2>1. ident[s] # None
    <3>1. s # 0
        BY DEF Conns
    <3> QED BY <1>1, <3>1 DEF PlaceInv, Linked
  <2>2. ASSUME s \notin DOMAIN m_session2Ctx PROVE s \in Waiters(task)
      BY <1>1, <2>2, NewContext
  <2>3. s \notin Waiters(task)
      BY <2>1 DEF MuteInv, Waiters, Waiting
  <2> QED BY <2>2, <2>3
<1>3. Sees(c, s)
    BY <1>1, <1>2 DEF Sees
<1>4. KnownAt(c, s, k)
    BY <1>1, <1>3 DEF KnownInv
<1>5. PICK u : u = visit[k].user
    OBVIOUS
<1>6. IsSeq(down[s]) /\ LinkDown(s) /\ alive
    BY <1>1, <1>3, SeenIsOwn, ServerLinkDown
<1>7. /\ \A i \in DOMAIN down[s] : i \in Nat /\ i \in DOMAIN down'[s] /\ down'[s][i] = down[s][i]
      /\ \A i \in DOMAIN down'[s] :
           i \in DOMAIN down[s] \/ (LinkNews(s, down'[s][i]) /\ \A j \in DOMAIN down[s] : j < i)
    BY <1>6, LinkGrows
<1>8. ASSUME u \in m_session2Ctx[s].subs, u \notin m_session2Ctx'[s].subs
      PROVE  rsp = {} /\ down'[s] = Append(down[s], Kickout(u))
  <2>1. rsp = {} /\ (down'[s] = Append(down[s], Kickout(u)) \/ LogsOut(c, u))
      BY <1>1, <1>3, <1>8, ServerRemoves
  <2>2. ~LogsOut(c, u)
    <3>1. ASSUME LogsOut(c, u) PROVE HasLeft(u, c)
        BY <3>1 DEF LogsOut, LogoutInv, TaskLeft
    <3>2. ~HasLeft(u, c)
        BY <1>1, <1>5, LoneHasNotLeft DEF MuteInv
    <3> QED BY <3>1, <3>2
  <2> QED BY <2>1, <2>2
<1>9. ASSUME NEW i \in Nat, i <= Len(down[s]), Vouched(s, u, i)
      PROVE  Vouched(s, u, i)'
  <2>1. CASE Kicked(s, u, i)
      BY <1>7, <2>1 DEF Kicked, Vouched
  <2>2. CASE u \in m_session2Ctx[s].subs /\ u \notin m_session2Ctx'[s].subs
    <3>1. down'[s] = Append(down[s], Kickout(u))
        BY <1>8, <2>2
    <3>2. /\ Len(down[s]) \in Nat /\ DOMAIN down'[s] = 1..(Len(down[s]) + 1)
          /\ down'[s][Len(down[s]) + 1] = Kickout(u)
        BY <1>6, <3>1, AppendIsSeq
    <3>3. Len(down[s]) + 1 \in DOMAIN down'[s] /\ Len(down[s]) + 1 > i
        BY <1>9, <3>2
    <3>4. IsKick(Kickout(u), u)
        BY DEF Kickout, IsKick
    <3>5. Kicked(s, u, i)'
        BY <3>2, <3>3, <3>4 DEF Kicked, IsKick
    <3> QED BY <3>5 DEF Vouched
  <2> QED BY <1>9, <2>1, <2>2 DEF Vouched
<1>10. ASSUME k \in DOMAIN m_session2User'[c] PROVE Vouched(s, u, 0)'
  <2>1. Vouched(s, u, 0)
      BY <1>1, <1>4, <1>5, <1>10 DEF KnownAt
  <2>2. Len(down[s]) \in Nat
      BY <1>6, AppendIsSeq
  <2> QED BY <1>9, <2>1, <2>2
<1>11. ASSUME NEW i \in DOMAIN down'[s], IsDone(down'[s][i], k) PROVE Vouched(s, u, i)'
  <2>1. CASE i \in DOMAIN down[s]
    <3>1. Vouched(s, u, i)
        BY <1>4, <1>5, <1>7, <1>11, <2>1 DEF KnownAt
    <3>2. i \in Nat /\ i <= Len(down[s])
        BY <1>6, <2>1, AppendIsSeq
    <3> QED BY <1>9, <3>1, <3>2
  <2>2. CASE LinkNews(s, down'[s][i])
    <3>1. PICK r \in rsp : r.conn = s /\ down'[s][i] = r.msg
      <4>1. down'[s][i].type = "login_ok"
          BY <1>11 DEF IsDone
      <4>2. \A v : Kickout(v).type = "kickout"
          BY DEF Kickout
      <4> QED BY <2>2, <4>1, <4>2 DEF LinkNews
    <3>2. ~IsResponse(r)
        BY <1>11, <3>1 DEF IsResponse, Response, IsDone
    <3>3. IsAnswer(r) /\ r.user \in m_session2Ctx[s].subs
        BY <1>6, <3>1, <3>2 DEF OwnInv, RspOwn
    <3>4. r.user = u
      <4>1. r.msg.index = k
          BY <1>11, <3>1 DEF IsDone
      <4>2. visit[k].user = r.user
          BY <3>3, <4>1 DEF IsAnswer, Own
      <4> QED BY <1>5, <4>2
    <3>5. u \in m_session2Ctx'[s].subs
        BY <1>8, <3>1, <3>3, <3>4
    <3> QED BY <3>5 DEF Vouched
  <2> QED BY <1>7, <1>11, <2>1, <2>2
<1> QED BY <1>0, <1>5, <1>10, <1>11 DEF KnownAt

\* The node takes a packet: what it says of the others is nearer.
LEMMA TakenVouched ==
  ASSUME NEW s, IsSeq(down[s]), Takes(s), m_session2Ctx' = m_session2Ctx, NEW u, NEW i \in Nat,
         Vouched(s, u, i + 1)
  PROVE  Vouched(s, u, i)'
<1>1. CASE u \in m_session2Ctx[s].subs
    BY <1>1 DEF Vouched
<1>2. CASE Kicked(s, u, i + 1)
  <2>1. PICK j \in DOMAIN down[s] : j > i + 1 /\ IsKick(down[s][j], u)
      BY <1>2 DEF Kicked
  <2>2. j \in Nat /\ (j # 1 => j - 1 \in DOMAIN down'[s] /\ down'[s][j - 1] = down[s][j])
      BY <2>1, TakesFirst
  <2>3. j - 1 > i /\ j # 1
      BY <2>1, <2>2
  <2>4. Kicked(s, u, i)'
      BY <2>1, <2>2, <2>3 DEF Kicked, IsKick
  <2> QED BY <2>4 DEF Vouched
<1> QED BY <1>1, <1>2 DEF Vouched

\* What a node's step does to what it hears from the server.
LEMMA NodeHears ==
  ASSUME C2sInv, SockInv, UplinkInv, PlaceInv, NEW d \in C2s, C2sNext(d), NEW c \in C2s, NEW s \in Conns,
         s = m_msgClient[c], m_msgClient'[c] = s
  PROVE  /\ lost \subseteq lost'
         /\ down'[s] = down[s] \/ Takes(s)
         /\ c = d \/ down'[s] = down[s]
<1>1. s \notin AtNode(d) /\ s # 0
    BY UplinkApart DEF Conns
<1>2. NodeTouches(d, s)
    BY <1>1, NodeTouch
<1>3. CASE c = d
    BY <1>1, <1>2, <1>3 DEF NodeTouches, NodeLink, Grows, Starts, Passes, Ignores, Completes, Evicts, Reports
<1>4. CASE c # d
  <2>1. s # m_msgClient[d]
      BY <1>1, <1>4 DEF UplinkInv
  <2> QED BY <1>2, <2>1 DEF NodeTouches, Untouched
<1> QED BY <1>3, <1>4

\* A session that the node keeps is not the one that a kickout ends.
LEMMA KickedIsGone ==
  ASSUME C2sInv, SockInv, UplinkInv, PlaceInv, NEW c \in C2s, C2sNext(c), NEW s \in Conns,
         s = m_msgClient[c], m_msgClient'[c] = s, Takes(s), Head(down[s]).type = "kickout",
         NEW k \in DOMAIN m_session2User[c], k \in DOMAIN m_session2User'[c]
  PROVE  m_session2User[c][k] # Head(down[s]).user
<1>1. s \notin AtNode(c) /\ s # 0
    BY UplinkApart DEF Conns
<1>2. NodeLink(c, s)
    BY <1>1, NodeTouch DEF NodeTouches
<1>3. ident[s] # None /\ ident[s] = c
    BY <1>1, NamesAssumption DEF PlaceInv, Linked, Named
<1>4. down'[s] # down[s]
  <2>1. IsSeq(down[s])
      BY DEF UplinkInv, LinkShape, IsQueue
  <2>2. /\ Len(down[s]) \in Nat \ {0} /\ Len(down'[s]) = Len(down[s]) - 1
      BY <2>1, TailIsSeq DEF Takes
  <2>3. Len(down'[s]) # Len(down[s])
      BY <2>2
  <2> QED BY <2>3
<1>5. Evicts(c, s)
    BY <1>1, <1>2, <1>3, <1>4 DEF NodeLink, Grows, Starts, Passes, Ignores, Completes, Reports
<1> QED BY <1>5 DEF Evicts

\* A node has no client logged in but those whose login_ok it received.
LEMMA NodeKnown ==
  ASSUME C2sInv, SockInv, UplinkInv, PlaceInv, OwnInv, VisitsStay, KnownInv, NEW d \in C2s, C2sNext(d),
         UNCHANGED serverVars
  PROVE  KnownInv'
<1> SUFFICES ASSUME NEW c \in C2s, NEW s \in Conns, Sees(c, s)', NEW k \in AtNode(c)', Lone(k)'
             PROVE  KnownAt(c, s, k)'
    BY DEF KnownInv
<1>0. NodeTables(d) /\ NodeEntries(d) /\ m_session2Ctx' = m_session2Ctx
    BY NodeTable, NodeEntry DEF serverVars
<1>1. s = m_msgClient[c] /\ m_msgClient'[c] = s /\ s # 0
    BY <1>0 DEF Sees, NodeTables, Keeps, Drops, Conns
<1>2. lost \subseteq lost' /\ (down'[s] = down[s] \/ Takes(s)) /\ (c = d \/ down'[s] = down[s])
    BY <1>1, NodeHears
<1>3. Sees(c, s)
    BY <1>0, <1>1, <1>2 DEF Sees
<1>4. IsSeq(down[s])
    BY <1>3, SeenIsOwn
<1>5. CASE k \notin AtNode(c)
  <2>1. c = d /\ k = next /\ k \in Conns
      BY <1>0, <1>5 DEF NodeTables, Keeps, Drops
  <2>2. k \notin DOMAIN m_session2User'[c]
      BY <1>0, <1>5, <2>1 DEF NodeEntries, Answered, AtNode
  <2>3. ASSUME NEW i \in DOMAIN down'[s] PROVE ~IsDone(down'[s][i], k)
    <3>1. \E j \in DOMAIN down[s] : down'[s][i] = down[s][j]
        BY <1>2, <1>4, <2>3, TakesFirst
    <3>2. PICK j \in DOMAIN down[s] : down'[s][i] = down[s][j]
        BY <3>1
    <3>3. ~At(k, "down", s, j)
        BY <2>1, PlaceIsMade
    <3> QED BY <3>2, <3>3 DEF At
  <2> QED BY <2>2, <2>3 DEF KnownAt, IsDone
<1>6. CASE k \in AtNode(c)
  <2>1. k \in Conns /\ visit[k].user # None
      BY <1>6, NamesAssumption DEF SockInv, PlaceInv, NodeFits
  <2>2. Lone(k) /\ visit'[k] = visit[k]
      BY <2>1, LoneStays
  <2>3. KnownAt(c, s, k)
      BY <1>3, <1>6, <2>2 DEF KnownInv
  <2>4. PICK u : u = visit[k].user
      OBVIOUS
  <2>5. ASSUME down'[s] = down[s], NEW i, Vouched(s, u, i) PROVE Vouched(s, u, i)'
      BY <1>0, <2>5 DEF Vouched, Kicked, IsKick
  <2>6. ASSUME NEW i \in DOMAIN down'[s], IsDone(down'[s][i], k) PROVE Vouched(s, u, i)'
    <3>1. CASE down'[s] = down[s]
        BY <2>3, <2>4, <2>5, <2>6, <3>1 DEF KnownAt
    <3>2. CASE Takes(s)
      <4>1. i \in Nat /\ i + 1 \in DOMAIN down[s] /\ down[s][i + 1] = down'[s][i]
          BY <1>4, <2>6, <3>2, TakesFirst
      <4>2. Vouched(s, u, i + 1)
          BY <2>3, <2>4, <2>6, <4>1 DEF KnownAt
      <4> QED BY <1>0, <1>4, <3>2, <4>1, <4>2, TakenVouched
    <3> QED BY <1>2, <3>1, <3>2
  <2>7. ASSUME k \in DOMAIN m_session2User'[c] PROVE Vouched(s, u, 0)'
    <3>1. CASE k \in DOMAIN m_session2User[c]
      <4>1. Vouched(s, u, 0)
          BY <2>3, <2>4, <3>1 DEF KnownAt
      <4>2. CASE down'[s] = down[s]
          BY <2>5, <4>1, <4>2
      <4>3. CASE down'[s] # down[s]
        <5>1. Takes(s) /\ c = d
            BY <1>2, <4>3
        <5>2. ASSUME Kicked(s, u, 0) PROVE Kicked(s, u, 1)
          <6>1. PICK j \in DOMAIN down[s] : j > 0 /\ IsKick(down[s][j], u)
              BY <5>2 DEF Kicked
          <6>2. j # 1
            <7>1. ASSUME j = 1 PROVE Head(down[s]).type = "kickout" /\ Head(down[s]).user = u
                BY <1>4, <5>1, <6>1, <7>1, TakesFirst DEF IsKick
            <7>2. m_session2User[c][k] = u
                BY <2>4, <3>1 DEF OwnInv, TablesOwn, Own
            <7> QED BY <1>1, <2>7, <3>1, <5>1, <7>1, <7>2, KickedIsGone
          <6>3. j \in Nat
              BY <1>4, <5>1, TakesFirst
          <6>4. j > 1
              BY <6>1, <6>2, <6>3
          <6> QED BY <6>1, <6>4 DEF Kicked
        <5>3. Vouched(s, u, 1)
            BY <4>1, <5>2 DEF Vouched
        <5>4. 0 + 1 = 1 /\ 0 \in Nat
            OBVIOUS
        <5> QED BY <1>0, <1>4, <5>1, <5>3, <5>4, TakenVouched
      <4> QED BY <4>2, <4>3
    <3>2. CASE k \notin DOMAIN m_session2User[c]
      <4>1. c = d /\ Answered(c, k)
          BY <1>0, <2>7, <3>2 DEF NodeEntries
      <4>2. PICK outcome : C2sLoginOk(c, outcome)
          BY <4>1 DEF Answered
      <4>3. s \notin AtNode(c)
          BY <1>1, UplinkApart
      <4>4. Takes(s)
          BY <1>1, <4>2, <4>3, LoginOkApart DEF Completes
      <4>5. 1 \in DOMAIN down[s] /\ down[s][1] = Head(down[s])
          BY <1>4, <4>4, TakesFirst
      <4>6. IsDone(down[s][1], k)
          BY <1>1, <4>1, <4>5 DEF Answered, OnRecvMsg, Uplink, Msg, IsDone
      <4>7. Vouched(s, u, 1)
          BY <2>3, <2>4, <4>5, <4>6 DEF KnownAt
      <4>8. 0 + 1 = 1 /\ 0 \in Nat
          OBVIOUS
      <4> QED BY <1>0, <1>4, <4>4, <4>7, <4>8, TakenVouched
    <3> QED BY <3>1, <3>2
  <2> QED BY <2>2, <2>4, <2>6, <2>7 DEF KnownAt
<1> QED BY <1>5, <1>6

\* Steps of others leave it as it is.
LEMMA KnownStays ==
  ASSUME SockInv, PlaceInv, VisitsStay, KnownInv,
         UNCHANGED <<m_session2Ctx, m_timerId2Info, m_session2User>>,
         \A c \in C2s : \A s \in Conns : Sees(c, s)' => Sees(c, s) /\ down'[s] = down[s]
  PROVE  KnownInv'
<1> SUFFICES ASSUME NEW c \in C2s, NEW s \in Conns, Sees(c, s)', NEW k \in AtNode(c)', Lone(k)'
             PROVE  KnownAt(c, s, k)'
    BY DEF KnownInv
<1>1. k \in AtNode(c) /\ Sees(c, s) /\ down'[s] = down[s]
    BY DEF AtNode
<1>2. k \in Conns /\ visit[k].user # None
    BY <1>1, NamesAssumption DEF SockInv, PlaceInv, NodeFits
<1>3. Lone(k) /\ visit'[k] = visit[k]
    BY <1>2, LoneStays
<1>4. KnownAt(c, s, k)
    BY <1>1, <1>3 DEF KnownInv
<1>5. ASSUME NEW u, NEW i, Vouched(s, u, i) PROVE Vouched(s, u, i)'
    BY <1>1, <1>5 DEF Vouched, Kicked, IsKick
<1>6. PICK u : u = visit[k].user
    OBVIOUS
<1> QED BY <1>1, <1>3, <1>4, <1>5, <1>6 DEF KnownAt, IsDone

\* KnownInv holds in every state.
LEMMA KnownInvariance == Spec => []KnownInv
<1>1. Init => KnownInv
  <2>1. Init => DOMAIN m_session2Ctx = {}
      BY DEF Init, ServerInit
  <2> QED BY <2>1 DEF KnownInv, Sees
<1>2. /\ IndexInv /\ C2sInv /\ SockInv /\ UplinkInv /\ UplinkInv' /\ PlaceInv /\ OwnInv
      /\ LogoutInv /\ MuteInv /\ KnownInv /\ [Next]_vars
      => KnownInv'
  <2> SUFFICES ASSUME IndexInv, C2sInv, SockInv, UplinkInv, UplinkInv', PlaceInv, OwnInv,
                      LogoutInv, MuteInv, KnownInv, [Next]_vars
               PROVE  KnownInv'
      OBVIOUS
  <2>a. VisitsStay
      BY VisitorsStay
  <2>b. next \notin DOMAIN m_session2Ctx /\ DOMAIN m_msgClient = C2s
      BY DEF IndexInv, Fresh, UplinkInv, LinkShape
  <2>1. CASE UNCHANGED vars
      BY <2>1, <2>a, KnownStays DEF vars, linkVars, serverVars, c2sVars, Sees
  <2>2. CASE ServerNext /\ UNCHANGED c2sVars
      BY <2>2, ServerKnown
  <2>3. ASSUME NEW c \in C2s, C2sNext(c), UNCHANGED serverVars PROVE KnownInv'
      BY <2>3, <2>a, NodeKnown
  <2>4. ASSUME NEW c \in C2s, Connect(c) PROVE KnownInv'
    <3>1. /\ UNCHANGED <<m_session2Ctx, m_timerId2Info, m_session2User, down, lost>>
          /\ m_msgClient' = [m_msgClient EXCEPT ![c] = next]
        BY <2>4 DEF Connect
    <3>2. \A e \in C2s : \A s \in Conns : Sees(e, s)' => Sees(e, s) /\ down'[s] = down[s]
        BY <2>b, <3>1 DEF Sees
    <3> QED BY <2>a, <3>1, <3>2, KnownStays
  <2>5. ASSUME NEW u \in Users, ClientConnect(u) PROVE KnownInv'
    <3>1. UNCHANGED <<m_session2Ctx, m_timerId2Info, m_session2User, down, lost, m_msgClient>>
        BY <2>5 DEF ClientConnect, c2sVars
    <3> QED BY <2>a, <3>1, KnownStays DEF Sees
  <2>6. ASSUME NEW k \in Conns, ClientRecv(k) \/ \E u \in Ids : ClientSend(k, u) PROVE KnownInv'
    <3>1. /\ visit[k].user \in Users
          /\ UNCHANGED <<m_session2Ctx, m_timerId2Info, m_session2User, lost, m_msgClient>>
        BY <2>6 DEF ClientRecv, ClientSend, ClientConns, c2sVars, serverVars
    <3>2. \A t \in Conns : t # k => down'[t] = down[t]
        BY <2>6 DEF ClientRecv, ClientSend, UplinkInv, LinkShape, IsQueue
    <3>3. ASSUME NEW c \in C2s, NEW s \in Conns, Sees(c, s)' PROVE Sees(c, s) /\ down'[s] = down[s]
      <4>1. Sees(c, s)
          BY <3>1, <3>3 DEF Sees
      <4>2. visit[s].user = c
          BY <4>1, SeenIsOwn
      <4>3. s # k
          BY <3>1, <4>2, NamesAssumption
      <4> QED BY <3>2, <4>1, <4>3
    <3> QED BY <2>a, <3>1, <3>3, KnownStays
  <2> QED BY <2>1, <2>2, <2>3, <2>4, <2>5, <2>6 DEF Next
<1> QED BY <1>1, <1>2, IndexInvariance, C2sInvariance, SockInvariance, UplinkInvariance,
           PlaceInvariance, OwnInvariance, LogoutInvariance, MuteInvariance, PTL DEF Spec

(***************************************************************************)
(* The converse, for every number of nodes, users, connections and calls:  *)
(* when nothing is under way between a C2S and the server and nothing was  *)
(* refused, a user logged in at the C2S by the only connection it has made *)
(* there is known to the server as behind that C2S.  No kickout, no login  *)
(* elsewhere and no late logout of another C2S takes it away unsaid.       *)
(***************************************************************************)
THEOREM KnownCorrect == Spec => []LoggedInIsKnown
<1>1. SockInv /\ OwnInv /\ KnownInv => LoggedInIsKnown
  <2> SUFFICES ASSUME SockInv, OwnInv, KnownInv, NEW c \in C2s, Quiet(c), NEW k \in DOMAIN m_session2User[c],
                      \A j \in Conns \ {k} : visit[j] # visit[k]
               PROVE  m_session2User[c][k] \in m_session2Ctx[m_msgClient[c]].subs
      BY DEF LoggedInIsKnown
  <2>1. PICK s : s = m_msgClient[c]
      OBVIOUS
  <2>2. s \in Conns /\ Sees(c, s) /\ down[s] = <<>>
      BY <2>1 DEF Quiet, Sees, SockInv, AtServer
  <2>3. k \in AtNode(c) /\ Lone(k)
      BY DEF AtNode, Lone
  <2>4. Vouched(s, visit[k].user, 0)
      BY <2>2, <2>3 DEF KnownInv, KnownAt
  <2>5. visit[k].user = m_session2User[c][k]
      BY DEF OwnInv, TablesOwn, Own
  <2>6. ~Kicked(s, visit[k].user, 0)
      BY <2>2 DEF Kicked
  <2> QED BY <2>1, <2>4, <2>5, <2>6 DEF Vouched
<1> QED BY <1>1, SockInvariance, OwnInvariance, KnownInvariance, PTL
-----------------------------------------------------------------------------
(***************************************************************************)
(* TypeInv: types.                                                         *)
(***************************************************************************)

\* The packets that are made.
LEMMA PacketTypes ==
  ASSUME NEW x \in Ids \cup {Root}
  PROVE  /\ \A u \in Ids : Data(x, u) \in UpMsgs \cap DownMsgs /\ Response(u) \in DownMsgs
         /\ \A u \in Users : Logout(x, u) \in UpMsgs /\ Kickout(u) \in DownMsgs
         /\ \A u \in Users, k \in Conns : Login(x, k, u) \in UpMsgs /\ LoginOk(k, u) \in DownMsgs
         /\ \A k \in Conns : LoginError(k) \in DownMsgs
<1>1. \A u \in Ids : Data(x, u) \in UpMsgs \cap DownMsgs /\ Response(u) \in DownMsgs
    BY DEF Data, Response, UpMsgs, DownMsgs
<1>2. \A u \in Users : Logout(x, u) \in UpMsgs /\ Kickout(u) \in DownMsgs
    BY DEF Logout, Kickout, UpMsgs, DownMsgs
<1>3. \A u \in Users, k \in Conns : Login(x, k, u) \in UpMsgs /\ LoginOk(k, u) \in DownMsgs
    BY DEF Login, LoginOk, UpMsgs, DownMsgs
<1>4. \A k \in Conns : LoginError(k) \in DownMsgs
    BY DEF LoginError, DownMsgs
<1> QED BY <1>1, <1>2, <1>3, <1>4

\* What a packet that is received says.
LEMMA UpContent ==
  ASSUME NEW m \in UpMsgs
  PROVE  /\ m.src \in Ids \cup {Root}
         /\ m.type \in {"login", "logout"} => m.user \in Users
         /\ m.type = "login" => m.index \in Conns
         /\ m.type = "data" => m \in DownMsgs /\ m.dst \in Ids
BY DEF UpMsgs, DownMsgs

\* The same for a packet from the server.
LEMMA DownContent ==
  ASSUME NEW m \in DownMsgs
  PROVE  /\ m.src \in Ids \cup {Root}
         /\ m.type \in {"login_ok", "kickout"} => m.user \in Users
         /\ m.type \in {"login_ok", "login_error"} => m.index \in Conns
         /\ m.type = "data" => m.dst \in Ids
<1>1. Root \in Ids \cup {Root} /\ \A u \in Ids : u \in Ids \cup {Root}
    OBVIOUS
<1> QED BY <1>1 DEF DownMsgs

\* What a command that is executed says.
LEMMA CommandContent ==
  ASSUME NEW e \in Commands
  PROVE  /\ e.cmd = "accept" => e.conn \in Conns /\ e.user \in Ids
         /\ e.cmd = "recv" => e.conn \in Conns /\ e.msg \in UpMsgs /\ e.c2s \in C2s
         /\ e.cmd = "close" => e.conn \in Conns
         /\ e.cmd = "kickout" => e.user \in Ids
BY DEF Commands

\* The commands that are posted.
LEMMA CommandTypes ==
  /\ \A k \in Conns, u \in Ids : [cmd |-> "accept", conn |-> k, user |-> u] \in Commands
  /\ \A k \in Conns, m \in UpMsgs, c \in C2s :
       [cmd |-> "recv", conn |-> k, msg |-> m, c2s |-> c] \in Commands
  /\ \A k \in Conns : [cmd |-> "close", conn |-> k] \in Commands
  /\ \A u \in Ids : [cmd |-> "kickout", user |-> u] \in Commands
BY DEF Commands

\* Sending keeps what is under way packets.
LEMMA SendTyped ==
  ASSUME NEW T, NEW q \in [Conns -> Seq(T)], NEW pk, \A k \in DOMAIN pk : pk[k] \in T
  PROVE  Send(q, pk) \in [Conns -> Seq(T)]
<1>1. \A k \in Conns : (IF k \in DOMAIN pk /\ ~Full(q, k) THEN Append(q[k], pk[k]) ELSE q[k]) \in Seq(T)
    OBVIOUS
<1> QED BY <1>1 DEF Send

\* So does discarding,
LEMMA DiscardTyped ==
  ASSUME NEW T, NEW q \in [Conns -> Seq(T)], NEW S
  PROVE  Discard(q, S) \in [Conns -> Seq(T)]
<1>1. \A k \in Conns : (IF k \in S THEN <<>> ELSE q[k]) \in Seq(T)
    OBVIOUS
<1> QED BY <1>1 DEF Discard

\* and taking the oldest.
LEMMA PopTyped ==
  ASSUME NEW T, NEW q \in [Conns -> Seq(T)], NEW k \in Conns, q[k] # <<>>
  PROVE  [q EXCEPT ![k] = Tail(@)] \in [Conns -> Seq(T)] /\ Head(q[k]) \in T
OBVIOUS
-----------------------------------------------------------------------------
\* Membership is true or false.
LEMMA IsBoolean == \A x, S, y : y = (x \in S) => y \in BOOLEAN
OBVIOUS

\* The part of TypeOK that the other invariants imply.
LEMMA TableTypes ==
  ASSUME IndexInv, SockInv, PlaceInv, OwnInv
  PROVE  /\ DOMAIN m_session2Ctx \subseteq Conns /\ fini \subseteq Conns
         /\ \A s \in DOMAIN m_session2Ctx : m_session2Ctx[s] \in Contexts
         /\ DOMAIN m_user2Ctx \subseteq Ids
         /\ \A u \in DOMAIN m_user2Ctx : m_user2Ctx[u] \in Conns
         /\ \A u : IsSub(u) => u \in Users
<1>1. DOMAIN m_session2Ctx \subseteq Conns /\ fini \subseteq Conns
    BY DEF SockInv, AtServer
<1>2. ASSUME NEW s \in DOMAIN m_session2Ctx PROVE m_session2Ctx[s] \in Contexts
  <2>1. m_session2Ctx[s] = [base |-> m_session2Ctx[s].base, subs |-> m_session2Ctx[s].subs,
                            isC2s |-> m_session2Ctx[s].isC2s]
      BY DEF IndexInv, Agree, IsCtx
  <2>a. /\ m_session2Ctx[s].base \in Ids
        /\ m_session2Ctx[s].isC2s = (m_session2Ctx[s].base \in C2s)
      BY Zenon DEF PlaceInv, CtxFits
  <2>2. m_session2Ctx[s].base \in Ids /\ m_session2Ctx[s].isC2s \in BOOLEAN
      BY <2>a, IsBoolean, Zenon
  <2>3. m_session2Ctx[s].subs \subseteq Users
      BY DEF OwnInv, SubsFit
  <2> QED BY <2>1, <2>2, <2>3 DEF Contexts
<1>3. ASSUME NEW u \in DOMAIN m_user2Ctx
      PROVE  u \in Ids /\ m_user2Ctx[u] \in Conns /\ (IsSub(u) => u \in Users)
  <2>1. m_user2Ctx[u] \in DOMAIN m_session2Ctx /\ u \in Ctx(u).subs \cup {Ctx(u).base}
      BY DEF IndexInv, Agree, Ctx
  <2>2. Ctx(u).subs \subseteq Users /\ Ctx(u).base \in Ids
      BY <2>1, <1>2 DEF Ctx, Contexts
  <2> QED BY <1>1, <2>1, <2>2 DEF IsSub, Ids
<1> QED BY <1>1, <1>2, <1>3 DEF IsSub, Known

\* The same for the tables of a node.
LEMMA NodeTableTypes ==
  ASSUME C2sInv, SockInv, OwnInv, NEW c \in C2s
  PROVE  /\ AtNode(c) \subseteq Conns
         /\ \A k \in DOMAIN m_timerId2Info[c] : m_timerId2Info[c][k] \in Users
         /\ \A k \in DOMAIN m_session2User[c] : m_session2User[c][k] \in Users
         /\ \A u \in DOMAIN m_user2Session[c] :
              u \in Users /\ m_user2Session[c][u] \in DOMAIN m_session2User[c]
<1>1. AtNode(c) \subseteq Conns
    BY DEF SockInv
<1>2. /\ \A k \in DOMAIN m_timerId2Info[c] : m_timerId2Info[c][k] \in Users
      /\ \A k \in DOMAIN m_session2User[c] : m_session2User[c][k] \in Users
    BY DEF OwnInv, TablesOwn, Own
<1>3. \A u \in DOMAIN m_user2Session[c] :
        m_user2Session[c][u] \in DOMAIN m_session2User[c] /\ m_session2User[c][m_user2Session[c][u]] = u
    BY DEF C2sInv, NodeInv, Inverses
<1> QED BY <1>1, <1>2, <1>3

\* Types of everything, from all invariants.
LEMMA TypesFollow ==
  ASSUME IndexInv, OnlineInv, C2sInv, SockInv, UplinkInv, PlaceInv, OwnInv, TypeInv
  PROVE  TypeOK
<1>1. LinkTypeOK
  <2>1. next \in 1..MaxInputs + 1 /\ calls \in 0..MaxInputs
      BY BoundsAssumption DEF TypeInv, LinkInv, SockInv
  <2>2. left \subseteq Conns
      BY DEF UplinkInv
  <2> QED BY <2>1, <2>2 DEF LinkTypeOK, TypeInv, LinkInv, PacketInv
<1>2. ServerTypeOK
  <2>1. Cardinality(rsp) <= 1
      BY FS_EmptySet, FS_Singleton DEF OnlineInv, OnePending
  <2> QED BY <2>1, TableTypes DEF ServerTypeOK, TypeInv, CommandInv, Rsps
<1>3. C2sTypeOK
    BY NodeTableTypes DEF C2sTypeOK, TypeInv, NodesInv, AtNode
<1> QED BY <1>1, <1>2, <1>3 DEF TypeOK

-----------------------------------------------------------------------------
\* DeleteSessions with packets pk.
LEMMA DeleteTyped ==
  ASSUME LinkInv, PacketInv, NEW S, NEW pk, DOMAIN pk \subseteq Conns,
         \A k \in DOMAIN pk : pk[k] \in DownMsgs,
         DeleteSessions(S, pk), UNCHANGED <<next, visit, calls>>
  PROVE  LinkInv' /\ PacketInv'
<1>1. sock' \in [Conns -> {"free", "open", "closed"}]
    BY DEF DeleteSessions, CloseSock, LinkInv
<1>2. ident' \in [Conns -> Ids \cup {Root, None}]
    BY DEF DeleteSessions, Forget, LinkInv
<1>3. up' \in [Conns -> Seq(UpMsgs)]
    BY DiscardTyped DEF DeleteSessions, PacketInv
<1>4. DOMAIN Heard(pk) \subseteq Conns /\ \A k \in DOMAIN Heard(pk) : Heard(pk)[k] \in DownMsgs
    BY DEF Heard
<1>5. Discard(down, Clients(S)) \in [Conns -> Seq(DownMsgs)]
    BY DiscardTyped DEF PacketInv
<1>6. down' \in [Conns -> Seq(DownMsgs)]
    BY <1>4, <1>5, SendTyped DEF DeleteSessions
<1>7. lost' \subseteq Conns
    BY <1>4 DEF DeleteSessions, Refused, PacketInv
<1> QED BY <1>1, <1>2, <1>3, <1>6, <1>7 DEF LinkInv, PacketInv

\* SendDown of packets pk.
LEMMA SendDownTyped ==
  ASSUME PacketInv, NEW pk, DOMAIN pk \subseteq Conns, \A k \in DOMAIN pk : pk[k] \in DownMsgs,
         SendDown(pk), up' \in [Conns -> Seq(UpMsgs)]
  PROVE  PacketInv'
<1>1. DOMAIN Heard(pk) \subseteq Conns /\ \A k \in DOMAIN Heard(pk) : Heard(pk)[k] \in DownMsgs
    BY DEF Heard
<1>2. down' \in [Conns -> Seq(DownMsgs)]
    BY <1>1, SendTyped DEF SendDown, PacketInv
<1>3. lost' \subseteq Conns
    BY <1>1 DEF SendDown, Refused, PacketInv
<1> QED BY <1>2, <1>3 DEF PacketInv

\* A node closes connections S and sends pk up.
LEMMA CloseTyped ==
  ASSUME LinkInv, PacketInv, NEW S, NEW pk, DOMAIN pk \subseteq Conns,
         \A k \in DOMAIN pk : pk[k] \in UpMsgs,
         Close(S, pk), UNCHANGED <<next, visit>>, next + calls' <= MaxInputs + 1,
         down' \in [Conns -> Seq(DownMsgs)]
  PROVE  LinkInv' /\ PacketInv'
<1>1. sock' \in [Conns -> {"free", "open", "closed"}]
    BY DEF Close, CloseSock, LinkInv
<1>2. ident' \in [Conns -> Ids \cup {Root, None}]
    BY DEF Close, Forget, LinkInv
<1>3. Discard(up, S) \in [Conns -> Seq(UpMsgs)]
    BY DiscardTyped DEF PacketInv
<1>4. up' \in [Conns -> Seq(UpMsgs)]
    BY <1>3, SendTyped DEF Close
<1>5. lost' \subseteq Conns
    BY DEF Close, Refused, PacketInv
<1> QED BY <1>1, <1>2, <1>4, <1>5 DEF LinkInv, PacketInv

\* A connection that is made.
LEMMA DialTyped ==
  ASSUME LinkInv, SockInv, NEW u \in Ids, NEW n \in Server, NEW accepted \in BOOLEAN,
         Dial(u, n, accepted), UNCHANGED <<calls, ident>>
  PROVE  LinkInv' /\ next \in Conns
<1>1. next \in Conns /\ next' + calls' <= MaxInputs + 1
    BY BoundsAssumption DEF Dial, SockInv, Conns
<1>2. visit' \in [Conns -> [user : Ids \cup {None}, at : Server]]
    BY <1>1 DEF Dial, LinkInv
<1>3. sock' \in [Conns -> {"free", "open", "closed"}]
    BY <1>1 DEF Dial, LinkInv
<1> QED BY <1>1, <1>2, <1>3 DEF LinkInv
-----------------------------------------------------------------------------
\* A command posted, and one taken.
LEMMA TaskTyped ==
  ASSUME task \in Seq(Commands)
  PROVE  /\ \A e \in Commands : Append(task, e) \in Seq(Commands)
         /\ task # <<>> => Head(task) \in Commands /\ Tail(task) \in Seq(Commands)
OBVIOUS

\* The notice of a kickout goes to a node, about a client.
LEMMA NotifyTyped ==
  ASSUME IndexInv, SockInv, PlaceInv, OwnInv, NEW u, NEW told
  PROVE  /\ DOMAIN Notify(u, told) \subseteq Conns
         /\ \A k \in DOMAIN Notify(u, told) : Notify(u, told)[k] \in DownMsgs
<1>1. IsSub(u) => u \in Users /\ u \in DOMAIN m_user2Ctx /\ m_user2Ctx[u] \in Conns
    BY TableTypes DEF IsSub, Known
<1>2. u \in Users => Kickout(u) \in DownMsgs
    BY PacketTypes
<1> QED BY <1>1, <1>2 DEF Notify

\* The calls and callbacks of the server.
LEMMA ServerCallTyped ==
  ASSUME IndexInv, SockInv, UplinkInv, PlaceInv, OwnInv, TypeInv,
         \/ \E u \in Ids : KickoutUser(u) \/ SendMsg(u)
         \/ \E s \in Conns : OnRecvSession(s) \/ OnCloseSession(s)
         \/ Respond \/ Fini
  PROVE  LinkInv' /\ PacketInv' /\ CommandInv'
<1>0. LinkInv /\ PacketInv /\ CommandInv
    BY DEF TypeInv
<1>c. Call => next + calls' <= MaxInputs + 1
    BY BoundsAssumption DEF Call, SockInv
<1>1. ASSUME NEW u \in Ids, KickoutUser(u) PROVE LinkInv' /\ PacketInv' /\ CommandInv'
  <2>1. task' \in Seq(Commands)
      BY <1>0, <1>1, TaskTyped, CommandTypes DEF KickoutUser, CommandInv
  <2> QED BY <1>0, <1>1, <1>c, <2>1 DEF KickoutUser, LinkInv, PacketInv, CommandInv
<1>2. ASSUME NEW u \in Ids, SendMsg(u) PROVE LinkInv' /\ PacketInv' /\ CommandInv'
  <2>1. Data(Root, u) \in DownMsgs
      BY PacketTypes
  <2>2. m_user2Ctx[u] \in Conns
      BY <1>2, TableTypes DEF SendMsg, Known
  <2>3. PacketInv'
      BY <1>0, <1>2, <2>1, <2>2, SendDownTyped DEF SendMsg, PacketInv
  <2> QED BY <1>0, <1>2, <1>c, <2>3 DEF SendMsg, serverVars, LinkInv, CommandInv
<1>3. ASSUME NEW s \in Conns, OnRecvSession(s) PROVE LinkInv' /\ PacketInv' /\ CommandInv'
  <2> DEFINE m   == Head(up[s])
             ctx == m_session2Ctx[s]
             ok  == m.src = ctx.base \/ m.src \in ctx.subs
             c2s == ok /\ ctx.isC2s /\ m.src = ctx.base /\ m.src \in Server
             pk  == [t \in IF ok /\ m.type = "data" /\ Known(m.dst)
                             THEN {m_user2Ctx[m.dst]} ELSE {} |-> m]
  <2>1. s \in DOMAIN m_session2Ctx /\ up[s] # <<>> /\ up' = [up EXCEPT ![s] = Tail(@)]
      BY <1>3 DEF OnRecvSession
  <2>2. up' \in [Conns -> Seq(UpMsgs)] /\ m \in UpMsgs
      BY <1>0, <2>1, PopTyped DEF PacketInv
  <2>3. \A t \in DOMAIN pk : t \in Conns /\ pk[t] \in DownMsgs
      BY <2>2, UpContent, TableTypes DEF Known
  <2>4. SendDown(pk)
      BY <1>3 DEF OnRecvSession
  <2> HIDE DEF pk
  <2>5. PacketInv'
      BY <1>0, <2>2, <2>3, <2>4, SendDownTyped
  <2>6. c2s => m.src \in C2s
      BY <2>1, NamesAssumption DEF PlaceInv, CtxFits, Server, Ids
  <2>7. c2s => [cmd |-> "recv", conn |-> s, msg |-> m, c2s |-> m.src] \in Commands
      BY <2>2, <2>6, CommandTypes
  <2>8. \/ task' = task
        \/ c2s /\ task' = Append(task, [cmd |-> "recv", conn |-> s, msg |-> m, c2s |-> m.src])
      BY <1>3 DEF OnRecvSession
  <2>9. task' \in Seq(Commands)
      BY <1>0, <2>7, <2>8, TaskTyped DEF CommandInv
  <2> QED BY <1>0, <1>3, <2>5, <2>9 DEF OnRecvSession, LinkInv, CommandInv
<1>4. ASSUME NEW s \in Conns, OnCloseSession(s) PROVE LinkInv' /\ PacketInv' /\ CommandInv'
  <2>1. task' \in Seq(Commands)
      BY <1>0, <1>4, TaskTyped, CommandTypes DEF OnCloseSession, CommandInv
  <2> QED BY <1>0, <1>4, <2>1 DEF OnCloseSession, linkVars, LinkInv, PacketInv, CommandInv
<1>5. ASSUME Respond PROVE LinkInv' /\ PacketInv' /\ CommandInv'
  <2>1. PICK r \in rsp : SendDown([s \in {r.conn} |-> r.msg])
                         /\ online' = IF alive THEN online \cup {r.user} ELSE online
      BY <1>5 DEF Respond
  <2>2. r.conn \in Conns /\ r.msg \in DownMsgs /\ r.user \in Ids
      BY <1>0, <2>1 DEF CommandInv, Rsps
  <2>3. PacketInv'
      BY <1>0, <1>5, <2>1, <2>2, SendDownTyped DEF Respond, PacketInv
  <2>4. online' \subseteq Ids
      BY <1>0, <2>1, <2>2 DEF CommandInv
  <2> QED BY <1>0, <1>5, <2>3, <2>4 DEF Respond, LinkInv, CommandInv
<1>6. ASSUME Fini PROVE LinkInv' /\ PacketInv' /\ CommandInv'
    BY <1>0, <1>6, <1>c DEF Fini, LinkInv, PacketInv, CommandInv
<1> QED BY <1>1, <1>2, <1>3, <1>4, <1>5, <1>6

\* The commands of the server.
LEMMA CommandTyped ==
  ASSUME IndexInv, SockInv, PlaceInv, OwnInv, TypeInv,
         \/ RejectSession \/ AddBaseUser \/ LoginRefused \/ AddSubUser \/ ClientLogout
         \/ AsyncOnCloseSession \/ AsyncKickoutUser \/ DrainCommand \/ FiniSessions
  PROVE  LinkInv' /\ PacketInv' /\ CommandInv'
<1>0. LinkInv /\ PacketInv /\ CommandInv
    BY DEF TypeInv
<1>c. ASSUME NEW c, Command(c)
      PROVE  Head(task) \in Commands /\ Head(task).cmd = c /\ task' \in Seq(Commands)
    BY <1>0, <1>c, TaskTyped DEF Command, CommandInv
<1>n. ASSUME task' \in Seq(Commands), Nothing, alive' = alive PROVE LinkInv' /\ PacketInv' /\ CommandInv'
    BY <1>0, <1>n DEF Nothing, linkVars, LinkInv, PacketInv, CommandInv
<1>e. ASSUME NEW S, DeleteSessions(S, <<>>), UNCHANGED <<next, visit, calls>>
      PROVE  LinkInv' /\ PacketInv'
  <2>1. DOMAIN <<>> \subseteq Conns /\ \A k \in DOMAIN <<>> : <<>>[k] \in DownMsgs
      OBVIOUS
  <2> HIDE DEF DeleteSessions
  <2> QED BY <1>0, <1>e, <2>1, DeleteTyped
<1>1. ASSUME RejectSession PROVE LinkInv' /\ PacketInv' /\ CommandInv'
  <2>1. sock' \in [Conns -> {"free", "open", "closed"}]
      BY <1>0, <1>1 DEF RejectSession, CloseSock, LinkInv
  <2> QED BY <1>0, <1>1, <1>c, <2>1 DEF RejectSession, LinkInv, PacketInv, CommandInv
<1>2. ASSUME AddBaseUser PROVE LinkInv' /\ PacketInv' /\ CommandInv'
  <2> DEFINE s == Head(task).conn
             u == Head(task).user
  <2>1. s \in Conns /\ u \in Ids /\ task' \in Seq(Commands)
      BY <1>2, <1>c, CommandContent DEF AddBaseUser
  <2>2. LinkInv' /\ PacketInv'
      BY <1>0, <1>2, DeleteTyped, NotifyTyped DEF AddBaseUser
  <2>3. Response(u) \in DownMsgs
      BY <2>1, PacketTypes
  <2>4. rsp' = {[conn |-> s, msg |-> Response(u), user |-> u]} /\ online' \subseteq online /\ alive' = alive
      BY <1>2 DEF AddBaseUser
  <2> HIDE DEF s, u
  <2>5. rsp' \subseteq Rsps
      BY <2>1, <2>3, <2>4 DEF Rsps
  <2> QED BY <1>0, <2>1, <2>2, <2>4, <2>5 DEF CommandInv
<1>3. ASSUME LoginRefused PROVE LinkInv' /\ PacketInv' /\ CommandInv'
  <2> DEFINE c == Head(task)
             pk == [s \in {c.conn} \cap DOMAIN m_session2Ctx |-> LoginError(c.msg.index)]
  <2>1. c.conn \in Conns /\ c.msg \in UpMsgs /\ task' \in Seq(Commands)
      BY <1>3, <1>c, CommandContent DEF LoginRefused
  <2>2. c.msg.index \in Conns
      BY <1>3, <2>1, UpContent DEF LoginRefused
  <2>3. DOMAIN pk \subseteq Conns /\ \A k \in DOMAIN pk : pk[k] \in DownMsgs
      BY <2>1, <2>2, PacketTypes
  <2>4. SendDown(pk) /\ up' = up
      BY <1>3 DEF LoginRefused
  <2> HIDE DEF pk
  <2>5. PacketInv'
      BY <1>0, <2>3, <2>4, SendDownTyped DEF PacketInv
  <2> QED BY <1>0, <1>3, <2>1, <2>5 DEF LoginRefused, LinkInv, CommandInv
<1>4. ASSUME AddSubUser PROVE LinkInv' /\ PacketInv' /\ CommandInv'
  <2>1. task' \in Seq(Commands) /\ alive' = alive
      BY <1>4, <1>c DEF AddSubUser
  <2>2. CASE Nothing
      BY <1>n, <2>1, <2>2
  <2>3. CASE ~Nothing
    <3> DEFINE m == Head(task).msg
               u == m.user
               k == m.index
               s == m_user2Ctx[Head(task).c2s]
    <3>1. /\ Known(Head(task).c2s)
          /\ \E told : DeleteSessions(Dead(u), Notify(u, told))
          /\ online' \subseteq online
          /\ rsp' = {[conn |-> s, msg |-> LoginOk(k, u), user |-> u]}
          /\ UNCHANGED <<next, visit, calls>>
        BY <1>4, <2>3 DEF AddSubUser
    <3>2. m \in UpMsgs /\ m.type = "login"
        BY <1>4, <1>c, CommandContent DEF AddSubUser
    <3>3. u \in Users /\ k \in Conns
        BY <3>2, UpContent
    <3>4. s \in Conns
        BY <3>1, TableTypes DEF Known
    <3>5. LoginOk(k, u) \in DownMsgs /\ u \in Ids
        BY <3>3, PacketTypes DEF Ids
    <3> HIDE DEF s, u, k
    <3>6. rsp' \subseteq Rsps
        BY <3>1, <3>4, <3>5 DEF Rsps
    <3>7. LinkInv' /\ PacketInv'
        BY <1>0, <3>1, DeleteTyped, NotifyTyped
    <3> QED BY <1>0, <2>1, <3>1, <3>6, <3>7 DEF CommandInv
  <2> QED BY <2>2, <2>3
<1>5. ASSUME ClientLogout PROVE LinkInv' /\ PacketInv' /\ CommandInv'
  <2>1. task' \in Seq(Commands) /\ alive' = alive
      BY <1>5, <1>c DEF ClientLogout
  <2>2. CASE Nothing
      BY <1>n, <2>1, <2>2
  <2>3. CASE ~Nothing
    <3>1. online' \subseteq online /\ UNCHANGED <<linkVars, rsp>>
        BY <1>5, <2>3 DEF ClientLogout
    <3> QED BY <1>0, <2>1, <3>1 DEF linkVars, LinkInv, PacketInv, CommandInv
  <2> QED BY <2>2, <2>3
<1>6. ASSUME AsyncOnCloseSession PROVE LinkInv' /\ PacketInv' /\ CommandInv'
  <2>1. task' \in Seq(Commands) /\ alive' = alive
      BY <1>6, <1>c DEF AsyncOnCloseSession
  <2>2. CASE Nothing
      BY <1>n, <2>1, <2>2
  <2>3. CASE ~Nothing
    <3>1. /\ online' \subseteq online /\ DeleteSessions({Head(task).conn}, <<>>)
          /\ UNCHANGED <<next, visit, calls, rsp>>
        BY <1>6, <2>3 DEF AsyncOnCloseSession
    <3>2. LinkInv' /\ PacketInv'
        BY <1>e, <3>1
    <3> QED BY <1>0, <2>1, <3>1, <3>2 DEF CommandInv
  <2> QED BY <2>2, <2>3
<1>7. ASSUME AsyncKickoutUser PROVE LinkInv' /\ PacketInv' /\ CommandInv'
  <2>1. task' \in Seq(Commands)
      BY <1>7, <1>c DEF AsyncKickoutUser
  <2>2. LinkInv' /\ PacketInv'
      BY <1>0, <1>7, DeleteTyped, NotifyTyped DEF AsyncKickoutUser
  <2> QED BY <1>0, <1>7, <2>1, <2>2 DEF AsyncKickoutUser, CommandInv
<1>8. ASSUME DrainCommand PROVE LinkInv' /\ PacketInv' /\ CommandInv'
    BY <1>8, <1>c, <1>n DEF DrainCommand
<1>9. ASSUME FiniSessions PROVE LinkInv' /\ PacketInv' /\ CommandInv'
  <2>1. LinkInv' /\ PacketInv'
      BY <1>9, <1>e DEF FiniSessions
  <2> QED BY <1>0, <1>9, <2>1 DEF FiniSessions, CommandInv
<1> QED BY <1>1, <1>2, <1>3, <1>4, <1>5, <1>6, <1>7, <1>8, <1>9
-----------------------------------------------------------------------------
\* What a node has: its uplink, the next packet of it.
LEMMA UplinkTyped ==
  ASSUME UplinkInv, TypeInv, NEW c \in C2s, NEW T, Uplink(c, T)
  PROVE  /\ m_msgClient[c] \in Conns /\ Msg(c) \in DownMsgs /\ Msg(c).type \in T
         /\ Popped(c) \in [Conns -> Seq(DownMsgs)] /\ report[c] = {}
<1>1. m_msgClient[c] \in Conns
    BY DEF Uplink, UplinkInv, IsUplink
<1>2. down[m_msgClient[c]] # <<>> /\ down \in [Conns -> Seq(DownMsgs)]
    BY DEF Uplink, TypeInv, PacketInv
<1>3. [down EXCEPT ![m_msgClient[c]] = Tail(@)] \in [Conns -> Seq(DownMsgs)]
      /\ Head(down[m_msgClient[c]]) \in DownMsgs
    BY <1>1, <1>2, PopTyped
<1> QED BY <1>1, <1>3 DEF Uplink, Msg, Popped, Upcall

\* The logout that a node reports.
LEMMA ReportTyped ==
  ASSUME UplinkInv, PlaceInv, TypeInv, NEW c \in C2s, NEW u \in Users, AtNode(c) # {} \/ report[c] # {}
  PROVE  /\ DOMAIN ReportLogout(c, u) \subseteq Conns
         /\ \A s \in DOMAIN ReportLogout(c, u) : ReportLogout(c, u)[s] \in UpMsgs
<1> SUFFICES ASSUME NEW s \in DOMAIN ReportLogout(c, u)
             PROVE  s \in Conns /\ ReportLogout(c, u)[s] \in UpMsgs
    OBVIOUS
<1>1. s = m_msgClient[c] /\ s # 0 /\ ReportLogout(c, u)[s] = Logout(ident[s], u)
    BY DEF ReportLogout
<1>2. s \in Conns /\ ident[s] # None
    BY <1>1 DEF UplinkInv, IsUplink, PlaceInv, Linked
<1>3. ident[s] \in Ids \cup {Root}
    BY <1>2 DEF TypeInv, LinkInv
<1> QED BY <1>1, <1>2, <1>3, PacketTypes

\* A node that closes connections and reports nothing.
LEMMA SilentClose ==
  ASSUME LinkInv, PacketInv, NEW S, Close(S, <<>>), UNCHANGED <<next, visit, calls>>,
         down' \in [Conns -> Seq(DownMsgs)]
  PROVE  LinkInv' /\ PacketInv'
<1>1. DOMAIN <<>> \subseteq Conns /\ \A k \in DOMAIN <<>> : <<>>[k] \in UpMsgs
    OBVIOUS
<1>2. next + calls' <= MaxInputs + 1
    BY DEF LinkInv
<1> HIDE DEF Close
<1> QED BY <1>1, <1>2, CloseTyped

\* A node accepts a connection, and asks the server.
LEMMA AcceptTyped ==
  ASSUME SockInv, UplinkInv, TypeInv, NEW c \in C2s, NEW u \in Users, C2sAcceptSession(c, u)
  PROVE  LinkInv' /\ PacketInv' /\ NodesInv'
<1> DEFINE k == next
           s == m_msgClient[c]
           accept == /\ c \in serving /\ C2sUser(c) # None /\ u # C2sUser(c)
                     /\ Cardinality(DOMAIN m_timerId2Info[c]) < MaxPendingC2s
                     /\ ~Full(up, s)
           pk == [t \in IF accept THEN {s} ELSE {} |-> Login(ident[t], k, u)]
<1>0. LinkInv /\ PacketInv /\ NodesInv
    BY DEF TypeInv
<1>1. Dial(u, c, accept) /\ up' = Send(up, pk) /\ UNCHANGED <<calls, ident, down, lost>>
    BY DEF C2sAcceptSession
<1>2. accept \in BOOLEAN /\ u \in Ids /\ c \in Server
    BY DEF Ids, Server
<1>3. accept => s \in Conns /\ ident[s] \in Ids \cup {Root}
    BY <1>0, NamesAssumption DEF C2sUser, UplinkInv, IsUplink, LinkInv, Server, Ids
<1> HIDE DEF accept
<1>4. LinkInv' /\ next \in Conns
    BY <1>0, <1>1, <1>2, DialTyped
<1>5. \A t \in DOMAIN pk : pk[t] \in UpMsgs
    BY <1>3, <1>4, PacketTypes
<1> HIDE DEF pk
<1>6. PacketInv'
    BY <1>0, <1>1, <1>5, SendTyped DEF PacketInv
<1> QED BY <1>0, <1>4, <1>6 DEF C2sAcceptSession, NodesInv

\* A client of a node goes.
LEMMA LogoffTyped ==
  ASSUME SockInv, UplinkInv, PlaceInv, TypeInv, NEW c \in C2s, NEW u \in Users,
         NEW k \in DOMAIN m_session2User[c], Logoff(c, k, u), next + calls' <= MaxInputs + 1
  PROVE  LinkInv' /\ PacketInv' /\ NodesInv'
<1>0. LinkInv /\ PacketInv /\ NodesInv
    BY DEF TypeInv
<1>1. AtNode(c) # {}
    BY DEF AtNode
<1>2. down' \in [Conns -> Seq(DownMsgs)]
    BY <1>0, DiscardTyped DEF Logoff, PacketInv
<1>3. Close({k}, ReportLogout(c, u)) /\ UNCHANGED <<next, visit>>
    BY DEF Logoff
<1>4. LinkInv' /\ PacketInv'
    BY <1>0, <1>1, <1>2, <1>3, ReportTyped, CloseTyped
<1> QED BY <1>0, <1>4 DEF Logoff, NodesInv

\* The answer of the server to a login.
LEMMA LoginOkTyped ==
  ASSUME C2sInv, SockInv, OwnInv, UplinkInv, TypeInv, NEW c \in C2s, NEW outcome, C2sLoginOk(c, outcome)
  PROVE  LinkInv' /\ PacketInv' /\ NodesInv'
<1>0. LinkInv /\ PacketInv /\ NodesInv
    BY DEF TypeInv
<1> DEFINE u == Msg(c).user
<1>1. Uplink(c, {"login_ok"})
    BY DEF C2sLoginOk, OnRecvMsg
<1>2. Popped(c) \in [Conns -> Seq(DownMsgs)] /\ u \in Users
    BY <1>1, UplinkTyped, DownContent
<1>3. PICK closed, to : /\ Close(closed, <<>>)
                        /\ down' = Send(Discard(Popped(c), closed), [j \in to |-> Response(u)])
    BY DEF C2sLoginOk
<1>4. Discard(Popped(c), closed) \in [Conns -> Seq(DownMsgs)]
    BY <1>2, DiscardTyped
<1>5. Response(u) \in DownMsgs
    BY <1>2, PacketTypes DEF Ids
<1>6. down' \in [Conns -> Seq(DownMsgs)]
    BY <1>3, <1>4, <1>5, SendTyped
<1>7. LinkInv' /\ PacketInv'
    BY <1>0, <1>3, <1>6, SilentClose DEF C2sLoginOk
<1>8. /\ (report' = [report EXCEPT ![c] = {}] \/ report' = [report EXCEPT ![c] = {u}])
      /\ UNCHANGED <<serving, m_msgClient>>
    BY DEF C2sLoginOk
<1> HIDE DEF u
<1> QED BY <1>0, <1>2, <1>7, <1>8 DEF NodesInv

\* The uplink is dropped, with all clients.
LEMMA DropTyped ==
  ASSUME SockInv, UplinkInv, TypeInv, NEW c \in C2s, DropAll(c), next + calls' <= MaxInputs + 1,
         serving' \subseteq serving
  PROVE  LinkInv' /\ PacketInv' /\ NodesInv'
<1>0. LinkInv /\ PacketInv /\ NodesInv
    BY DEF TypeInv
<1>1. sock' \in [Conns -> {"free", "open", "closed"}]
    BY <1>0 DEF DropAll, CloseSock, LinkInv
<1>2. ident' \in [Conns -> Ids \cup {Root, None}]
    BY <1>0 DEF DropAll, Forget, LinkInv
<1>3. LinkInv'
    BY <1>0, <1>1, <1>2 DEF DropAll, LinkInv
<1>4. PacketInv'
    BY <1>0, DiscardTyped DEF DropAll, PacketInv
<1>5. m_msgClient' \in [C2s -> 0..MaxInputs]
    BY <1>0, BoundsAssumption DEF DropAll, NodesInv
<1> QED BY <1>0, <1>3, <1>4, <1>5 DEF DropAll, NodesInv

\* Every step of a node.
LEMMA NodeTyped ==
  ASSUME C2sInv, SockInv, UplinkInv, PlaceInv, OwnInv, TypeInv, NEW c \in C2s, C2sNext(c)
  PROVE  LinkInv' /\ PacketInv' /\ NodesInv'
<1>0. LinkInv /\ PacketInv /\ NodesInv /\ DOMAIN m_session2User = C2s
    BY DEF TypeInv, C2sInv, TablesOfNodes
<1>c. (Call \/ calls' = calls) => next + calls' <= MaxInputs + 1
    BY <1>0, BoundsAssumption DEF Call, SockInv, LinkInv
<1>1. ASSUME NEW u \in Users, C2sAcceptSession(c, u) PROVE LinkInv' /\ PacketInv' /\ NodesInv'
    BY <1>1, AcceptTyped
<1>2. ASSUME NEW u \in Users, C2sKickoutUser(c, u) PROVE LinkInv' /\ PacketInv' /\ NodesInv'
  <2>1. m_user2Session[c][u] \in DOMAIN m_session2User[c]
      BY <1>2, NodeTableTypes DEF C2sKickoutUser
  <2> QED BY <1>2, <1>c, <2>1, LogoffTyped DEF C2sKickoutUser
<1>3. ASSUME NEW k \in Conns, C2sOnTimer(c, k) PROVE LinkInv' /\ PacketInv' /\ NodesInv'
  <2>1. down' \in [Conns -> Seq(DownMsgs)]
      BY <1>0, <1>3 DEF C2sOnTimer, PacketInv
  <2>2. LinkInv' /\ PacketInv'
      BY <1>0, <1>3, <2>1, SilentClose DEF C2sOnTimer
  <2> QED BY <1>0, <1>3, <2>2 DEF C2sOnTimer, NodesInv
<1>4. ASSUME NEW k \in Conns, C2sOnCloseSession(c, k) PROVE LinkInv' /\ PacketInv' /\ NodesInv'
  <2>1. k \in DOMAIN m_session2User[c] /\ m_session2User[c][k] \in Users
      BY <1>4, NodeTableTypes DEF C2sOnCloseSession
  <2> QED BY <1>4, <1>c, <2>1, LogoffTyped DEF C2sOnCloseSession
<1>5. ASSUME NEW k \in Conns, C2sOnRecvSession(c, k) PROVE LinkInv' /\ PacketInv' /\ NodesInv'
  <2> DEFINE m  == Head(up[k])
             us == [up EXCEPT ![k] = Tail(@)]
  <2>1. k \in DOMAIN m_session2User[c] /\ up[k] # <<>>
      BY <1>5 DEF C2sOnRecvSession
  <2>2. us \in [Conns -> Seq(UpMsgs)] /\ m \in UpMsgs
      BY <1>0, <2>1, PopTyped DEF PacketInv
  <2>3. m.type = "data"
    <3>1. visit[k].user \notin C2s
        BY <2>1, NamesAssumption DEF PlaceInv, NodeFits, AtNode
    <3>2. 1 \in DOMAIN up[k] /\ m = up[k][1]
        BY <1>0, <2>1 DEF PacketInv
    <3> QED BY <3>1, <3>2 DEF PlaceInv, NodesSpeak
  <2>4. m \in DownMsgs
      BY <2>2, <2>3, UpContent
  <2>5. PICK to, ut : down' = Send(down, [j \in to |-> m]) /\ up' = Send(us, [j \in ut |-> m])
      BY <1>5 DEF C2sOnRecvSession
  <2>a. lost' = lost
      BY <1>5 DEF C2sOnRecvSession
  <2> HIDE DEF m, us
  <2>b. down' \in [Conns -> Seq(DownMsgs)]
      BY <1>0, <2>4, <2>5, SendTyped DEF PacketInv
  <2>c. up' \in [Conns -> Seq(UpMsgs)]
      BY <2>2, <2>5, SendTyped
  <2>6. PacketInv'
      BY <1>0, <2>a, <2>b, <2>c DEF PacketInv
  <2> QED BY <1>0, <1>5, <2>6 DEF C2sOnRecvSession, c2sVars, LinkInv, NodesInv
<1>6. ASSUME C2sOnOkMsg(c) PROVE LinkInv' /\ PacketInv' /\ NodesInv'
  <2> DEFINE s == m_msgClient[c]
  <2>1. s \in Conns /\ down[s] # <<>> /\ OnFirstPacket(s) /\ down' = Popped(c)
      BY <1>6 DEF C2sOnOkMsg, UplinkInv, IsUplink
  <2>2. down' \in [Conns -> Seq(DownMsgs)] /\ Head(down[s]) \in DownMsgs
      BY <1>0, <2>1, PopTyped DEF PacketInv, Popped
  <2>3. Head(down[s]).src \in Ids \cup {Root, None}
      BY <2>2, DownContent
  <2> HIDE DEF s
  <2>4. ident' \in [Conns -> Ids \cup {Root, None}]
      BY <1>0, <2>1, <2>3 DEF OnFirstPacket, LinkInv
  <2> QED BY <1>0, <1>6, <2>2, <2>4 DEF C2sOnOkMsg, c2sVars, LinkInv, PacketInv, NodesInv
<1>7. ASSUME C2sOnTransferMsg(c) PROVE LinkInv' /\ PacketInv' /\ NodesInv'
  <2>1. PICK T : Uplink(c, T)
      BY <1>7 DEF C2sOnTransferMsg
  <2>2. Popped(c) \in [Conns -> Seq(DownMsgs)] /\ Msg(c) \in DownMsgs
      BY <2>1, UplinkTyped
  <2>3. PICK to : down' = Send(Popped(c), [k \in to |-> Msg(c)])
      BY <1>7 DEF C2sOnTransferMsg
  <2>4. down' \in [Conns -> Seq(DownMsgs)]
      BY <2>2, <2>3, SendTyped
  <2> QED BY <1>0, <1>7, <2>4 DEF C2sOnTransferMsg, c2sVars, LinkInv, PacketInv, NodesInv
<1>8. ASSUME NEW outcome, C2sLoginOk(c, outcome) PROVE LinkInv' /\ PacketInv' /\ NodesInv'
    BY <1>8, LoginOkTyped
<1>9. ASSUME C2sReport(c) PROVE LinkInv' /\ PacketInv' /\ NodesInv'
  <2>1. PICK u \in report[c] : Close({}, ReportLogout(c, u)) /\ report' = [report EXCEPT ![c] = {}]
      BY <1>9 DEF C2sReport
  <2>2. u \in Users /\ report[c] # {}
      BY <1>0, <2>1 DEF NodesInv
  <2>3. /\ UNCHANGED <<next, visit, calls, serving, m_msgClient>>
        /\ down' \in [Conns -> Seq(DownMsgs)]
      BY <1>0, <1>9 DEF C2sReport, PacketInv
  <2>4. LinkInv' /\ PacketInv'
      BY <1>0, <1>c, <2>1, <2>2, <2>3, ReportTyped, CloseTyped
  <2> QED BY <1>0, <2>1, <2>3, <2>4 DEF NodesInv
<1>10. ASSUME C2sLoginError(c) PROVE LinkInv' /\ PacketInv' /\ NodesInv'
  <2>1. Uplink(c, {"login_error"}) /\ down' = Popped(c) /\ \E S : Close(S, <<>>)
      BY <1>10 DEF C2sLoginError, OnRecvMsg
  <2>2. down' \in [Conns -> Seq(DownMsgs)]
      BY <2>1, UplinkTyped
  <2>3. LinkInv' /\ PacketInv'
      BY <1>0, <1>10, <2>1, <2>2, SilentClose DEF C2sLoginError
  <2> QED BY <1>0, <1>10, <2>3 DEF C2sLoginError, NodesInv
<1>11. ASSUME C2sKickout(c) PROVE LinkInv' /\ PacketInv' /\ NodesInv'
  <2>1. Uplink(c, {"kickout"}) /\ \E S : Close(S, <<>>) /\ down' = Discard(Popped(c), S)
      BY <1>11 DEF C2sKickout, OnRecvMsg
  <2>2. down' \in [Conns -> Seq(DownMsgs)]
      BY <2>1, UplinkTyped, DiscardTyped
  <2>3. LinkInv' /\ PacketInv'
      BY <1>0, <1>11, <2>1, <2>2, SilentClose DEF C2sKickout
  <2> QED BY <1>0, <1>11, <2>3 DEF C2sKickout, NodesInv
<1>12. ASSUME C2sOnCloseMsg(c) \/ C2sFini(c) PROVE LinkInv' /\ PacketInv' /\ NodesInv'
    BY <1>12, <1>c, DropTyped DEF C2sOnCloseMsg, C2sFini
<1> QED BY <1>1, <1>2, <1>3, <1>4, <1>5, <1>6, <1>7, <1>8, <1>9, <1>10, <1>11, <1>12 DEF C2sNext

\* A connection made to the server.
LEMMA ConnectTyped ==
  ASSUME SockInv, TypeInv, NEW u \in Ids, OnAcceptSession(u), UNCHANGED <<calls, ident>>
  PROVE  LinkInv' /\ next \in Conns /\ task' \in Seq(Commands)
<1>1. LinkInv /\ CommandInv
    BY DEF TypeInv
<1> DEFINE accepted == alive /\ Len(task) < MaxPending
<1>2. Dial(u, Root, accepted) /\ accepted \in BOOLEAN /\ Root \in Server
    BY DEF OnAcceptSession, Server
<1> HIDE DEF accepted
<1>3. LinkInv' /\ next \in Conns
    BY <1>1, <1>2, DialTyped
<1>4. task' = task \/ task' = Append(task, [cmd |-> "accept", conn |-> next, user |-> u])
    BY DEF OnAcceptSession
<1> QED BY <1>1, <1>3, <1>4, TaskTyped, CommandTypes DEF CommandInv

\* What a client does.
LEMMA ClientTyped ==
  ASSUME SockInv, TypeInv, NEW k \in Conns, ClientRecv(k) \/ \E u \in Ids : ClientSend(k, u)
  PROVE  LinkInv' /\ PacketInv'
<1>0. LinkInv /\ PacketInv
    BY DEF TypeInv
<1>1. CASE ClientRecv(k)
  <2>1. down[k] # <<>> /\ down' = [down EXCEPT ![k] = Tail(@)]
      BY <1>1 DEF ClientRecv
  <2>2. down' \in [Conns -> Seq(DownMsgs)] /\ Head(down[k]) \in DownMsgs
      BY <1>0, <2>1, PopTyped DEF PacketInv
  <2>3. Head(down[k]).src \in Ids \cup {Root, None}
      BY <2>2, DownContent
  <2>4. ident' \in [Conns -> Ids \cup {Root, None}]
      BY <1>0, <1>1, <2>3 DEF ClientRecv, OnFirstPacket, LinkInv
  <2> QED BY <1>0, <1>1, <2>2, <2>4 DEF ClientRecv, LinkInv, PacketInv
<1>2. ASSUME NEW u \in Ids, ClientSend(k, u) PROVE LinkInv' /\ PacketInv'
  <2>1. Data(ident[k], u) \in UpMsgs
    <3>1. ident[k] \in Ids \cup {Root}
        BY <1>0, <1>2 DEF ClientSend, LinkInv
    <3> QED BY <3>1, PacketTypes
  <2>2. up' \in [Conns -> Seq(UpMsgs)]
      BY <1>0, <1>2, <2>1, SendTyped DEF ClientSend, PacketInv
  <2>3. next + calls' <= MaxInputs + 1
      BY <1>2, BoundsAssumption DEF ClientSend, Call, SockInv
  <2> QED BY <1>0, <1>2, <2>2, <2>3 DEF ClientSend, LinkInv, PacketInv
<1> QED BY <1>1, <1>2

\* TypeInv holds in every state.
LEMMA TypeInvariance == Spec => []TypeInv
<1>1. Init => TypeInv
  <2> SUFFICES ASSUME Init PROVE TypeInv
      OBVIOUS
  <2>1. LinkInv
      BY BoundsAssumption DEF Init, LinkInit, LinkInv, Server
  <2>2. PacketInv
      BY DEF Init, LinkInit, PacketInv
  <2>3. CommandInv
      BY DEF Init, ServerInit, CommandInv
  <2>4. NodesInv
      BY BoundsAssumption DEF Init, C2sInit, NodesInv
  <2> QED BY <2>1, <2>2, <2>3, <2>4 DEF TypeInv
<1>2. IndexInv /\ C2sInv /\ SockInv /\ UplinkInv /\ PlaceInv /\ OwnInv /\ TypeInv /\ [Next]_vars => TypeInv'
  <2> SUFFICES ASSUME IndexInv, C2sInv, SockInv, UplinkInv, PlaceInv, OwnInv, TypeInv, [Next]_vars
               PROVE  TypeInv'
      OBVIOUS
  <2>0. LinkInv /\ PacketInv /\ CommandInv /\ NodesInv
      BY DEF TypeInv
  <2>1. CASE UNCHANGED vars
      BY <2>1, <2>0 DEF vars, linkVars, serverVars, c2sVars, TypeInv, LinkInv, PacketInv, CommandInv, NodesInv
  <2>2. ASSUME ServerNext, UNCHANGED c2sVars PROVE TypeInv'
    <3>1. LinkInv' /\ PacketInv' /\ CommandInv'
        BY <2>2, ServerCallTyped, CommandTyped DEF ServerNext
    <3> QED BY <2>0, <2>2, <3>1 DEF c2sVars, NodesInv, TypeInv
  <2>3. ASSUME NEW c \in C2s, C2sNext(c), UNCHANGED serverVars PROVE TypeInv'
    <3>1. LinkInv' /\ PacketInv' /\ NodesInv'
        BY <2>3, NodeTyped
    <3> QED BY <2>0, <2>3, <3>1 DEF serverVars, CommandInv, TypeInv
  <2>4. ASSUME NEW c \in C2s, Connect(c) PROVE TypeInv'
    <3>1. LinkInv' /\ next \in Conns /\ task' \in Seq(Commands)
        BY <2>4, ConnectTyped DEF Connect, Ids
    <3>2. m_msgClient' \in [C2s -> 0..MaxInputs]
        BY <2>0, <2>4, <3>1 DEF Connect, NodesInv, Conns
    <3> QED BY <2>0, <2>4, <3>1, <3>2 DEF Connect, PacketInv, CommandInv, NodesInv, TypeInv
  <2>5. ASSUME NEW u \in Users, ClientConnect(u) PROVE TypeInv'
    <3>1. LinkInv' /\ next \in Conns /\ task' \in Seq(Commands)
        BY <2>5, ConnectTyped DEF ClientConnect, Ids
    <3> QED BY <2>0, <2>5, <3>1 DEF ClientConnect, c2sVars, PacketInv, CommandInv, NodesInv, TypeInv
  <2>6. ASSUME NEW k \in Conns, ClientRecv(k) \/ \E u \in Ids : ClientSend(k, u) PROVE TypeInv'
    <3>1. LinkInv' /\ PacketInv'
        BY <2>6, ClientTyped
    <3>2. UNCHANGED <<serverVars, c2sVars>>
        BY <2>6 DEF ClientRecv, ClientSend
    <3> QED BY <2>0, <3>1, <3>2 DEF serverVars, c2sVars, CommandInv, NodesInv, TypeInv
  <2> QED BY <2>1, <2>2, <2>3, <2>4, <2>5, <2>6 DEF Next
<1> QED BY <1>1, <1>2, IndexInvariance, C2sInvariance, SockInvariance, UplinkInvariance,
           PlaceInvariance, OwnInvariance, PTL DEF Spec

(***************************************************************************)
(* Every variable of the messaging system keeps its type, for every number *)
(* of nodes, users, connections and calls: in particular nobody but a C2S  *)
(* ever gets a login or logout command executed, a user behind a C2S is a  *)
(* client, and no packet is sent with an empty source.                     *)
(***************************************************************************)
THEOREM TypeCorrect == Spec => []TypeOK
BY TypesFollow, IndexInvariance, OnlineInvariance, C2sInvariance, SockInvariance,
   UplinkInvariance, PlaceInvariance, OwnInvariance, TypeInvariance, PTL
=============================================================================
