----------------------------- MODULE MsgService -----------------------------
(***************************************************************************)
(* The messaging system: a message server, its C2S nodes, clients.         *)
(***************************************************************************)
EXTENDS MsgServer, MsgC2s

vars == <<linkVars, serverVars, c2sVars>>

TypeOK == LinkTypeOK /\ ServerTypeOK /\ C2sTypeOK

Init == LinkInit /\ ServerInit /\ C2sInit

\* A node's Init or OnTimer makes a new uplink; the server accepts it.
Connect(c) ==
  /\ c \in serving /\ m_msgClient[c] = 0
  /\ m_msgClient' = [m_msgClient EXCEPT ![c] = next]
  /\ OnAcceptSession(c)
  /\ UNCHANGED <<calls, left, up, down, ident, lost, alive, m_session2Ctx, m_user2Ctx, rsp,
                 online, fini, serving, m_timerId2Info, m_session2User, m_user2Session,
                 report>>

\* A client connects to the server.
ClientConnect(u) ==
  /\ OnAcceptSession(u)
  /\ UNCHANGED <<calls, left, up, down, ident, lost, alive, m_session2Ctx, m_user2Ctx, rsp,
                 online, fini, c2sVars>>

\* The connections that client programs have made.
ClientConns == {k \in Conns : sock[k] = "open" /\ visit[k].user \in Users}

\* CRtpMsgClient::OnRecvSession in a client.
ClientRecv(k) ==
  /\ k \in ClientConns /\ down[k] # <<>>
  /\ IF ident[k] = None THEN OnFirstPacket(k) ELSE UNCHANGED ident
  /\ down' = [down EXCEPT ![k] = Tail(@)]
  /\ UNCHANGED <<next, visit, calls, sock, left, up, lost, serverVars, c2sVars>>

\* CRtpMsgClient::SendMsg in a client.
ClientSend(k, u) ==
  /\ k \in ClientConns /\ ident[k] # None /\ ~Full(up, k) /\ Call
  /\ up' = Send(up, [j \in {k} |-> Data(ident[k], u)])
  /\ UNCHANGED <<next, visit, sock, left, down, ident, lost, serverVars, c2sVars>>

Next ==
  \/ ServerNext /\ UNCHANGED c2sVars
  \/ \E c \in C2s : C2sNext(c) /\ UNCHANGED serverVars
  \/ \E c \in C2s : Connect(c)
  \/ \E u \in Users : ClientConnect(u)
  \/ \E k \in Conns : ClientRecv(k) \/ \E u \in Ids : ClientSend(k, u)

Spec == Init /\ [][Next]_vars

-----------------------------------------------------------------------------
(***************************************************************************)
(* The two tables of CRtpMsgServer agree: a user is listed under exactly   *)
(* the connection whose context has it, as base user or behind it.  A user *)
(* that moves between connections, a C2S that goes with everybody behind   *)
(* it, a logout from the C2S the user has left: none leaves a user that    *)
(* points to a deleted context.                                            *)
(***************************************************************************)
UserIndexAgrees ==
  /\ \A u \in DOMAIN m_user2Ctx :
       /\ m_user2Ctx[u] \in DOMAIN m_session2Ctx
       /\ u \in Ctx(u).subs \cup {Ctx(u).base}
  /\ \A s \in DOMAIN m_session2Ctx :
       \A u \in m_session2Ctx[s].subs \cup {m_session2Ctx[s].base} :
         Known(u) /\ m_user2Ctx[u] = s

OnlineAgrees == alive => online = DOMAIN m_user2Ctx \ {r.user : r \in rsp}

Instances(u) == {v \in online : Uid(v) = Uid(u)}
InstancesBounded == \A u \in online : Cardinality(Instances(u)) <= MaxIids

(***************************************************************************)
(* CMsgServer's own record of who is online, from OnOkUser and OnCloseUser *)
(* calls made outside the server's lock, is the server's, but for the user *)
(* whose OnOkUser is still to be called; no user id has more instances     *)
(* than its row allows, although the check and the registration are apart. *)
(***************************************************************************)
OnlineMatches == OnlineAgrees /\ InstancesBounded

\* Who owns the socket of connection k.
Owners(k) ==
  {<<"task", i>> : i \in {j \in DOMAIN task : task[j].cmd = "accept" /\ task[j].conn = k}}
    \cup {<<"server", s>> : s \in {k} \cap DOMAIN m_session2Ctx}
    \cup {<<"fini", s>> : s \in {k} \cap fini}
    \cup {<<"pending", c>> : c \in {d \in C2s : k \in DOMAIN m_timerId2Info[d]}}
    \cup {<<"logged in", c>> : c \in {d \in C2s : k \in DOMAIN m_session2User[d]}}

(***************************************************************************)
(* Every accepted socket that is open has exactly one owner: a command     *)
(* that waits, a context of the server, a finishing server, the pending    *)
(* table of a C2S or its session table.  None leaks when a login is        *)
(* refused, replaced, timed out or overtaken by Fini; none is closed twice.*)
(***************************************************************************)
SocketsOwned ==
  \A k \in Conns : Cardinality(Owners(k)) = IF sock[k] = "open" THEN 1 ELSE 0

(***************************************************************************)
(* The two tables of a C2S agree, and a connection that waits for the      *)
(* server's answer is not in them: whichever comes first, the answer, the  *)
(* timeout, a kickout or the loss of the uplink, it is found in one place. *)
(***************************************************************************)
C2sIndexAgrees ==
  \A c \in C2s :
    /\ DOMAIN m_timerId2Info[c] \cap DOMAIN m_session2User[c] = {}
    /\ \A u \in DOMAIN m_user2Session[c] :
         LET k == m_user2Session[c][u]
         IN k \in DOMAIN m_session2User[c] /\ m_session2User[c][k] = u
    /\ \A k \in DOMAIN m_session2User[c] :
         LET u == m_session2User[c][k]
         IN u \in DOMAIN m_user2Session[c] /\ m_user2Session[c][u] = k

\* A message about user u on connection s; a logout that node c has reported, or
\* is about to report, by its uplink s.
SayingIn(q, s, type, u) == \E i \in DOMAIN q[s] : q[s][i].type = type /\ q[s][i].user = u
LogoutComing(c, s, u) ==
  \/ u \in report[c]
  \/ \E i \in DOMAIN up[s] : up[s][i] = Logout(c, u)
  \/ \E i \in DOMAIN task : task[i] = [cmd |-> "recv", conn |-> s, msg |-> Logout(c, u), c2s |-> c]

(***************************************************************************)
(* The server believes a user to be behind a C2S only if the C2S agrees,   *)
(* or is about to learn of it, or has already reported the logout: a login *)
(* that came too late, a client gone meanwhile or a session that could not *)
(* be made never leaves a ghost on the server.  (It can, once the C2S has  *)
(* taken another number than its own for its own, by OnFirstPacket: the    *)
(* server then ignores what it reports.  See README.md.)                   *)
(***************************************************************************)
NoGhostUser ==
  \A c \in C2s :
    LET s == m_msgClient[c] IN
    s \in DOMAIN m_session2Ctx /\ s \notin lost /\ ident[s] \in {c, None} =>
      \A u \in m_session2Ctx[s].subs :
        \/ u \in DOMAIN m_user2Session[c]
        \/ SayingIn(down, s, "login_ok", u) \/ \E r \in rsp : r.user = u
        \/ LogoutComing(c, s, u)

\* Nothing is under way between node c and the server, and nothing was refused.
Quiet(c) ==
  LET s == m_msgClient[c] IN
  /\ alive /\ s \in DOMAIN m_session2Ctx /\ s \notin lost
  /\ up[s] = <<>> /\ down[s] = <<>>
  /\ task = <<>> /\ rsp = {} /\ report[c] = {}

(***************************************************************************)
(* The converse, once nothing is under way: a user logged in at a C2S by   *)
(* the only connection it has made there is known to the server as behind  *)
(* that C2S, whatever it did elsewhere.  In particular the late logout of  *)
(* a C2S that the user has left does not log it out where it is now.       *)
(* (With a second connection to the same C2S it does: see README.md.)      *)
(***************************************************************************)
LoggedInIsKnown ==
  \A c \in C2s : Quiet(c) =>
    \A k \in DOMAIN m_session2User[c] :
      (\A j \in Conns \ {k} : visit[j] # visit[k]) =>
        m_session2User[c][k] \in m_session2Ctx[m_msgClient[c]].subs

(***************************************************************************)
(* rtp_msg_c2s.cpp:877, in OnOkMsg: the number that the uplink has been    *)
(* given is of class SERVER_CID.                                           *)
(***************************************************************************)
OnOkMsgIsServer ==
  \A c \in C2s : m_msgClient[c] # 0 => ident[m_msgClient[c]] \in Server \cup {None}
=============================================================================
