------------------------------- MODULE MsgC2s -------------------------------
(***************************************************************************)
(* CRtpMsgC2s (pro_rtp/rtp_msg_c2s.cpp): a node that logs its clients in   *)
(* at the server through one connection of its own, the uplink.            *)
(*                                                                         *)
(* Every handler changes the tables under m_lock.  The handlers that take  *)
(* m_lockUpcall also call the observer, after they have unlocked m_lock.   *)
(* One of them sends then, ProcessMsg_client_login_ok when it reports a    *)
(* logout: report holds what it has still to report, and while it does the *)
(* handlers that need m_lockUpcall wait.  All others are one step.         *)
(* A command of the node's task only delays AsyncKickoutUser, which        *)
(* decides everything when it runs; the call and the command are one step. *)
(***************************************************************************)
EXTENDS MsgLink

CONSTANT MaxPendingC2s   \* MAX_PENDING_COUNT of the node
ASSUME C2sAssumption == MaxPendingC2s \in Nat

VARIABLES
  serving,         \* the nodes whose Fini has not been called
  m_msgClient,     \* node -> its uplink, or 0
  m_timerId2Info,  \* node -> [connection waiting for the server -> user]
  m_session2User,  \* node -> [connection logged in -> user]
  m_user2Session,  \* node -> [user -> connection]
  report           \* node -> users whose logout is being reported

c2sVars == <<serving, m_msgClient, m_timerId2Info, m_session2User, m_user2Session, report>>

C2sTypeOK ==
  /\ serving \subseteq C2s
  /\ m_msgClient \in [C2s -> 0..MaxInputs] /\ report \in [C2s -> SUBSET Users]
  /\ \A c \in C2s :
       /\ DOMAIN m_timerId2Info[c] \cup DOMAIN m_session2User[c] \subseteq Conns
       /\ \A k \in DOMAIN m_timerId2Info[c] : m_timerId2Info[c][k] \in Users
       /\ \A k \in DOMAIN m_session2User[c] : m_session2User[c][k] \in Users
       /\ DOMAIN m_user2Session[c] \subseteq Users
       /\ \A u \in DOMAIN m_user2Session[c] : m_user2Session[c][u] \in Conns

C2sInit ==
  /\ serving = C2s
  /\ m_msgClient = [c \in C2s |-> 0] /\ report = [c \in C2s |-> {}]
  /\ m_timerId2Info = [c \in C2s |-> [k \in {} |-> None]]
  /\ m_session2User = [c \in C2s |-> [k \in {} |-> None]]
  /\ m_user2Session = [c \in C2s |-> [u \in {} |-> 0]]

Erase(f, S)   == [x \in DOMAIN f \ S |-> f[x]]
Put(f, x, y)  == [z \in DOMAIN f \cup {x} |-> IF z = x THEN y ELSE f[z]]

(***************************************************************************)
(* m_c2sUser: what OnOkMsg was told, unless it was not of class SERVER_CID *)
(* (OnOkMsg asserts that it is, and returns if it is not).                 *)
(***************************************************************************)
C2sUser(c) == IF m_msgClient[c] # 0 /\ ident[m_msgClient[c]] \in Server
                THEN ident[m_msgClient[c]] ELSE None

\* A message to the server, its source filled in by CRtpMsgClient::SendData.
ReportLogout(c, u) ==
  [s \in {m_msgClient[c]} \ {0} |-> Logout(ident[s], u)]

\* The connections in S, of clients, are closed and pk is sent.
Close(S, pk) ==
  /\ CloseSock(S) /\ Forget(S)
  /\ up' = Send(Discard(up, S), pk)
  /\ lost' = lost \cup Refused(up, pk)

\* m_lockUpcall of node c is free.
Upcall(c) == c \in serving /\ report[c] = {}

-----------------------------------------------------------------------------
(***************************************************************************)
(* AcceptSession: a client that says it is u has connected.  Its login is  *)
(* sent to the server and the connection waits; or it is closed at once.   *)
(***************************************************************************)
C2sAcceptSession(c, u) ==
  LET k == next
      s == m_msgClient[c]
      accept == /\ c \in serving /\ C2sUser(c) # None /\ u # C2sUser(c)
                /\ Cardinality(DOMAIN m_timerId2Info[c]) < MaxPendingC2s
                /\ ~Full(up, s)
  IN
  /\ Dial(u, c, accept)
  /\ up' = Send(up, [t \in IF accept THEN {s} ELSE {} |-> Login(ident[t], k, u)])
  /\ m_timerId2Info' = IF accept THEN [m_timerId2Info EXCEPT ![c] = Put(@, k, u)]
                                 ELSE m_timerId2Info
  /\ UNCHANGED <<calls, left, down, ident, lost, serving, m_msgClient, m_session2User,
                 m_user2Session, report>>

\* OnTimer of a connection that has waited for the server too long.
C2sOnTimer(c, k) ==
  /\ c \in serving /\ k \in DOMAIN m_timerId2Info[c]
  /\ m_timerId2Info' = [m_timerId2Info EXCEPT ![c] = Erase(@, {k})]
  /\ Close({k}, <<>>)
  /\ UNCHANGED <<next, visit, calls, left, down, serving, m_msgClient, m_session2User,
                 m_user2Session, report>>

-----------------------------------------------------------------------------
\* The uplink's next packet, of a type in T; OnOkMsg has been called.
Uplink(c, T) ==
  LET s == m_msgClient[c] IN
  Upcall(c) /\ s # 0 /\ ident[s] # None /\ down[s] # <<>> /\ Head(down[s]).type \in T

\* CRtpMsgClient::OnRecvSession compares the destination with what it takes for
\* its number: a packet of the server for this node goes to OnRecvMsg if that is
\* the node's own, and to OnTransferMsg if it is not.
Named(c) == ident[m_msgClient[c]] = c
OnRecvMsg(c, type) == Uplink(c, {type}) /\ Named(c)

Msg(c)    == Head(down[m_msgClient[c]])
Popped(c) == [down EXCEPT ![m_msgClient[c]] = Tail(@)]

\* CRtpMsgClient::OnRecvSession of the first packet, OnOkMsg.
C2sOnOkMsg(c) ==
  LET s == m_msgClient[c] IN
  /\ Upcall(c) /\ s # 0 /\ ident[s] = None /\ down[s] # <<>>
  /\ OnFirstPacket(s)
  /\ down' = Popped(c)
  /\ UNCHANGED <<next, visit, calls, sock, left, up, lost, c2sVars>>

(***************************************************************************)
(* OnTransferMsg: data for a user behind this node goes to the connection  *)
(* the user has here, if any; what is for this node finds nobody.  What is *)
(* for the number the node takes for its own, and is not from the server's *)
(* C2S port, is ignored by OnRecvMsg.                                      *)
(***************************************************************************)
C2sOnTransferMsg(c) ==
  /\ \/ Uplink(c, {"data", "response"})
     \/ Uplink(c, {"login_ok", "login_error", "kickout"}) /\ ~Named(c)
  /\ LET m  == Msg(c)
         to == IF /\ m.type = "data" /\ m.dst # ident[m_msgClient[c]]
                  /\ m.dst \in DOMAIN m_user2Session[c]
                 THEN {m_user2Session[c][m.dst]} ELSE {}
     IN down' = Send(Popped(c), [k \in to |-> m])
  /\ UNCHANGED <<next, visit, calls, sock, left, up, ident, lost, c2sVars>>

(***************************************************************************)
(* ProcessMsg_client_login_ok.  The connection may have timed out, its     *)
(* session may not come about, the response may not be accepted for        *)
(* sending: then the user is reported logged out.  Only when there is a    *)
(* new session is an old one of the same user replaced.                    *)
(***************************************************************************)
C2sLoginOk(c, outcome) ==
  LET m     == Msg(c)
      k     == m.index
      u     == m.user
      known == k \in DOMAIN m_timerId2Info[c]
      new   == outcome # "no session"
      old   == IF known /\ new /\ u \in DOMAIN m_user2Session[c]
                 THEN {m_user2Session[c][u]} ELSE {}
      ok    == known /\ outcome = "ok"
      s2u   == Erase(m_session2User[c], old)
      closed == old \cup IF known /\ ~ok THEN {k} ELSE {}
      u2s   == IF old = {} THEN m_user2Session[c] ELSE Erase(m_user2Session[c], {u})
  IN
  /\ OnRecvMsg(c, "login_ok")
  /\ known \/ outcome = "ok"
  /\ m_timerId2Info' = [m_timerId2Info EXCEPT ![c] = Erase(@, {k})]
  /\ m_session2User' = [m_session2User EXCEPT ![c] = IF ok THEN Put(s2u, k, u) ELSE s2u]
  /\ m_user2Session' = [m_user2Session EXCEPT ![c] = IF ok THEN Put(u2s, u, k) ELSE u2s]
  /\ report' = [report EXCEPT ![c] = IF ok THEN {} ELSE {u}]
  /\ Close(closed, <<>>)
  /\ down' = Send(Discard(Popped(c), closed), [j \in IF ok THEN {k} ELSE {} |-> Response(u)])
  /\ UNCHANGED <<next, visit, calls, left, serving, m_msgClient>>

\* Mutant of C2sReport: a login that came to nothing is not reported.
C2sReportNothing(c) ==
  /\ report[c] # {}
  /\ report' = [report EXCEPT ![c] = {}]
  /\ UNCHANGED <<linkVars, serving, m_msgClient, m_timerId2Info, m_session2User,
                 m_user2Session>>

\* The end of it: ReportLogout.  A logout that is sent while Fini is about to
\* delete the uplink is not distinguished from the end of the uplink.
C2sReport(c) ==
  \E u \in report[c] :
    /\ Close({}, ReportLogout(c, u))
    /\ report' = [report EXCEPT ![c] = {}]
    /\ UNCHANGED <<next, visit, calls, left, down, serving, m_msgClient, m_timerId2Info,
                   m_session2User, m_user2Session>>

\* Mutant of C2sLoginError: the connection is forgotten but not closed.
C2sLoginErrorForgets(c) ==
  /\ OnRecvMsg(c, "login_error")
  /\ m_timerId2Info' = [m_timerId2Info EXCEPT ![c] = Erase(@, {Msg(c).index})]
  /\ Close({}, <<>>)
  /\ down' = Popped(c)
  /\ UNCHANGED <<next, visit, calls, left, serving, m_msgClient, m_session2User,
                 m_user2Session, report>>

\* ProcessMsg_client_login_error.
C2sLoginError(c) ==
  /\ OnRecvMsg(c, "login_error")
  /\ LET k == {Msg(c).index} \cap DOMAIN m_timerId2Info[c] IN
     /\ m_timerId2Info' = [m_timerId2Info EXCEPT ![c] = Erase(@, k)]
     /\ Close(k, <<>>)
  /\ down' = Popped(c)
  /\ UNCHANGED <<next, visit, calls, left, serving, m_msgClient, m_session2User,
                 m_user2Session, report>>

\* ProcessMsg_client_kickout.
C2sKickout(c) ==
  LET u == Msg(c).user
      k == IF u \in DOMAIN m_user2Session[c] THEN {m_user2Session[c][u]} ELSE {}
  IN
  /\ OnRecvMsg(c, "kickout")
  /\ m_session2User' = [m_session2User EXCEPT ![c] = Erase(@, k)]
  /\ m_user2Session' = [m_user2Session EXCEPT ![c] = Erase(@, {u})]
  /\ Close(k, <<>>)
  /\ down' = Discard(Popped(c), k)
  /\ UNCHANGED <<next, visit, calls, left, serving, m_msgClient, m_timerId2Info, report>>

-----------------------------------------------------------------------------
\* Mutant of Logoff: the connection is taken out of one table only.
LogoffSession(c, k, u) ==
  /\ m_session2User' = [m_session2User EXCEPT ![c] = Erase(@, {k})]
  /\ Close({k}, ReportLogout(c, u))
  /\ down' = Discard(down, {k})
  /\ UNCHANGED <<next, visit, left, serving, m_msgClient, m_timerId2Info, m_user2Session,
                 report>>

\* A logged-in client goes, and the server is told: OnCloseSession, when its
\* connection is broken, and KickoutUser.
Logoff(c, k, u) ==
  /\ m_session2User' = [m_session2User EXCEPT ![c] = Erase(@, {k})]
  /\ m_user2Session' = [m_user2Session EXCEPT ![c] = Erase(@, {u})]
  /\ Close({k}, ReportLogout(c, u))
  /\ down' = Discard(down, {k})
  /\ UNCHANGED <<next, visit, left, serving, m_msgClient, m_timerId2Info, report>>

C2sOnCloseSession(c, k) ==
  /\ Upcall(c) /\ k \in DOMAIN m_session2User[c]
  /\ Logoff(c, k, m_session2User[c][k])
  /\ UNCHANGED calls

C2sKickoutUser(c, u) ==
  /\ Upcall(c) /\ u \in DOMAIN m_user2Session[c] /\ Call
  /\ Logoff(c, m_user2Session[c][u], u)

(***************************************************************************)
(* OnRecvSession: data from a client, to another client of this node or up *)
(* to the server.  A source that is not the connection's user is ignored.  *)
(***************************************************************************)
C2sOnRecvSession(c, k) ==
  LET m     == Head(up[k])
      ok    == k \in DOMAIN m_session2User[c] /\ m.src = m_session2User[c][k]
      local == m.dst \in DOMAIN m_user2Session[c]
  IN
  /\ c \in serving /\ k \in DOMAIN m_session2User[c] /\ up[k] # <<>>
  /\ down' = Send(down, [j \in IF ok /\ local THEN {m_user2Session[c][m.dst]} ELSE {} |-> m])
  /\ up' = Send([up EXCEPT ![k] = Tail(@)],
                [s \in IF ok /\ ~local THEN {m_msgClient[c]} \ {0} ELSE {} |-> m])
  /\ UNCHANGED <<next, visit, calls, sock, left, ident, lost, c2sVars>>

\* All that is waiting or logged in at node c is closed; the uplink is dropped.
DropAll(c) ==
  LET s == {m_msgClient[c]} \ {0}
      k == DOMAIN m_timerId2Info[c] \cup DOMAIN m_session2User[c]
  IN
  /\ CloseSock(k) /\ Forget(k \cup s)
  /\ up' = Discard(up, k) /\ down' = Discard(down, k \cup s)
  /\ left' = left \cup s
  /\ m_timerId2Info' = [m_timerId2Info EXCEPT ![c] = Erase(@, DOMAIN @)]
  /\ m_session2User' = [m_session2User EXCEPT ![c] = Erase(@, DOMAIN @)]
  /\ m_user2Session' = [m_user2Session EXCEPT ![c] = Erase(@, DOMAIN @)]
  /\ m_msgClient' = [m_msgClient EXCEPT ![c] = 0]
  /\ UNCHANGED <<next, visit, lost, report>>

\* OnCloseMsg: the uplink is broken, or the login has timed out.
C2sOnCloseMsg(c) ==
  /\ Upcall(c) /\ m_msgClient[c] # 0
  /\ DropAll(c) /\ UNCHANGED <<calls, serving>>

C2sFini(c) ==
  /\ c \in serving /\ serving' = serving \ {c} /\ Call
  /\ DropAll(c)

C2sNext(c) ==
  \/ \E u \in Users : C2sAcceptSession(c, u) \/ C2sKickoutUser(c, u)
  \/ \E k \in Conns : C2sOnTimer(c, k) \/ C2sOnCloseSession(c, k) \/ C2sOnRecvSession(c, k)
  \/ C2sOnOkMsg(c) \/ C2sOnTransferMsg(c)
  \/ \E outcome \in {"ok", "no session", "not sent"} : C2sLoginOk(c, outcome)
  \/ C2sReport(c) \/ C2sLoginError(c) \/ C2sKickout(c)
  \/ C2sOnCloseMsg(c) \/ C2sFini(c)
=============================================================================
