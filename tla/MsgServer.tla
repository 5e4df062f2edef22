------------------------------ MODULE MsgServer ------------------------------
(***************************************************************************)
(* CRtpMsgServer (pro_rtp/rtp_msg_server.cpp) under the server program's   *)
(* CMsgServer (rtp_msg_server/msg_server.cpp): who is logged in, by which  *)
(* connection.                                                             *)
(*                                                                         *)
(* Reactor threads call OnAcceptSession, OnRecvSession and OnCloseSession, *)
(* any thread KickoutUser and SendMsg; every change of the tables is a     *)
(* command executed by the server's one command task (module FunctorTask). *)
(* A command changes the tables under m_lock, and sends the response and   *)
(* calls OnOkUser after it has unlocked; in between the other threads run. *)
(* OnCloseUser is called by the same thread as OnOkUser and before it, and *)
(* is part of the first half.                                              *)
(***************************************************************************)
EXTENDS MsgLink

CONSTANTS
  Uid(_),      \* the user id of a user number, which also has an instance id
  MaxIids,     \* _maxiids_ of the user table
  MaxPending   \* MAX_PENDING_COUNT

ASSUME ServerAssumption == MaxIids \in Nat \ {0} /\ MaxPending \in Nat

VARIABLES
  alive,         \* m_observer, m_task, m_service are set
  m_session2Ctx, \* connection -> RTP_MSG_LINK_CTX
  m_user2Ctx,    \* user -> connection of its context
  task,          \* commands of m_task, oldest first
  rsp,           \* the second half of the command being executed, or {}
  online,        \* CMsgServer: m_uid2Ctx, and the rows of tbl_msg03_online
  fini           \* connections that Fini has still to delete

serverVars == <<alive, m_session2Ctx, m_user2Ctx, task, rsp, online, fini>>

Contexts == [base : Ids, subs : SUBSET Users, isC2s : BOOLEAN]
Commands == [cmd : {"accept"}, conn : Conns, user : Ids]
              \cup [cmd : {"recv"}, conn : Conns, msg : UpMsgs, c2s : C2s]
              \cup [cmd : {"close"}, conn : Conns]
              \cup [cmd : {"kickout"}, user : Ids]

ServerTypeOK ==
  /\ alive \in BOOLEAN /\ fini \subseteq Conns
  /\ DOMAIN m_session2Ctx \subseteq Conns
  /\ \A s \in DOMAIN m_session2Ctx : m_session2Ctx[s] \in Contexts
  /\ DOMAIN m_user2Ctx \subseteq Ids
  /\ \A u \in DOMAIN m_user2Ctx : m_user2Ctx[u] \in Conns
  /\ task \in Seq(Commands)
  /\ rsp \subseteq [conn : Conns, msg : DownMsgs, user : Ids] /\ Cardinality(rsp) <= 1
  /\ online \subseteq Ids

ServerInit ==
  /\ alive = TRUE
  /\ m_session2Ctx = [s \in {} |-> {}] /\ m_user2Ctx = [u \in {} |-> 0]
  /\ task = <<>> /\ rsp = {}
  /\ online = {} /\ fini = {}

Without(f, S) == [x \in DOMAIN f \ S |-> f[x]]

-----------------------------------------------------------------------------
(***************************************************************************)
(* What is removed with user u.  A base user takes its connection and      *)
(* everybody who came through it along; a user behind a C2S goes alone,    *)
(* and the C2S is told to close its connection.                            *)
(***************************************************************************)
Ctx(u)    == m_session2Ctx[m_user2Ctx[u]]
Known(u)  == u \in DOMAIN m_user2Ctx
IsBase(u) == Known(u) /\ Ctx(u).base = u
IsSub(u)  == Known(u) /\ Ctx(u).base # u

Gone(u) == IF IsBase(u) THEN Ctx(u).subs \cup {u}
                        ELSE IF IsSub(u) THEN {u} ELSE {}
Dead(u) == IF IsBase(u) THEN {m_user2Ctx[u]} ELSE {}

CtxWithout(u) ==
  [s \in DOMAIN m_session2Ctx \ Dead(u) |->
     IF IsSub(u) /\ s = m_user2Ctx[u]
       THEN [m_session2Ctx[s] EXCEPT !.subs = @ \ {u}] ELSE m_session2Ctx[s]]

\* Mutant of UserWithout: those behind a C2S are left when the C2S goes.
UserWithoutItself(u) == Without(m_user2Ctx, {u})

UserWithout(u) == Without(m_user2Ctx, Gone(u))

\* NotifyKickout, to the C2S through which u is logged in, if such is told.
Notify(u, told) == [s \in IF IsSub(u) /\ told THEN {m_user2Ctx[u]} ELSE {} |-> Kickout(u)]

(***************************************************************************)
(* DeleteRtpSessionWrapper of the sessions in S, once pk is sent.  What    *)
(* they hold is discarded; a client hears nothing more, a C2S still gets   *)
(* what is on its way.                                                     *)
(***************************************************************************)
Clients(S) == {s \in S : visit[s].user \notin C2s}
DeleteSessions(S, pk) ==
  /\ CloseSock(S) /\ Forget(Clients(S))
  /\ up' = Discard(up, S)
  /\ down' = Send(Discard(down, Clients(S)), Heard(pk))
  /\ lost' = lost \cup Refused(down, Heard(pk))

SendDown(pk) == down' = Send(down, Heard(pk)) /\ lost' = lost \cup Refused(down, Heard(pk))

-----------------------------------------------------------------------------
\* OnAcceptSession: somebody who says it is u has connected.
OnAcceptSession(u) ==
  LET accepted == alive /\ Len(task) < MaxPending IN
  /\ Dial(u, Root, accepted)
  /\ task' = IF accepted THEN Append(task, [cmd |-> "accept", conn |-> next, user |-> u])
                         ELSE task

KickoutUser(u) ==
  /\ alive /\ Call
  /\ task' = Append(task, [cmd |-> "kickout", user |-> u])
  /\ UNCHANGED <<next, visit, sock, left, up, down, ident, lost, alive, m_session2Ctx,
                 m_user2Ctx, rsp, online, fini>>

\* SendMsg by the server program, to one user.
SendMsg(u) ==
  /\ alive /\ Known(u) /\ Call
  /\ SendDown([s \in {m_user2Ctx[u]} |-> Data(Root, u)])
  /\ UNCHANGED <<serverVars, next, visit, sock, left, up, ident>>

(***************************************************************************)
(* OnRecvSession.  A source that is neither the base user nor one of the   *)
(* users behind this connection is ignored.  A login or logout counts only *)
(* when the C2S itself is its source; a login is dropped, without a word,  *)
(* when too many commands wait.  Data goes to the connection of its        *)
(* addressee, if there is one.                                             *)
(***************************************************************************)
OnRecvSession(s) ==
  LET m   == Head(up[s])
      ctx == m_session2Ctx[s]
      ok  == m.src = ctx.base \/ m.src \in ctx.subs
      c2s == ok /\ ctx.isC2s /\ m.src = ctx.base /\ m.src \in Server
  IN
  /\ alive /\ s \in DOMAIN m_session2Ctx /\ up[s] # <<>>
  /\ up' = [up EXCEPT ![s] = Tail(@)]
  /\ task' = IF c2s /\ (m.type = "logout" \/ (m.type = "login" /\ Len(task) < MaxPending))
               THEN Append(task, [cmd |-> "recv", conn |-> s, msg |-> m, c2s |-> m.src])
               ELSE task
  /\ SendDown([t \in IF ok /\ m.type = "data" /\ Known(m.dst)
                       THEN {m_user2Ctx[m.dst]} ELSE {} |-> m])
  /\ UNCHANGED <<next, visit, calls, sock, left, ident, alive, m_session2Ctx, m_user2Ctx,
                 rsp, online, fini>>

\* OnCloseSession: the server notices that connection s is broken, once.
OnCloseSession(s) ==
  /\ alive /\ s \in DOMAIN m_session2Ctx
  /\ ~\E i \in DOMAIN task : task[i] = [cmd |-> "close", conn |-> s]
  /\ task' = Append(task, [cmd |-> "close", conn |-> s])
  /\ UNCHANGED <<linkVars, alive, m_session2Ctx, m_user2Ctx, rsp, online, fini>>

-----------------------------------------------------------------------------
\* The command task takes its next command when it is done with the last.
Command(c) == rsp = {} /\ task # <<>> /\ Head(task).cmd = c /\ task' = Tail(task)

\* A command that finds nothing to do, or finds the server finished.
Nothing == UNCHANGED <<linkVars, m_session2Ctx, m_user2Ctx, rsp, online>>

\* Mutant of OnCheckUser: the limit of instances is compared too late.
OnCheckUserOneMore(u) ==
  LET iids == {v \in online : Uid(v) = Uid(u)} IN
  iids # {} => /\ u \in iids \/ Cardinality(iids) <= MaxIids
               /\ ~(u \in C2s /\ u \in iids)

(***************************************************************************)
(* CMsgServer::OnCheckUser: no more instances of a user id than its row    *)
(* allows, and no second login of a number of class SERVER_CID.  The rest  *)
(* of what it looks at (the row, the address, the password) is decided by  *)
(* the environment.                                                        *)
(***************************************************************************)
OnCheckUser(u) ==
  LET iids == {v \in online : Uid(v) = Uid(u)} IN
  iids # {} => /\ u \in iids \/ Cardinality(iids) < MaxIids
               /\ ~(u \in C2s /\ u \in iids)

\* AsyncOnAcceptSession gives up: refused, or the session cannot be created.
RejectSession ==
  /\ Command("accept")
  /\ CloseSock({Head(task).conn})
  /\ UNCHANGED <<next, visit, calls, left, up, down, ident, lost, alive, m_session2Ctx,
                 m_user2Ctx, rsp, online, fini>>

\* AsyncOnAcceptSession, AddBaseUser up to the unlock, and its OnCloseUser.
AddBaseUser ==
  LET s == Head(task).conn
      u == Head(task).user
  IN
  /\ Command("accept") /\ alive /\ OnCheckUser(u)
  /\ m_session2Ctx' = [t \in DOMAIN CtxWithout(u) \cup {s} |->
                         IF t = s THEN [base |-> u, subs |-> {}, isC2s |-> u \in C2s]
                                  ELSE CtxWithout(u)[t]]
  /\ m_user2Ctx' = [v \in DOMAIN UserWithout(u) \cup {u} |->
                      IF v = u THEN s ELSE UserWithout(u)[v]]
  /\ DeleteSessions(Dead(u), Notify(u, TRUE))
  /\ online' = online \ Gone(u)
  /\ rsp' = {[conn |-> s, msg |-> Response(u), user |-> u]}
  /\ UNCHANGED <<next, visit, calls, left, alive, fini>>

\* AsyncOnRecvSession, ProcessMsg_client_login refused by OnCheckUser.
LoginRefused ==
  LET c == Head(task) IN
  /\ Command("recv") /\ alive /\ c.msg.type = "login" /\ c.msg.user # c.c2s
  /\ SendDown([s \in {c.conn} \cap DOMAIN m_session2Ctx |-> LoginError(c.msg.index)])
  /\ UNCHANGED <<next, visit, calls, sock, left, up, ident, alive, m_session2Ctx,
                 m_user2Ctx, rsp, online, fini>>

(***************************************************************************)
(* ProcessMsg_client_login, AddSubUser up to the unlock: the user goes     *)
(* into the context its C2S has now, if it still has one.  The C2S that    *)
(* had the user is told, unless it is the same one.  A C2S cannot log      *)
(* itself in or out.                                                       *)
(***************************************************************************)
AddSubUser ==
  LET c2s == Head(task).c2s
      m   == Head(task).msg
      u   == m.user
      s   == m_user2Ctx[c2s]
  IN
  /\ Command("recv") /\ alive /\ m.type = "login" /\ (u = c2s \/ OnCheckUser(u))
  /\ IF u # c2s /\ Known(c2s) /\ Ctx(c2s).isC2s /\ Ctx(c2s).base = c2s
       THEN /\ m_session2Ctx' = [CtxWithout(u) EXCEPT ![s].subs = @ \cup {u}]
            /\ m_user2Ctx' = [v \in DOMAIN UserWithout(u) \cup {u} |->
                                IF v = u THEN s ELSE UserWithout(u)[v]]
            /\ DeleteSessions(Dead(u), Notify(u, Known(u) /\ c2s # Ctx(u).base))
            /\ online' = online \ Gone(u)
            /\ rsp' = {[conn |-> s, msg |-> LoginOk(m.index, u), user |-> u]}
            /\ UNCHANGED <<next, visit, calls, left>>
       ELSE Nothing
  /\ UNCHANGED <<alive, fini>>

\* Mutant of ClientLogout: whichever C2S reports it is believed.
ClientLogoutByAny ==
  LET u == Head(task).msg.user IN
  /\ Command("recv") /\ alive /\ Head(task).msg.type = "logout"
  /\ IF IsSub(u)
       THEN /\ m_session2Ctx' = [m_session2Ctx EXCEPT ![m_user2Ctx[u]].subs = @ \ {u}]
            /\ m_user2Ctx' = Without(m_user2Ctx, {u})
            /\ online' = online \ {u}
            /\ UNCHANGED <<linkVars, rsp>>
       ELSE Nothing
  /\ UNCHANGED <<alive, fini>>

\* ProcessMsg_client_logout: only the C2S that has the user can log it out.
ClientLogout ==
  LET u   == Head(task).msg.user
      c2s == Head(task).c2s
  IN
  /\ Command("recv") /\ alive /\ Head(task).msg.type = "logout"
  /\ IF u # c2s /\ Known(u) /\ Ctx(u).isC2s /\ Ctx(u).base = c2s
       THEN /\ m_session2Ctx' = [m_session2Ctx EXCEPT ![m_user2Ctx[u]].subs = @ \ {u}]
            /\ m_user2Ctx' = Without(m_user2Ctx, {u})
            /\ online' = online \ {u}
            /\ UNCHANGED <<linkVars, rsp>>
       ELSE Nothing
  /\ UNCHANGED <<alive, fini>>

\* AsyncOnCloseSession.
AsyncOnCloseSession ==
  LET s == Head(task).conn
      ctx == m_session2Ctx[s]
  IN
  /\ Command("close") /\ alive
  /\ IF s \in DOMAIN m_session2Ctx
       THEN /\ m_user2Ctx' = Without(m_user2Ctx, ctx.subs \cup {ctx.base})
            /\ m_session2Ctx' = Without(m_session2Ctx, {s})
            /\ online' = online \ (ctx.subs \cup {ctx.base})
            /\ DeleteSessions({s}, <<>>)
            /\ UNCHANGED <<next, visit, calls, left, rsp>>
       ELSE Nothing
  /\ UNCHANGED <<alive, fini>>

\* AsyncKickoutUser.
AsyncKickoutUser ==
  LET u == Head(task).user IN
  /\ Command("kickout") /\ alive
  /\ m_session2Ctx' = CtxWithout(u) /\ m_user2Ctx' = UserWithout(u)
  /\ DeleteSessions(Dead(u), Notify(u, TRUE))
  /\ online' = online \ Gone(u)
  /\ UNCHANGED <<next, visit, calls, left, alive, rsp, fini>>

\* AddBaseUser, AddSubUser after the unlock: the response, then OnOkUser.
Respond ==
  \E r \in rsp :
    /\ SendDown([s \in {r.conn} |-> r.msg])
    /\ online' = IF alive THEN online \cup {r.user} ELSE online
    /\ rsp' = {}
    /\ UNCHANGED <<next, visit, calls, sock, left, up, ident, alive, m_session2Ctx,
                   m_user2Ctx, task, fini>>

\* What Stop still executes after Fini has taken the observer away.
DrainCommand ==
  /\ ~alive /\ task # <<>> /\ Head(task).cmd # "accept"
  /\ Command(Head(task).cmd)
  /\ Nothing /\ UNCHANGED <<alive, fini>>

(***************************************************************************)
(* Fini: the tables are emptied without OnCloseUser; CMsgServer has        *)
(* forgotten this server already and ignores what is still called.  The    *)
(* sessions are deleted when the command task has stopped.                 *)
(***************************************************************************)
Fini ==
  /\ alive /\ alive' = FALSE /\ Call
  /\ fini' = DOMAIN m_session2Ctx
  /\ m_session2Ctx' = Without(m_session2Ctx, DOMAIN m_session2Ctx)
  /\ m_user2Ctx' = Without(m_user2Ctx, DOMAIN m_user2Ctx)
  /\ UNCHANGED <<next, visit, sock, left, up, down, ident, lost, task, rsp, online>>

FiniSessions ==
  /\ fini # {} /\ task = <<>> /\ rsp = {}
  /\ fini' = {} /\ DeleteSessions(fini, <<>>)
  /\ UNCHANGED <<next, visit, calls, left, alive, m_session2Ctx, m_user2Ctx, task, rsp,
                 online>>

ServerNext ==
  \/ \E u \in Ids : KickoutUser(u) \/ SendMsg(u)
  \/ \E s \in Conns : OnRecvSession(s) \/ OnCloseSession(s)
  \/ RejectSession \/ AddBaseUser \/ Respond
  \/ LoginRefused \/ AddSubUser \/ ClientLogout
  \/ AsyncOnCloseSession \/ AsyncKickoutUser
  \/ DrainCommand \/ Fini \/ FiniSessions
=============================================================================
