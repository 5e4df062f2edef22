------------------------------- MODULE MsgLink -------------------------------
(***************************************************************************)
(* The connections of the messaging system (README.md, Fig. 2): a message  *)
(* server, C2S nodes between it and their clients, clients connected to    *)
(* either.  A connection carries packets in order in both directions.      *)
(*                                                                         *)
(* Every connection, whoever makes it, gets the next number.  Its two ends *)
(* fail apart: each end notices a broken connection in its own time, and   *)
(* until then keeps what it believes.                                      *)
(*                                                                         *)
(* The end that connects is a CRtpMsgClient (pro_rtp/rtp_msg_client.cpp),  *)
(* in a client program and in a C2S alike.                                 *)
(***************************************************************************)
EXTENDS Naturals, Sequences, FiniteSets

CONSTANTS
  C2s,         \* the user numbers of the C2S nodes, of class SERVER_CID
  Users,       \* the user numbers of the clients, of other classes
  Root,        \* ROOT_ID, the source of what the server program sends
  None,        \* no user number: RTP_MSG_USER::Zero()
  MaxInputs,   \* bound: connections made and calls of the programs (data,
               \* KickoutUser, Fini) in one behaviour
  Redline      \* packets a connection holds before a send is refused

ASSUME NamesAssumption ==
  /\ C2s \cap Users = {} /\ Root \notin C2s \cup Users
  /\ None \notin C2s \cup Users \cup {Root}
ASSUME BoundsAssumption ==
  MaxInputs \in Nat /\ Redline \in Nat \ {0}

VARIABLES
  next,    \* the number of the next connection
  visit,   \* who made an accepted connection, to which node
  calls,   \* calls of the programs so far
  sock,    \* the socket of a connection at the end that accepted it
  left,    \* uplinks that their C2S has dropped
  up,      \* packets on their way from the end that connected
  down,    \* packets on their way to the end that connected
  ident,   \* CRtpMsgClient: m_user once m_onOkCalled, None before
  lost     \* connections on which a send has been refused

linkVars == <<next, visit, calls, sock, left, up, down, ident, lost>>

Conns  == 1..MaxInputs
Ids    == C2s \cup Users
Server == C2s \cup {Root}  \* of class SERVER_CID; what one can connect to

(***************************************************************************)
(* Packets.  src is the srcUser of the header.  The response to a login    *)
(* has the user itself as its source; index is the client_index by which a *)
(* C2S knows the login, the number of its timer.  There is one timer per   *)
(* accepted connection and timer numbers are not used again, so the number *)
(* of the connection stands for it.  Who logs in through a C2S is a client *)
(* (the server would also take a user of class SERVER_CID, a node that is  *)
(* behind a node; there are none here).                                    *)
(***************************************************************************)
Response(u)       == [type |-> "response", src |-> u]
Data(x, u)        == [type |-> "data", src |-> x, dst |-> u]
Login(x, k, u)    == [type |-> "login", src |-> x, index |-> k, user |-> u]
Logout(x, u)      == [type |-> "logout", src |-> x, user |-> u]
LoginOk(k, u)     == [type |-> "login_ok", src |-> Root, index |-> k, user |-> u]
LoginError(k)     == [type |-> "login_error", src |-> Root, index |-> k]
Kickout(u)        == [type |-> "kickout", src |-> Root, user |-> u]

UpMsgs   == [type : {"login"}, src : Ids \cup {Root}, index : Conns, user : Users]
              \cup [type : {"logout"}, src : Ids \cup {Root}, user : Users]
              \cup [type : {"data"}, src : Ids \cup {Root}, dst : Ids]
DownMsgs == [type : {"response"}, src : Ids]
              \cup [type : {"data"}, src : Ids \cup {Root}, dst : Ids]
              \cup [type : {"login_ok"}, src : {Root}, index : Conns, user : Users]
              \cup [type : {"login_error"}, src : {Root}, index : Conns]
              \cup [type : {"kickout"}, src : {Root}, user : Users]

LinkTypeOK ==
  /\ next \in 1..MaxInputs + 1 /\ calls \in 0..MaxInputs
  /\ visit \in [Conns -> [user : Ids \cup {None}, at : Server]]
  /\ sock \in [Conns -> {"free", "open", "closed"}]
  /\ up \in [Conns -> Seq(UpMsgs)] /\ down \in [Conns -> Seq(DownMsgs)]
  /\ ident \in [Conns -> Ids \cup {Root, None}]
  /\ lost \subseteq Conns /\ left \subseteq Conns

LinkInit ==
  /\ next = 1 /\ calls = 0
  /\ visit = [k \in Conns |-> [user |-> None, at |-> Root]]
  /\ sock = [k \in Conns |-> "free"] /\ left = {}
  /\ up = [k \in Conns |-> <<>>] /\ down = [k \in Conns |-> <<>>]
  /\ ident = [k \in Conns |-> None]
  /\ lost = {}

-----------------------------------------------------------------------------
(***************************************************************************)
(* User u connects to node n; the connection is the one numbered next.  It *)
(* is accepted, or closed at once.                                         *)
(***************************************************************************)
Dial(u, n, accepted) ==
  /\ next + calls <= MaxInputs /\ next' = next + 1
  /\ visit' = IF accepted THEN [visit EXCEPT ![next] = [user |-> u, at |-> n]] ELSE visit
  /\ sock' = [sock EXCEPT ![next] = IF accepted THEN "open" ELSE "closed"]

\* One of the calls that are bounded.
Call == next + calls <= MaxInputs /\ calls' = calls + 1

\* The accepting ends of S are closed.
CloseSock(S) == sock' = [k \in Conns |-> IF k \in S THEN "closed" ELSE sock[k]]

\* The connecting ends of S are gone, with what they knew.
Forget(S) == ident' = [k \in Conns |-> IF k \in S THEN None ELSE ident[k]]

\* The packets of q on the connections in S are discarded.
Discard(q, S) == [k \in Conns |-> IF k \in S THEN <<>> ELSE q[k]]

(***************************************************************************)
(* SendPacket, PushMsg: the packet is appended to what the connection      *)
(* holds, or refused when it holds too much.  pk is a function from        *)
(* connections to the packet to send there.  What is sent to an end that   *)
(* is gone arrives nowhere.                                                *)
(***************************************************************************)
Full(q, k)     == Len(q[k]) >= Redline
Send(q, pk)    == [k \in Conns |-> IF k \in DOMAIN pk /\ ~Full(q, k)
                                     THEN Append(q[k], pk[k]) ELSE q[k]]
Refused(q, pk) == {k \in DOMAIN pk : Full(q, k)}
Heard(pk)      == [k \in DOMAIN pk \ left |-> pk[k]]

(***************************************************************************)
(* CRtpMsgClient::OnRecvSession: the first packet, whatever it is, is      *)
(* taken for the response, and its source for the user number this client  *)
(* has been given.                                                         *)
(***************************************************************************)
OnFirstPacket(k) == ident' = [ident EXCEPT ![k] = Head(down[k]).src]
=============================================================================
