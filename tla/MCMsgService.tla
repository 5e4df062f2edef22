---------------------------- MODULE MCMsgService ----------------------------
(* MsgService with two C2S nodes and clients that share one user id.       *)
EXTENDS MsgService, TLC
CONSTANTS c1, c2, u1, u2

MCUid(u) == IF u \in Users THEN "client" ELSE u
Symmetry == Permutations(C2s) \cup Permutations(Users)
=============================================================================
