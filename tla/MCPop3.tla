------------------------------- MODULE MCPop3 -------------------------------
(***************************************************************************)
(* All messages go to mailbox a, which the first user opens; the others    *)
(* open b.                                                                 *)
(***************************************************************************)
EXTENDS Pop3

CONSTANTS a, b, ua, ub

HomeOf == [m \in Ids |-> a]
MailboxOfUser == [u \in Users |-> IF u = ua THEN a ELSE b]
=============================================================================
