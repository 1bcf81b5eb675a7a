------------------------------- MODULE MCSmtp -------------------------------
(***************************************************************************)
(* Two mailboxes and three recipients: r1 is routed to both mailboxes, r2  *)
(* to the inbox, r3 nowhere.  Messages of the three sizes, and one that     *)
(* names the inbox in its header.                                          *)
(***************************************************************************)
EXTENDS Smtp

CONSTANTS inbox, outbox, r1, r2, r3, fits, edge, large, marked, app, other

RoutesOf == << [to |-> {r1}, boxes |-> <<inbox, outbox>>],
               [to |-> {r1, r2}, boxes |-> <<inbox>>] >>
BoxOfUser == [u \in Users |-> IF u = app THEN inbox ELSE NoBox]
SizeOf == [m \in Mails |->
    IF m = edge THEN "edge" ELSE IF m = large THEN "large" ELSE "fits"]
HeaderOf == [m \in Mails |-> IF m = marked THEN inbox ELSE NoBox]
=============================================================================
