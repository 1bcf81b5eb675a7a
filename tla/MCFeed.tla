------------------------------- MODULE MCFeed -------------------------------
(***************************************************************************)
(* Two interchangeable mailboxes and a channel that holds one event.       *)
(***************************************************************************)
EXTENDS Feed, TLC

Symmetry == Permutations(Mailboxes)
=============================================================================
