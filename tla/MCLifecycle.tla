----------------------------- MODULE MCLifecycle -----------------------------
(***************************************************************************)
(* The web listener with one client, SMTP with implicit TLS and two, and   *)
(* POP3, which has none.                                                   *)
(***************************************************************************)
EXTENDS Lifecycle

CONSTANTS web, smtps, pop3, cw, cs, ct

SpecsAll == <<web, smtps, pop3>>
ServerOfAll == [l \in Listeners |->
    CASE l = web -> "http" [] l = smtps -> "smtp" [] OTHER -> "pop3"]
ListenerOfAll == [c \in Conns |->
    IF c = cw THEN web ELSE smtps]
=============================================================================
