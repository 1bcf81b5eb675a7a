-------------------------------- MODULE Pop3 --------------------------------
(***************************************************************************)
(* The POP3 server of mailschleuse (internal/pop3d): sessions that lock a  *)
(* mailbox, work on a frozen view of it, and delete what they marked when  *)
(* they QUIT, while mail arrives and other users of the store delete and   *)
(* evict messages.  The store is used through what MailQueue promises.     *)
(*                                                                         *)
(* A session is a goroutine.  It holds no lock of the store while it waits *)
(* for its client, and QUIT deletes one message after the other.           *)
(***************************************************************************)
EXTENDS Integers, Sequences, FiniteSets, SequencesExt

CONSTANTS
    Mailboxes, Ids, Home, MaxMessages,   \* as in MailQueue
    Conns,          \* connections, one session each
    Users,          \* login names
    MailboxOf,      \* the mailbox a login name opens
    ExclusiveLock,  \* option: one session per mailbox
    HasTLS          \* option: is STLS offered?

ASSUME Pop3Assumption ==
    /\ Home \in [Ids -> Mailboxes] /\ MailboxOf \in [Users -> Mailboxes]
    /\ MaxMessages \in Nat
    /\ ExclusiveLock \in BOOLEAN /\ HasTLS \in BOOLEAN

NoUser == "none"
NoMailbox == "none"
ASSUME NoneAssumption == NoUser \notin Users /\ NoMailbox \notin Mailboxes

VARIABLES
    queue,      \* the mailboxes, see MailQueue
    arrived,    \* the messages delivered so far
    locks,      \* Server.locks
    state,      \* where each session is, see States
    tls,        \* session.tlsActive
    username,   \* session.username
    mailbox,    \* session.mailbox
    locked,     \* session.locked
    entries,    \* session.entries: the frozen view
    deleted,    \* the positions of entries that are marked for deletion
    next,       \* how far QUIT has got
    client,     \* "talks", "silent" or "gone" (the connection is closed)
    wish,       \* ghost: what the client wants deleted, if it QUITs
    asked,      \* ghost: what clients asked to delete by QUIT
    popped      \* ghost: what POP3 sessions deleted

server == <<locks, state, tls, username, mailbox, locked, entries, deleted, next>>
ghosts == <<wish, asked, popped>>
vars == <<queue, arrived, server, client, ghosts>>

Store == INSTANCE MailQueue WITH running <- TRUE, kept <- {}, dead <- {}

States ==
    {"off", "handshake", "authorization", "opening", "transaction", "update"}

TypeOK ==
    /\ queue \in [Mailboxes -> Seq(Ids)]
    /\ arrived \subseteq Ids
    /\ locks \subseteq Mailboxes
    /\ state \in [Conns -> States]
    /\ tls \in [Conns -> BOOLEAN]
    /\ username \in [Conns -> Users \cup {NoUser}]
    /\ mailbox \in [Conns -> Mailboxes \cup {NoMailbox}]
    /\ locked \in [Conns -> BOOLEAN]
    /\ entries \in [Conns -> Seq(Ids)]
    /\ deleted \in [Conns -> SUBSET Nat]
    /\ \A c \in Conns : deleted[c] \subseteq DOMAIN entries[c]
    /\ next \in [Conns -> Nat]
    /\ client \in [Conns -> {"talks", "silent", "gone"}]
    /\ wish \in [Conns -> SUBSET Ids]
    /\ asked \subseteq Ids /\ popped \subseteq Ids

Init ==
    /\ queue = [mb \in Mailboxes |-> <<>>]
    /\ arrived = {}
    /\ locks = {}
    /\ state = [c \in Conns |-> "off"]
    /\ tls = [c \in Conns |-> FALSE]
    /\ username = [c \in Conns |-> NoUser]
    /\ mailbox = [c \in Conns |-> NoMailbox]
    /\ locked = [c \in Conns |-> FALSE]
    /\ entries = [c \in Conns |-> <<>>]
    /\ deleted = [c \in Conns |-> {}]
    /\ next = [c \in Conns |-> 0]
    /\ client = [c \in Conns |-> "gone"]
    /\ wish = [c \in Conns |-> {}]
    /\ asked = {} /\ popped = {}
-----------------------------------------------------------------------------
(* Sessions                                                                *)

\* The session waits for a command; its client sends one.
Reads(c) == state[c] \in {"authorization", "transaction"}
Talks(c) == client[c] = "talks" /\ Reads(c)

\* A new connection: over implicit TLS the handshake comes first.
Connect(c) ==
    /\ state[c] = "off"
    /\ \/ state' = [state EXCEPT ![c] = "authorization"]
       \/ HasTLS /\ state' = [state EXCEPT ![c] = "handshake"]
    /\ client' = [client EXCEPT ![c] = "talks"]
    /\ UNCHANGED <<queue, arrived, locks, tls, username, mailbox, locked, entries,
                   deleted, next, ghosts>>

Handshake(c) ==
    /\ state[c] = "handshake" /\ client[c] = "talks"
    /\ state' = [state EXCEPT ![c] = "authorization"]
    /\ tls' = [tls EXCEPT ![c] = TRUE]
    /\ UNCHANGED <<queue, arrived, locks, username, mailbox, locked, entries,
                   deleted, next, client, ghosts>>

\* (Mutation: every session unlocks its mailbox, also one that was refused.)
ReleaseAlways(c) == IF ExclusiveLock THEN locks \ {mailbox[c]} ELSE locks
\* (Mutation: the lock is kept.)
ReleaseNever(c) == locks
\* What session.release leaves locked.
Release(c) == IF ExclusiveLock /\ locked[c] THEN locks \ {mailbox[c]} ELSE locks

\* The handler returns, whatever the reason: it releases the lock.
End(c) ==
    /\ locks' = Release(c)
    /\ state' = [state EXCEPT ![c] = "off"]
    /\ tls' = [tls EXCEPT ![c] = FALSE]
    /\ username' = [username EXCEPT ![c] = NoUser]
    /\ mailbox' = [mailbox EXCEPT ![c] = NoMailbox]
    /\ locked' = [locked EXCEPT ![c] = FALSE]
    /\ entries' = [entries EXCEPT ![c] = <<>>]
    /\ deleted' = [deleted EXCEPT ![c] = {}]
    /\ next' = [next EXCEPT ![c] = 0]
    /\ client' = [client EXCEPT ![c] = "gone"]
    /\ wish' = [wish EXCEPT ![c] = {}]

\* The client falls silent, or it hangs up.
Leave(c) ==
    /\ state[c] # "off" /\ client[c] = "talks"
    /\ \E how \in {"silent", "gone"} : client' = [client EXCEPT ![c] = how]
    /\ UNCHANGED <<queue, arrived, server, ghosts>>

\* A read fails: the client is gone, it was silent for the idle timeout, or
\* the handshake of STLS broke off.  Nothing is deleted.
Drop(c) ==
    /\ Reads(c)
    /\ End(c)
    /\ UNCHANGED <<queue, arrived, asked, popped>>

\* The handshake of implicit TLS fails, with no timeout of its own.
HandshakeFails(c) ==
    /\ state[c] = "handshake" /\ client[c] # "silent"
    /\ End(c)
    /\ UNCHANGED <<queue, arrived, asked, popped>>

\* STLS forgets the user name, and nothing else, in either state.
Stls(c) ==
    /\ Talks(c) /\ HasTLS /\ ~tls[c]
    /\ tls' = [tls EXCEPT ![c] = TRUE]
    /\ username' = [username EXCEPT ![c] = NoUser]
    /\ UNCHANGED <<queue, arrived, locks, state, mailbox, locked, entries, deleted,
                   next, client, ghosts>>

User(c) ==
    /\ Talks(c) /\ state[c] = "authorization"
    /\ \E u \in Users : username' = [username EXCEPT ![c] = u]
    /\ UNCHANGED <<queue, arrived, locks, state, tls, mailbox, locked, entries,
                   deleted, next, client, ghosts>>

\* PASS with wrong credentials.
PassRejected(c) ==
    /\ Talks(c) /\ state[c] = "authorization" /\ username[c] # NoUser
    /\ username' = [username EXCEPT ![c] = NoUser]
    /\ UNCHANGED <<queue, arrived, locks, state, tls, mailbox, locked, entries,
                   deleted, next, client, ghosts>>

\* PASS with the right ones: Server.lock, then Store.Snapshot.
Pass(c) ==
    /\ Talks(c) /\ state[c] = "authorization" /\ username[c] # NoUser
    /\ LET mb == MailboxOf[username[c]]
       IN  /\ mailbox' = [mailbox EXCEPT ![c] = mb]
           /\ IF ExclusiveLock /\ mb \in locks
              THEN /\ username' = [username EXCEPT ![c] = NoUser]
                   /\ UNCHANGED <<locks, state, locked>>
              ELSE /\ locks' = IF ExclusiveLock THEN locks \cup {mb} ELSE locks
                   /\ locked' = [locked EXCEPT ![c] = TRUE]
                   /\ state' = [state EXCEPT ![c] = "opening"]
                   /\ UNCHANGED username
    /\ UNCHANGED <<queue, arrived, tls, entries, deleted, next, client, ghosts>>

Open(c) ==
    /\ state[c] = "opening"
    /\ entries' = [entries EXCEPT ![c] = queue[mailbox[c]]]
    /\ state' = [state EXCEPT ![c] = "transaction"]
    /\ UNCHANGED <<queue, arrived, locks, tls, username, mailbox, locked, deleted,
                   next, client, ghosts>>

Dele(c) ==
    /\ Talks(c) /\ state[c] = "transaction"
    /\ \E i \in DOMAIN entries[c] \ deleted[c] :
        /\ deleted' = [deleted EXCEPT ![c] = @ \cup {i}]
        /\ wish' = [wish EXCEPT ![c] = @ \cup {entries[c][i]}]
    /\ UNCHANGED <<queue, arrived, locks, state, tls, username, mailbox, locked,
                   entries, next, client, asked, popped>>

\* (Mutation: RSET unmarks only the first message.)
RsetFirst(c) ==
    /\ Talks(c) /\ state[c] = "transaction"
    /\ deleted' = [deleted EXCEPT ![c] = @ \ {1}]
    /\ wish' = [wish EXCEPT ![c] = {}]
    /\ UNCHANGED <<queue, arrived, locks, state, tls, username, mailbox, locked,
                   entries, next, client, asked, popped>>

Rset(c) ==
    /\ Talks(c) /\ state[c] = "transaction"
    /\ deleted' = [deleted EXCEPT ![c] = {}]
    /\ wish' = [wish EXCEPT ![c] = {}]
    /\ UNCHANGED <<queue, arrived, locks, state, tls, username, mailbox, locked,
                   entries, next, client, asked, popped>>

\* QUIT in the authorization state just ends the session.
QuitEarly(c) ==
    /\ Talks(c) /\ state[c] = "authorization"
    /\ End(c)
    /\ UNCHANGED <<queue, arrived, asked, popped>>

\* (Mutation: the mailbox is released before the messages are deleted.)
QuitReleasing(c) ==
    /\ Talks(c) /\ state[c] = "transaction"
    /\ state' = [state EXCEPT ![c] = "update"]
    /\ next' = [next EXCEPT ![c] = 1]
    /\ asked' = asked \cup wish[c]
    /\ locks' = Release(c)
    /\ locked' = [locked EXCEPT ![c] = FALSE]
    /\ UNCHANGED <<queue, arrived, tls, username, mailbox, entries,
                   deleted, client, wish, popped>>

\* QUIT in the transaction state starts the deletions.
Quit(c) ==
    /\ Talks(c) /\ state[c] = "transaction"
    /\ state' = [state EXCEPT ![c] = "update"]
    /\ next' = [next EXCEPT ![c] = 1]
    /\ asked' = asked \cup wish[c]
    /\ UNCHANGED <<queue, arrived, locks, tls, username, mailbox, locked, entries,
                   deleted, client, wish, popped>>

\* (Mutation: the loop stops before the last message.)
InViewButLast(c) == next[c] < Len(entries[c])
InView(c) == next[c] <= Len(entries[c])

\* (Mutation: a deleted message also leaves the view.)
DeleteNextShifting(c) ==
    /\ state[c] = "update" /\ InView(c)
    /\ LET m == entries[c][next[c]]
       IN  IF next[c] \in deleted[c] /\ m \in Store!Shown
           THEN /\ Store!Take(Home[m], m) /\ popped' = popped \cup {m}
                /\ entries' = [entries EXCEPT ![c] = RemoveAt(@, next[c])]
           ELSE UNCHANGED <<queue, popped, entries>>
    /\ next' = [next EXCEPT ![c] = @ + 1]
    /\ UNCHANGED <<arrived, locks, state, tls, username, mailbox, locked,
                   deleted, client, wish, asked>>

\* (Mutation: a message that is not there is tried again.)
DeleteNextRetrying(c) ==
    /\ state[c] = "update" /\ InView(c)
    /\ LET m == entries[c][next[c]]
       IN  IF next[c] \in deleted[c]
           THEN /\ m \in Store!Shown
                /\ Store!Take(Home[m], m) /\ popped' = popped \cup {m}
           ELSE UNCHANGED <<queue, popped>>
    /\ next' = [next EXCEPT ![c] = @ + 1]
    /\ UNCHANGED <<arrived, locks, state, tls, username, mailbox, locked, entries,
                   deleted, client, wish, asked>>

\* One round of the loop: Store.Delete, if the message is marked and there.
DeleteNext(c) ==
    /\ state[c] = "update" /\ InView(c)
    /\ LET m == entries[c][next[c]]
       IN  IF next[c] \in deleted[c] /\ m \in Store!Shown
           THEN Store!Take(Home[m], m) /\ popped' = popped \cup {m}
           ELSE UNCHANGED <<queue, popped>>
    /\ next' = [next EXCEPT ![c] = @ + 1]
    /\ UNCHANGED <<arrived, locks, state, tls, username, mailbox, locked, entries,
                   deleted, client, wish, asked>>

SignOff(c) ==
    /\ state[c] = "update" /\ ~InView(c)
    /\ End(c)
    /\ UNCHANGED <<queue, arrived, asked, popped>>
-----------------------------------------------------------------------------
(* The other users of the store                                            *)

Arrive(m) ==
    /\ m \notin arrived /\ Store!Enqueue(m)
    /\ arrived' = arrived \cup {m}
    /\ UNCHANGED <<server, client, ghosts>>

TakenAway ==
    /\ \E mb \in Mailboxes : Store!Empty(mb) \/ \E m \in Ids : Store!Take(mb, m)
    /\ UNCHANGED <<arrived, server, client, ghosts>>

Command(c) ==
    \/ Stls(c) \/ User(c) \/ PassRejected(c) \/ Pass(c)
    \/ Dele(c) \/ Rset(c) \/ QuitEarly(c) \/ Quit(c)
\* What the session does without its client.
Work(c) == Open(c) \/ DeleteNext(c) \/ SignOff(c)

Next ==
    \/ \E c \in Conns : 
        \/ Connect(c) \/ Handshake(c) \/ HandshakeFails(c)
        \/ Leave(c) \/ Drop(c) \/ Command(c) \/ Work(c)
    \/ \E m \in Ids : Arrive(m)
    \/ TakenAway

\* The goroutine of a session runs on; a read or a handshake of a closed
\* connection fails, and so does a read when the idle timeout is over.
Fairness ==
    \A c \in Conns :
        /\ WF_vars(Work(c))
        /\ WF_vars(client[c] # "talks" /\ (Drop(c) \/ HandshakeFails(c)))
Spec == Init /\ [][Next]_vars /\ Fairness
-----------------------------------------------------------------------------
(* Correctness                                                             *)

\* RFC 1939 section 3, which Server.lock names: with ExclusiveLock a mailbox
\* is open in at most one session, and it is locked exactly while it is.
OneSessionPerMailbox ==
    ExclusiveLock =>
        /\ locks = {mailbox[c] : c \in {d \in Conns : locked[d]}}
        /\ \A c, d \in Conns : locked[c] /\ locked[d] /\ mailbox[c] = mailbox[d] => c = d

\* An open session never shows a message that another session's QUIT removed:
\* a mailbox is not opened again before the last QUIT is through with it.
ExclusiveView ==
    ExclusiveLock => \A c \in Conns :
        state[c] = "transaction" => ToSet(entries[c]) \cap popped = {}

\* POP3 deletes a message only if a client marked it, did not take that back
\* with RSET, and ended its session with QUIT.
OnlyAskedFor == popped \subseteq asked

\* What a client asked to delete by QUIT is gone, or the session that was
\* asked to is still about to delete it.
QuitDeletes ==
    \A m \in asked \cap Store!Shown : \E c \in Conns :
        /\ state[c] = "update"
        /\ \E i \in deleted[c] : i >= next[c] /\ entries[c][i] = m

\* A mailbox does not stay locked by a session whose client went away, however
\* it went and whatever the session was doing.
LockIsReleased ==
    \A c \in Conns, mb \in Mailboxes :
        (locked[c] /\ mailbox[c] = mb /\ client[c] # "talks") ~> mb \notin locks
\* A QUIT comes to its end, whatever happens to the messages meanwhile.
QuitEnds == \A c \in Conns : state[c] = "update" ~> state[c] = "off"

\* README.md: MS_IDLE_TIMEOUT is the "Idle timeout for SMTP/POP3 connections".
\* (Violated: the handshake of implicit TLS has no deadline.)
IdleTimeout == \A c \in Conns : client[c] = "silent" ~> state[c] = "off"
=============================================================================
