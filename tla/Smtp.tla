-------------------------------- MODULE Smtp --------------------------------
(***************************************************************************)
(* The SMTP server of mailschleuse (internal/smtpd): sessions that collect *)
(* an envelope command by command, decide in which mailboxes a message     *)
(* belongs, and store it in one after the other; and clients that send     *)
(* again what was refused for the time being.                              *)
(*                                                                         *)
(* Whatever a session remembers, it remembers with the kind of connection  *)
(* it came over: "plain" before a TLS handshake, "tls" after it.           *)
(***************************************************************************)
EXTENDS Integers, Sequences, FiniteSets, SequencesExt

CONSTANTS
    Conns,          \* connections, one session each
    Mailboxes,      \* the configured mailboxes
    Default,        \* option: where mail goes that nothing routes
    Recipients,     \* recipient addresses
    Routes,         \* option: rules [to |-> addresses, boxes |-> mailboxes], in order
    Users,          \* login names
    UserBox,        \* the mailbox a login name stands for, or NoBox
    UserRouting,    \* option: does a login name select the mailbox?
    Mails,          \* the messages that clients want to send
    Header,         \* the mailbox named in the routing header, or NoBox
    HeaderRouting,  \* option: is that header obeyed?
    Size,           \* "fits", "edge" (too large with a Received header), "large"
    AddReceived,    \* option: prepend that header?
    MaxRecipients,  \* option: recipients per message
    Auth,           \* option: "disabled", "optional" or "required"
    HasTLS,         \* option: is STARTTLS offered?
    MaxTries        \* bound: how often a client sends a message

NoBox == "none"
Channels == {"plain", "tls"}

ASSUME SmtpAssumption ==
    /\ Default \in Mailboxes /\ NoBox \notin Mailboxes
    /\ Routes \in Seq([to : SUBSET Recipients, boxes : Seq(Mailboxes) \ {<<>>}])
    /\ UserBox \in [Users -> Mailboxes \cup {NoBox}]
    /\ Header \in [Mails -> Mailboxes \cup {NoBox}]
    /\ Size \in [Mails -> {"fits", "edge", "large"}]
    /\ UserRouting \in BOOLEAN /\ HeaderRouting \in BOOLEAN
    /\ AddReceived \in BOOLEAN /\ HasTLS \in BOOLEAN
    /\ MaxRecipients \in Nat \ {0} /\ MaxTries \in Nat
    /\ Auth \in {"disabled", "optional", "required"}

VARIABLES
    state,    \* "off", "command", "data" or "deliver"
    channel,  \* session.tlsActive, as "plain" or "tls"
    helo,     \* has the client said hello?
    login,    \* session.username and authenticated: {} or one login
    from,     \* session.from and inMail: the channel of MAIL, or "none"
    rcpts,    \* session.rcpts
    letter,   \* the message and the envelope that handleData builds
    todo,     \* the mailboxes it is still to be stored in
    fate,     \* what the client of each message knows of it
    tries,    \* how often it was sent
    copies,   \* copies[m][mb]: how often it was put in a mailbox
    kept,     \* the mailboxes in which it was stored without error
    goal,     \* ghost: the mailboxes of the last try
    since     \* ghost: recipients accepted since MAIL, own and left over

session == <<state, channel, helo, login, from, rcpts, letter, todo>>
mails == <<fate, tries, copies, kept, goal>>
vars == <<session, mails, since>>

Logins == [user : Users, over : Channels]
Accepted == [addr : Recipients, over : Channels]
NoLetter == [mail |-> "none", from |-> "none", to |-> <<>>, login |-> {},
             over |-> "plain"]
\* `own` of the message that is being collected, `old` of one before it.
Collected == [old : Seq(Recipients), own : Seq(Recipients)]
None == [old |-> <<>>, own |-> <<>>]
Everyone(s) == s.old \o s.own
Letters == [mail : Mails, from : Channels, to : Seq(Accepted),
            login : SUBSET Logins, over : Channels]

TypeOK ==
    /\ state \in [Conns -> {"off", "command", "data", "deliver"}]
    /\ channel \in [Conns -> Channels]
    /\ helo \in [Conns -> BOOLEAN]
    /\ login \in [Conns -> SUBSET Logins]
    /\ \A c \in Conns : \A u, v \in login[c] : u = v
    /\ from \in [Conns -> Channels \cup {"none"}]
    /\ rcpts \in [Conns -> Seq(Accepted)]
    /\ \A c \in Conns : Len(rcpts[c]) <= MaxRecipients
    /\ letter \in [Conns -> Letters \cup {NoLetter}]
    /\ todo \in [Conns -> Seq(Mailboxes)]
    /\ fate \in [Mails -> {"new", "sent", "accepted", "refused", "rejected"}]
    /\ tries \in [Mails -> 0..MaxTries]
    /\ copies \in [Mails -> [Mailboxes -> Nat]]
    /\ kept \in [Mails -> SUBSET Mailboxes]
    /\ goal \in [Mails -> SUBSET Mailboxes]
    /\ since \in [Conns -> Collected]

Init ==
    /\ state = [c \in Conns |-> "off"]
    /\ channel = [c \in Conns |-> "plain"]
    /\ helo = [c \in Conns |-> FALSE]
    /\ login = [c \in Conns |-> {}]
    /\ from = [c \in Conns |-> "none"]
    /\ rcpts = [c \in Conns |-> <<>>]
    /\ letter = [c \in Conns |-> NoLetter]
    /\ todo = [c \in Conns |-> <<>>]
    /\ fate = [m \in Mails |-> "new"]
    /\ tries = [m \in Mails |-> 0]
    /\ copies = [m \in Mails |-> [mb \in Mailboxes |-> 0]]
    /\ kept = [m \in Mails |-> {}]
    /\ goal = [m \in Mails |-> {}]
    /\ since = [c \in Conns |-> None]
-----------------------------------------------------------------------------
(* Routing                                                                 *)

\* The mailboxes of the first rule that matches a recipient.
RouteOf(r) ==
    LET matching == {i \in DOMAIN Routes : r \in Routes[i].to}
    IN  IF matching = {} THEN <<>>
        ELSE Routes[CHOOSE i \in matching : \A j \in matching : i <= j].boxes

\* (Mutation: matchRoutes does not collapse duplicates.)
AddAgain(boxes, mb) == Append(boxes, mb)
Add(boxes, mb) == IF mb \in ToSet(boxes) THEN boxes ELSE Append(boxes, mb)

\* Server.matchRoutes: the mailboxes of all recipients, each once; and its
\* inner loop, over the mailboxes of one of them.
AddAll(boxes, route) ==
    LET result[k \in 0..Len(route)] ==
            IF k = 0 THEN boxes ELSE Add(result[k-1], route[k])
    IN  result[Len(route)]
Match(rs) ==
    LET result[k \in 0..Len(rs)] ==
            IF k = 0 THEN <<>> ELSE AddAll(result[k-1], RouteOf(rs[k]))
    IN  result[Len(rs)]

\* Server.resolveMailboxes.
Resolve(m, rs, user) ==
    IF HeaderRouting /\ Header[m] # NoBox THEN <<Header[m]>>
    ELSE IF Match(rs) # <<>> THEN Match(rs)
    ELSE IF UserRouting /\ \E u \in user : UserBox[u] # NoBox
         THEN <<UserBox[CHOOSE u \in user : TRUE]>>
    ELSE <<Default>>
-----------------------------------------------------------------------------
(* Commands                                                                *)

Reads(c) == state[c] = "command"

\* (Mutation: the recipients stay.)
ResetSender(c) ==
    /\ from' = [from EXCEPT ![c] = "none"]
    /\ UNCHANGED rcpts
\* session.resetTransaction.
Reset(c) ==
    /\ from' = [from EXCEPT ![c] = "none"]
    /\ rcpts' = [rcpts EXCEPT ![c] = <<>>]

\* A new connection, over implicit TLS or plain.
Connect(c) ==
    /\ state[c] = "off"
    /\ state' = [state EXCEPT ![c] = "command"]
    /\ \E over \in {"plain"} \cup {x \in Channels : HasTLS} :
        channel' = [channel EXCEPT ![c] = over]
    /\ UNCHANGED <<helo, login, from, rcpts, letter, todo, mails, since>>

\* EHLO or HELO.  Without a name it is refused, but the old name is gone.
Ehlo(c) ==
    /\ Reads(c)
    /\ \/ /\ helo' = [helo EXCEPT ![c] = TRUE]
          /\ Reset(c)
       \/ /\ helo' = [helo EXCEPT ![c] = FALSE]
          /\ UNCHANGED <<from, rcpts>>
    /\ UNCHANGED <<state, channel, login, letter, todo, mails, since>>

\* (Mutation: the transaction survives the handshake.)
StartTLSKeeping(c) ==
    /\ Reads(c) /\ HasTLS /\ channel[c] = "plain"
    /\ channel' = [channel EXCEPT ![c] = "tls"]
    /\ helo' = [helo EXCEPT ![c] = FALSE]
    /\ login' = [login EXCEPT ![c] = {}]
    /\ UNCHANGED <<from, rcpts, state, letter, todo, mails, since>>

StartTLS(c) ==
    /\ Reads(c) /\ HasTLS /\ channel[c] = "plain"
    /\ channel' = [channel EXCEPT ![c] = "tls"]
    /\ helo' = [helo EXCEPT ![c] = FALSE]
    /\ login' = [login EXCEPT ![c] = {}]
    /\ Reset(c)
    /\ UNCHANGED <<state, letter, todo, mails, since>>

\* AUTH with the right credentials; with wrong ones nothing changes.
Authenticate(c) ==
    /\ Reads(c) /\ Auth # "disabled" /\ login[c] = {}
    /\ \E u \in Users :
        login' = [login EXCEPT ![c] = {[user |-> u, over |-> channel[c]]}]
    /\ UNCHANGED <<state, channel, helo, from, rcpts, letter, todo, mails, since>>

Mail(c) ==
    /\ Reads(c) /\ helo[c] /\ from[c] = "none"
    /\ Auth = "required" => login[c] # {}
    /\ from' = [from EXCEPT ![c] = channel[c]]
    /\ since' = [since EXCEPT ![c] = None]
    /\ UNCHANGED <<state, channel, helo, login, rcpts, letter, todo, mails>>

\* What was collected no longer counts for the message that comes next.
Outdate(c) == since' = [since EXCEPT ![c] = [old |-> Everyone(@), own |-> <<>>]]

\* Another MAIL in the same transaction is refused; the client may still go on.
MailAgain(c) ==
    /\ Reads(c) /\ from[c] # "none"
    /\ Outdate(c)
    /\ UNCHANGED <<state, channel, helo, login, from, rcpts, letter, todo, mails>>

\* (Mutation: one recipient too many.)
HasRoomLate(c) == Len(rcpts[c]) <= MaxRecipients
HasRoom(c) == Len(rcpts[c]) < MaxRecipients

Rcpt(c) ==
    /\ Reads(c) /\ from[c] # "none" /\ HasRoom(c)
    /\ \E r \in Recipients :
        /\ rcpts' = [rcpts EXCEPT ![c] = Append(@, [addr |-> r, over |-> channel[c]])]
        /\ since' = [since EXCEPT ![c].own = Append(@, r)]
    /\ UNCHANGED <<state, channel, helo, login, from, letter, todo, mails>>

Rset(c) ==
    /\ Reads(c) /\ Reset(c)
    /\ UNCHANGED <<state, channel, helo, login, letter, todo, mails, since>>

\* DATA, and the client sends a message that is not yet accepted.
Data(c) ==
    /\ Reads(c) /\ from[c] # "none" /\ rcpts[c] # <<>>
    /\ state' = [state EXCEPT ![c] = "data"]
    /\ UNCHANGED <<channel, helo, login, from, rcpts, letter, todo, mails, since>>

\* A line that is too long, or the idle timeout, ends the message but not the
\* session: no reply, the transaction stays, and the next line is a command.
BreakOff(c) ==
    /\ state[c] = "data"
    /\ state' = [state EXCEPT ![c] = "command"]
    /\ Outdate(c)
    /\ UNCHANGED <<channel, helo, login, from, rcpts, letter, todo, mails>>

Addresses(rs) == [i \in DOMAIN rs |-> rs[i].addr]

\* The final dot.  A message that is too large is drained and rejected.
Dot(c, m) ==
    /\ state[c] = "data"
    /\ fate[m] \in {"new", "refused"} /\ tries[m] < MaxTries
    /\ tries' = [tries EXCEPT ![m] = @ + 1]
    /\ Reset(c)
    /\ IF Size[m] = "large"
       THEN /\ fate' = [fate EXCEPT ![m] = "rejected"]
            /\ state' = [state EXCEPT ![c] = "command"]
            /\ UNCHANGED <<letter, todo, goal>>
       ELSE LET boxes == Resolve(m, Addresses(rcpts[c]), {u.user : u \in login[c]})
            IN  /\ fate' = [fate EXCEPT ![m] = "sent"]
                /\ state' = [state EXCEPT ![c] = "deliver"]
                /\ letter' = [letter EXCEPT ![c] =
                    [mail |-> m, from |-> from[c], to |-> rcpts[c],
                     login |-> login[c], over |-> channel[c]]]
                /\ todo' = [todo EXCEPT ![c] = boxes]
                /\ goal' = [goal EXCEPT ![m] = ToSet(boxes)]
    /\ UNCHANGED <<channel, helo, login, copies, kept, since>>

\* The reply after delivery; the client reads what became of its message.
Reply(c, result) ==
    /\ fate' = [fate EXCEPT ![letter[c].mail] = result]
    /\ state' = [state EXCEPT ![c] = "command"]
    /\ letter' = [letter EXCEPT ![c] = NoLetter]
    /\ todo' = [todo EXCEPT ![c] = <<>>]

TooLarge(m) == Size[m] = "edge" /\ AddReceived

\* Store.Deliver into the next mailbox.
DeliverNext(c) ==
    /\ state[c] = "deliver" /\ todo[c] # <<>> /\ ~TooLarge(letter[c].mail)
    /\ copies' = [copies EXCEPT ![letter[c].mail][Head(todo[c])] = @ + 1]
    /\ kept' = [kept EXCEPT ![letter[c].mail] = @ \cup {Head(todo[c])}]
    /\ todo' = [todo EXCEPT ![c] = Tail(@)]
    /\ UNCHANGED <<state, channel, helo, login, from, rcpts, letter, fate, tries,
                   goal, since>>

\* (Mutation: a mailbox that fails is passed over.)
DeliverSkips(c) ==
    /\ state[c] = "deliver" /\ todo[c] # <<>> /\ ~TooLarge(letter[c].mail)
    /\ copies' = [copies EXCEPT ![letter[c].mail][Head(todo[c])] = @ + 1]
    /\ todo' = [todo EXCEPT ![c] = Tail(@)]
    /\ UNCHANGED <<state, channel, helo, login, from, rcpts, letter, fate, tries,
                   kept, goal, since>>

\* The message is in the mailbox, but it cannot be written to disk: 451.
DeliverFails(c) ==
    /\ state[c] = "deliver" /\ todo[c] # <<>> /\ ~TooLarge(letter[c].mail)
    /\ copies' = [copies EXCEPT ![letter[c].mail][Head(todo[c])] = @ + 1]
    /\ Reply(c, "refused")
    /\ UNCHANGED <<channel, helo, login, from, rcpts, tries, kept, goal, since>>

\* The message has become too large by its Received header: 552.
DeliverRejects(c) ==
    /\ state[c] = "deliver" /\ todo[c] # <<>> /\ TooLarge(letter[c].mail)
    /\ Reply(c, "rejected")
    /\ UNCHANGED <<channel, helo, login, from, rcpts, tries, copies, kept, goal,
                   since>>

\* Stored everywhere: 250.
Accept(c) ==
    /\ state[c] = "deliver" /\ todo[c] = <<>>
    /\ Reply(c, "accepted")
    /\ UNCHANGED <<channel, helo, login, from, rcpts, tries, copies, kept, goal,
                   since>>

\* QUIT, a lost connection, the idle timeout or a line that is too long.  In the
\* middle of DATA, BreakOff comes first.
Leave(c) ==
    /\ Reads(c)
    /\ state' = [state EXCEPT ![c] = "off"]
    /\ channel' = [channel EXCEPT ![c] = "plain"]
    /\ helo' = [helo EXCEPT ![c] = FALSE]
    /\ login' = [login EXCEPT ![c] = {}]
    /\ Reset(c)
    /\ since' = [since EXCEPT ![c] = None]
    /\ UNCHANGED <<letter, todo, mails>>

Command(c) ==
    \/ Ehlo(c) \/ StartTLS(c) \/ Authenticate(c) \/ Mail(c) \/ MailAgain(c)
    \/ Rcpt(c) \/ Rset(c) \/ Data(c) \/ BreakOff(c) \/ \E m \in Mails : Dot(c, m)
Delivery(c) == DeliverNext(c) \/ DeliverFails(c) \/ DeliverRejects(c) \/ Accept(c)

Next == \E c \in Conns : Connect(c) \/ Command(c) \/ Delivery(c) \/ Leave(c)
Spec == Init /\ [][Next]_vars
-----------------------------------------------------------------------------
(* Correctness                                                             *)

\* A reply of 250 to DATA means that the message is stored in every mailbox it
\* was routed to, whatever failed in earlier tries.
AcceptedIsStored ==
    \A m \in Mails : fate[m] = "accepted" => goal[m] # {} /\ goal[m] \subseteq kept[m]

\* server.go, handleStartTLS, after RFC 3207: a message that is stored as
\* received over TLS has its sender, its recipients and its login from after
\* the handshake.
TLSMeansTLS ==
    \A c \in Conns : state[c] = "deliver" /\ letter[c].over = "tls" =>
        /\ letter[c].from = "tls"
        /\ \A i \in DOMAIN letter[c].to : letter[c].to[i].over = "tls"
        /\ \A u \in letter[c].login : u.over = "tls"

\* With MS_SMTP_AUTH=required nothing is stored for a client that is not logged
\* in at that moment, also if it started TLS after it had been.
OnlyAuthenticated ==
    Auth = "required" => \A c \in Conns : state[c] = "deliver" => letter[c].login # {}

\* The envelope of a message names the recipients that were accepted since its
\* own MAIL command, in their order: nothing is left over from a transaction
\* that was reset, rejected, or ended by a handshake.  What the code does leave,
\* in front of them, are the recipients of a message that was broken off before
\* its final dot: they stay in the transaction, in which the next MAIL is refused.
EnvelopeIsCurrent ==
    \A c \in Conns : state[c] = "deliver" =>
        Addresses(letter[c].to) = Everyone(since[c])

\* Sessions implement what Submission promises: a mailbox gets a message only
\* while its sender waits for the answer, only if the message is meant for it,
\* and - matchRoutes: "duplicates collapse so a message is never stored twice in
\* the same mailbox" - only once in a try; and the answer comes last.
Left(m) ==
    UNION {ToSet(todo[c]) : c \in {d \in Conns : state[d] = "deliver" /\ letter[d].mail = m}}
Submits == INSTANCE Submission WITH left <- [m \in Mails |-> Left(m)]
KeepsSubmission == Submits!Spec
=============================================================================
