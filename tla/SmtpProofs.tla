----------------------------- MODULE SmtpProofs -----------------------------
(***************************************************************************)
(* Theorems about Smtp, for any number of connections, recipients, logins  *)
(* and messages: first the envelope, then what becomes of a message -      *)
(* routing, delivery, and that Smtp implements Submission.  The lists of   *)
(* recipients are folded by functions that refer to themselves; a section  *)
(* shows that they exist.                                                  *)
(***************************************************************************)
EXTENDS Smtp, SequenceTheorems, WellFoundedInduction, TLAPS

\* Addresses maps a sequence, element by element.
LEMMA AddressesType ==
    ASSUME NEW rs \in Seq(Accepted)
    PROVE  /\ Addresses(rs) \in Seq(Recipients) /\ Len(Addresses(rs)) = Len(rs)
           /\ \A i \in 1..Len(rs) : Addresses(rs)[i] = rs[i].addr
<1> DEFINE a == Addresses(rs)
           n == Len(rs)
<1>1. n \in Nat /\ DOMAIN rs = 1..n /\ \A i \in 1..n : rs[i] \in Accepted
  BY LenProperties, ElementOfSeq
<1>2. a = [i \in 1..n |-> rs[i].addr]
  BY <1>1 DEF Addresses
<1>3. \A i \in 1..n : rs[i].addr \in Recipients
  BY <1>1 DEF Accepted
<1> HIDE DEF a, n
<1>4. a \in [1..n -> Recipients]
  BY <1>2, <1>3
<1>5. a \in Seq(Recipients)
  BY <1>1, <1>4, SeqDef
<1>6. 1..Len(a) = 1..n /\ Len(a) \in Nat
  BY <1>4, <1>5, LenProperties
<1>7. Len(a) = n
  BY <1>1, <1>6
<1> QED
  BY <1>2, <1>5, <1>7 DEF a, n

LEMMA AddressesAppend ==
    ASSUME NEW rs \in Seq(Accepted), NEW r \in Accepted
    PROVE  Addresses(Append(rs, r)) = Append(Addresses(rs), r.addr)
<1>1. /\ Append(rs, r) \in Seq(Accepted) /\ Len(Append(rs, r)) = Len(rs) + 1
      /\ \A i \in 1..Len(rs) : Append(rs, r)[i] = rs[i]
      /\ Append(rs, r)[Len(rs) + 1] = r
  BY AppendProperties
<1>2. /\ Addresses(rs) \in Seq(Recipients) /\ Len(Addresses(rs)) = Len(rs)
      /\ \A i \in 1..Len(rs) : Addresses(rs)[i] = rs[i].addr
  BY AddressesType
<1>3. /\ Addresses(Append(rs, r)) \in Seq(Recipients)
      /\ Len(Addresses(Append(rs, r))) = Len(rs) + 1
      /\ \A i \in 1..(Len(rs) + 1) :
            Addresses(Append(rs, r))[i] = Append(rs, r)[i].addr
  BY <1>1, AddressesType
<1>4. r.addr \in Recipients
  BY DEF Accepted
<1>5. /\ Append(Addresses(rs), r.addr) \in Seq(Recipients)
      /\ Len(Append(Addresses(rs), r.addr)) = Len(rs) + 1
      /\ \A i \in 1..Len(rs) : Append(Addresses(rs), r.addr)[i] = Addresses(rs)[i]
      /\ Append(Addresses(rs), r.addr)[Len(rs) + 1] = r.addr
  BY <1>2, <1>4, AppendProperties
<1>6. \A i \in 1..(Len(rs) + 1) :
        Addresses(Append(rs, r))[i] = Append(Addresses(rs), r.addr)[i]
  BY <1>1, <1>2, <1>3, <1>5
<1> QED
  BY <1>3, <1>5, <1>6, SeqEqual
-----------------------------------------------------------------------------
(* The invariant                                                           *)

\* The part of TypeOK that speaks of sessions.
SessionType ==
    /\ state \in [Conns -> {"off", "command", "data", "deliver"}]
    /\ channel \in [Conns -> Channels]
    /\ login \in [Conns -> SUBSET Logins]
    /\ from \in [Conns -> Channels \cup {"none"}]
    /\ rcpts \in [Conns -> Seq(Accepted)]
    /\ DOMAIN letter = Conns
    /\ since \in [Conns -> Collected]

\* Recipients come after a sender and a sender, if need be, after a login; all
\* of them came over the connection as it is now.
Envelope(c) ==
    /\ from[c] = "none" => rcpts[c] = <<>>
    /\ state[c] = "off" => from[c] = "none" /\ login[c] = {}
    /\ state[c] = "data" => from[c] # "none"
    /\ channel[c] = "tls" =>
        /\ from[c] # "plain"
        /\ \A i \in DOMAIN rcpts[c] : rcpts[c][i].over = "tls"
        /\ \A u \in login[c] : u.over = "tls"
    /\ Auth = "required" /\ from[c] # "none" => login[c] # {}
    /\ from[c] # "none" => Addresses(rcpts[c]) = Everyone(since[c])

\* The properties, of one session.
Letter(c) ==
    state[c] = "deliver" =>
        /\ letter[c].over = "tls" =>
            /\ letter[c].from = "tls"
            /\ \A i \in DOMAIN letter[c].to : letter[c].to[i].over = "tls"
            /\ \A u \in letter[c].login : u.over = "tls"
        /\ Auth = "required" => letter[c].login # {}
        /\ Addresses(letter[c].to) = Everyone(since[c])

\* Recipients are added behind those that are there, and only change sides.
LEMMA EveryoneType ==
    ASSUME NEW s \in Collected
    PROVE  /\ Everyone(s) \in Seq(Recipients)
           /\ [old |-> Everyone(s), own |-> <<>>] \in Collected
           /\ Everyone([old |-> Everyone(s), own |-> <<>>]) = Everyone(s)
<1>1. /\ s.old \in Seq(Recipients) /\ s.own \in Seq(Recipients)
      /\ <<>> \in Seq(Recipients)
  BY DEF Collected
<1>2. Everyone(s) \in Seq(Recipients)
  BY <1>1, ConcatProperties DEF Everyone
<1>3. Everyone(s) \o <<>> = Everyone(s)
  BY <1>2, ConcatEmptySeq
<1> QED
  BY <1>1, <1>2, <1>3 DEF Collected, Everyone

LEMMA EveryoneAppend ==
    ASSUME NEW s \in Collected, NEW r \in Recipients
    PROVE  /\ [s EXCEPT !.own = Append(@, r)] \in Collected
           /\ Everyone([s EXCEPT !.own = Append(@, r)]) = Append(Everyone(s), r)
<1> DEFINE a == s.old
           b == s.own
<1>1. a \in Seq(Recipients) /\ b \in Seq(Recipients) /\ <<r>> \in Seq(Recipients)
  BY DEF Collected
<1>2. s = [old |-> a, own |-> b]
  BY DEF Collected
<1>3. [s EXCEPT !.own = Append(b, r)] = [old |-> a, own |-> Append(b, r)]
  BY <1>2
<1>4. Everyone(s) = a \o b
  BY DEF Everyone
<1> HIDE DEF a, b
<1>5. Append(b, r) = b \o <<r>> /\ Append(b, r) \in Seq(Recipients)
  BY <1>1, AppendIsConcat, AppendProperties
<1>6. a \o b \in Seq(Recipients)
  BY <1>1, ConcatProperties
<1>7. Append(a \o b, r) = (a \o b) \o <<r>>
  BY <1>6, AppendIsConcat
<1>8. (a \o b) \o <<r>> = a \o (b \o <<r>>)
  BY <1>1, ConcatAssociative
<1>9. a \o Append(b, r) = Append(a \o b, r)
  BY <1>5, <1>7, <1>8
<1>10. Everyone([old |-> a, own |-> Append(b, r)]) = a \o Append(b, r)
  BY DEF Everyone
<1>11. [old |-> a, own |-> Append(b, r)] \in Collected
  BY <1>1, <1>5 DEF Collected
<1> QED
  BY <1>3, <1>4, <1>9, <1>10, <1>11 DEF b

LEMMA NoneType == None \in Collected /\ Everyone(None) = <<>>
<1>1. <<>> \in Seq(Recipients) /\ <<>> \o <<>> = <<>>
  BY ConcatEmptySeq
<1> QED
  BY <1>1 DEF None, Collected, Everyone

SessionInv == SessionType /\ \A c \in Conns : Envelope(c) /\ Letter(c)

LEMMA SessionInit == Init => SessionInv
BY NoneType DEF Init, SessionInv, SessionType, Envelope, Letter, Channels

\* Sessions share nothing but the mailboxes: a step of one leaves the others.
Same(d) ==
    /\ state'[d] = state[d] /\ channel'[d] = channel[d] /\ login'[d] = login[d]
    /\ from'[d] = from[d] /\ rcpts'[d] = rcpts[d] /\ letter'[d] = letter[d]
    /\ since'[d] = since[d]

LEMMA Alone ==
    ASSUME SessionInv, NEW c \in Conns, SessionType', Envelope(c)', Letter(c)',
           \A d \in Conns \ {c} : Same(d)
    PROVE  SessionInv'
<1>1. ASSUME NEW d \in Conns, d # c PROVE Envelope(d)' /\ Letter(d)'
  <2>1. Same(d) /\ Envelope(d) /\ Letter(d)
    BY <1>1 DEF SessionInv
  <2>2. Envelope(d)'
    BY <2>1 DEF Same, Envelope, Addresses
  <2>3. Letter(d)'
    BY <2>1 DEF Same, Letter, Addresses
  <2> QED
    BY <2>2, <2>3
<1> QED
  BY <1>1 DEF SessionInv

LEMMA CommandStep ==
    ASSUME SessionInv, NEW c \in Conns,
           \/ Connect(c) \/ Ehlo(c) \/ StartTLS(c) \/ Authenticate(c) \/ Mail(c)
           \/ MailAgain(c) \/ Rset(c) \/ Data(c) \/ BreakOff(c) \/ Leave(c)
    PROVE  SessionInv'
<1>1. CASE Connect(c)
  <2>1. SessionType'
    BY <1>1 DEF SessionInv, SessionType, Connect, Channels, mails
  <2>2. Envelope(c)' /\ Letter(c)'
    BY <1>1 DEF SessionInv, SessionType, Connect, Envelope, Letter, Addresses
  <2>3. \A d \in Conns \ {c} : Same(d)
    BY <1>1 DEF SessionInv, SessionType, Connect, Same
  <2> QED
    BY <2>1, <2>2, <2>3, Alone
<1>2. CASE Ehlo(c)
  <2>1. SessionType'
    <3>1. /\ from' \in [Conns -> Channels \cup {"none"}]
          /\ rcpts' \in [Conns -> Seq(Accepted)]
      <4>1. Reset(c) \/ UNCHANGED <<from, rcpts>>
        BY <1>2 DEF Ehlo
      <4>2. <<>> \in Seq(Accepted)
        OBVIOUS
      <4> QED
        BY <4>1, <4>2 DEF SessionInv, SessionType, Reset
    <3>2. UNCHANGED <<state, channel, login, letter, since>>
      BY <1>2 DEF Ehlo
    <3> QED
      BY <3>1, <3>2 DEF SessionInv, SessionType
  <2>2. Envelope(c)' /\ Letter(c)'
    BY <1>2 DEF SessionInv, SessionType, Ehlo, Reset, Reads, Envelope, Letter, Addresses
  <2>3. \A d \in Conns \ {c} : Same(d)
    BY <1>2 DEF SessionInv, SessionType, Ehlo, Reset, Same
  <2> QED
    BY <2>1, <2>2, <2>3, Alone
<1>3. CASE StartTLS(c)
  <2>1. SessionType'
    BY <1>3 DEF SessionInv, SessionType, StartTLS, Reset, Channels
  <2>2. Envelope(c)' /\ Letter(c)'
    BY <1>3 DEF SessionInv, SessionType, StartTLS, Reset, Reads, Envelope, Letter
  <2>3. \A d \in Conns \ {c} : Same(d)
    BY <1>3 DEF SessionInv, SessionType, StartTLS, Reset, Same
  <2> QED
    BY <2>1, <2>2, <2>3, Alone
<1>4. CASE Authenticate(c)
  <2>1. PICK u \in Users :
          login' = [login EXCEPT ![c] = {[user |-> u, over |-> channel[c]]}]
    BY <1>4 DEF Authenticate
  <2>2. SessionType'
    BY <1>4, <2>1 DEF SessionInv, SessionType, Authenticate, Logins
  <2>3. Envelope(c)' /\ Letter(c)'
    BY <1>4, <2>1 DEF SessionInv, SessionType, Authenticate, Reads, Envelope, Letter,
                      Addresses
  <2>4. \A d \in Conns \ {c} : Same(d)
    BY <1>4, <2>1 DEF SessionInv, SessionType, Authenticate, Same
  <2> QED
    BY <2>2, <2>3, <2>4, Alone
<1>5. CASE Mail(c)
  <2>1. SessionType'
    BY <1>5, NoneType DEF SessionInv, SessionType, Mail, Channels
  <2>2. rcpts[c] = <<>> /\ Addresses(<<>>) = <<>>
    <3>1. rcpts[c] = <<>>
      BY <1>5 DEF SessionInv, Mail, Envelope
    <3>2. Addresses(<<>>) = <<>>
      BY EmptySeq, AddressesType
    <3> QED
      BY <3>1, <3>2
  <2>3. Envelope(c)' /\ Letter(c)'
    <3>1. /\ from'[c] = channel[c] /\ rcpts'[c] = <<>> /\ since'[c] = None
          /\ state'[c] = "command" /\ channel'[c] = channel[c] /\ login'[c] = login[c]
          /\ Auth = "required" => login[c] # {}
      BY <1>5, <2>2 DEF SessionInv, SessionType, Mail, Reads
    <3>2. channel[c] \in Channels
      BY DEF SessionInv, SessionType
    <3>3. Addresses(rcpts[c])' = Everyone(since'[c])
      BY <2>2, <3>1, NoneType DEF Addresses
    <3> QED
      BY <3>1, <3>2, <3>3 DEF Envelope, Letter, Channels, SessionInv
  <2>4. \A d \in Conns \ {c} : Same(d)
    BY <1>5 DEF SessionInv, SessionType, Mail, Same
  <2> QED
    BY <2>1, <2>3, <2>4, Alone
<1>6. CASE Rset(c)
  <2>1. SessionType'
    BY <1>6 DEF SessionInv, SessionType, Rset, Reset
  <2>2. Envelope(c)' /\ Letter(c)'
    BY <1>6 DEF SessionInv, SessionType, Rset, Reset, Reads, Envelope, Letter
  <2>3. \A d \in Conns \ {c} : Same(d)
    BY <1>6 DEF SessionInv, SessionType, Rset, Reset, Same
  <2> QED
    BY <2>1, <2>2, <2>3, Alone
<1>7. CASE Data(c)
  <2>1. SessionType'
    BY <1>7 DEF SessionInv, SessionType, Data
  <2>2. Envelope(c)' /\ Letter(c)'
    BY <1>7 DEF SessionInv, SessionType, Data, Envelope, Letter, Addresses
  <2>3. \A d \in Conns \ {c} : Same(d)
    BY <1>7 DEF SessionInv, SessionType, Data, Same
  <2> QED
    BY <2>1, <2>2, <2>3, Alone
<1>8. CASE Leave(c)
  <2>1. SessionType'
    BY <1>8, NoneType DEF SessionInv, SessionType, Leave, Reset, Channels
  <2>2. Envelope(c)' /\ Letter(c)'
    BY <1>8 DEF SessionInv, SessionType, Leave, Reads, Reset, Envelope, Letter
  <2>3. \A d \in Conns \ {c} : Same(d)
    BY <1>8 DEF SessionInv, SessionType, Leave, Reset, Same
  <2> QED
    BY <2>1, <2>2, <2>3, Alone
<1>9. CASE MailAgain(c) \/ BreakOff(c)
  <2>1. /\ Outdate(c) /\ from[c] # "none"
        /\ UNCHANGED <<channel, login, from, rcpts, letter>>
        /\ state' = [state EXCEPT ![c] = "command"]
    BY <1>9 DEF SessionInv, SessionType, Envelope, MailAgain, BreakOff, Reads
  <2>2. /\ since' = [since EXCEPT ![c] = [old |-> Everyone(since[c]), own |-> <<>>]]
        /\ since'[c] = [old |-> Everyone(since[c]), own |-> <<>>]
        /\ since[c] \in Collected
    BY <2>1 DEF SessionInv, SessionType, Outdate
  <2>3. since'[c] \in Collected /\ Everyone(since'[c]) = Everyone(since[c])
    BY <2>2, EveryoneType
  <2>4. SessionType'
    BY <2>1, <2>2, <2>3 DEF SessionInv, SessionType
  <2>5. Envelope(c)'
    <3>1. Addresses(rcpts[c])' = Everyone(since'[c])
      BY <2>1, <2>3 DEF SessionInv, Envelope, Addresses
    <3> QED
      BY <2>1, <3>1 DEF SessionInv, SessionType, Envelope
  <2>6. Letter(c)'
    BY <2>1 DEF SessionInv, SessionType, Letter
  <2>7. \A d \in Conns \ {c} : Same(d)
    BY <2>1, <2>2 DEF SessionInv, SessionType, Same
  <2> QED
    BY <2>4, <2>5, <2>6, <2>7, Alone
<1> QED
  BY <1>1, <1>2, <1>3, <1>4, <1>5, <1>6, <1>7, <1>8, <1>9

\* A recipient is added over the connection as it is.
LEMMA RcptStep ==
    ASSUME SessionInv, NEW c \in Conns, Rcpt(c)
    PROVE  SessionInv'
<1>1. PICK r \in Recipients :
        /\ rcpts' = [rcpts EXCEPT ![c] = Append(@, [addr |-> r, over |-> channel[c]])]
        /\ since' = [since EXCEPT ![c].own = Append(@, r)]
  BY DEF Rcpt
<1> DEFINE e == [addr |-> r, over |-> channel[c]]
<1>2. e \in Accepted /\ e.addr = r /\ e.over = channel[c]
  BY DEF SessionInv, SessionType, Accepted
<1> HIDE DEF e
<1>3. rcpts' = [rcpts EXCEPT ![c] = Append(@, e)]
  BY <1>1 DEF e
<1>4. /\ rcpts[c] \in Seq(Accepted) /\ rcpts'[c] = Append(rcpts[c], e)
      /\ since'[c] \in Collected
      /\ Everyone(since'[c]) = Append(Everyone(since[c]), r)
  <2>1. since[c] \in Collected /\ since'[c] = [since[c] EXCEPT !.own = Append(@, r)]
    BY <1>1 DEF SessionInv, SessionType
  <2> DEFINE t == [since[c] EXCEPT !.own = Append(@, r)]
  <2>2. t \in Collected /\ Everyone(t) = Append(Everyone(since[c]), r)
    BY <2>1, EveryoneAppend
  <2>3. since'[c] = t
    BY <2>1
  <2> HIDE DEF t
  <2>4. rcpts[c] \in Seq(Accepted) /\ rcpts'[c] = Append(rcpts[c], e)
    BY <1>3 DEF SessionInv, SessionType
  <2> QED
    BY <2>2, <2>3, <2>4
<1>5. /\ state[c] = "command" /\ from[c] # "none"
      /\ UNCHANGED <<state, channel, login, from, letter>>
  BY DEF Rcpt, Reads
<1>6. SessionType'
  <2>1. since' \in [Conns -> Collected]
    BY <1>1, <1>4 DEF SessionInv, SessionType
  <2> QED
    BY <1>2, <1>3, <1>4, <1>5, <2>1, AppendProperties DEF SessionInv, SessionType
<1>7. Addresses(rcpts'[c]) = Everyone(since'[c])
  <2>1. Addresses(rcpts[c]) = Everyone(since[c])
    BY <1>5 DEF SessionInv, Envelope
  <2> QED
    BY <1>2, <1>4, <2>1, AddressesAppend
<1>8. Envelope(c)' /\ Letter(c)'
  <2>1. channel[c] = "tls" => \A i \in DOMAIN rcpts'[c] : rcpts'[c][i].over = "tls"
    <3>1. /\ DOMAIN rcpts'[c] = 1..(Len(rcpts[c]) + 1)
          /\ \A i \in 1..Len(rcpts[c]) : rcpts'[c][i] = rcpts[c][i]
          /\ rcpts'[c][Len(rcpts[c]) + 1] = e
          /\ Len(rcpts[c]) \in Nat /\ DOMAIN rcpts[c] = 1..Len(rcpts[c])
      BY <1>2, <1>4, AppendProperties
    <3> QED
      BY <1>2, <3>1 DEF SessionInv, Envelope
  <2>2. Addresses(rcpts[c])' = Everyone(since'[c])
    BY <1>7 DEF Addresses
  <2> QED
    BY <1>5, <2>1, <2>2 DEF SessionInv, Envelope, Letter
<1>9. \A d \in Conns \ {c} : Same(d)
  BY <1>1, <1>3, <1>5 DEF SessionInv, SessionType, Same
<1> QED
  BY <1>6, <1>8, <1>9, Alone

\* The letter is built from the envelope.
LEMMA DotStep ==
    ASSUME SessionInv, NEW c \in Conns, NEW m \in Mails, Dot(c, m)
    PROVE  SessionInv'
<1>1. /\ state[c] = "data" /\ from' = [from EXCEPT ![c] = "none"]
      /\ rcpts' = [rcpts EXCEPT ![c] = <<>>]
      /\ UNCHANGED <<channel, login, since>>
  BY DEF Dot, Reset
<1>2. CASE Size[m] = "large"
  <2>1. state' = [state EXCEPT ![c] = "command"] /\ letter' = letter
    BY <1>2 DEF Dot
  <2>2. SessionType'
    BY <1>1, <2>1 DEF SessionInv, SessionType
  <2>3. Envelope(c)' /\ Letter(c)'
    BY <1>1, <2>1 DEF SessionInv, SessionType, Envelope, Letter
  <2>4. \A d \in Conns \ {c} : Same(d)
    BY <1>1, <2>1 DEF SessionInv, SessionType, Same
  <2> QED
    BY <2>2, <2>3, <2>4, Alone
<1>3. CASE Size[m] # "large"
  <2>1. /\ state' = [state EXCEPT ![c] = "deliver"]
        /\ letter' = [letter EXCEPT ![c] =
              [mail |-> m, from |-> from[c], to |-> rcpts[c],
               login |-> login[c], over |-> channel[c]]]
    BY <1>3 DEF Dot
  <2>2. SessionType'
    BY <1>1, <2>1 DEF SessionInv, SessionType
  <2>3. Envelope(c)'
    BY <1>1, <2>1 DEF SessionInv, SessionType, Envelope
  <2>4. Letter(c)'
    <3>1. /\ letter'[c].from = from[c] /\ letter'[c].to = rcpts[c]
          /\ letter'[c].login = login[c] /\ letter'[c].over = channel[c]
          /\ since'[c] = since[c]
      BY <1>1, <2>1 DEF SessionInv, SessionType
    <3>2. from[c] # "none" /\ from[c] \in Channels \cup {"none"}
      BY <1>1 DEF SessionInv, SessionType, Envelope
    <3>3. Addresses(letter[c].to)' = Everyone(since'[c])
      <4>1. Addresses(rcpts[c]) = Everyone(since[c])
        BY <3>2 DEF SessionInv, Envelope
      <4>2. Addresses(letter[c].to)' = Addresses(rcpts[c])
        BY <3>1 DEF Addresses
      <4> QED
        BY <3>1, <4>1, <4>2
    <3> QED
      BY <3>1, <3>2, <3>3 DEF SessionInv, Envelope, Letter, Channels
  <2>5. \A d \in Conns \ {c} : Same(d)
    BY <1>1, <2>1 DEF SessionInv, SessionType, Same
  <2> QED
    BY <2>2, <2>3, <2>4, <2>5, Alone
<1> QED
  BY <1>2, <1>3

LEMMA DeliveryStep ==
    ASSUME SessionInv, NEW c \in Conns, Delivery(c)
    PROVE  SessionInv'
<1>1. CASE DeliverNext(c)
  <2>1. UNCHANGED <<state, channel, login, from, rcpts, letter, since>>
    BY <1>1 DEF DeliverNext
  <2> QED
    BY <2>1 DEF SessionInv, SessionType, Envelope, Letter, Addresses
<1>2. CASE DeliverFails(c) \/ DeliverRejects(c) \/ Accept(c)
  <2>1. /\ state[c] = "deliver" /\ state' = [state EXCEPT ![c] = "command"]
        /\ letter' = [letter EXCEPT ![c] = NoLetter]
        /\ UNCHANGED <<channel, login, from, rcpts, since>>
    BY <1>2 DEF DeliverFails, DeliverRejects, Accept, Reply
  <2>2. SessionType'
    BY <2>1 DEF SessionInv, SessionType
  <2>3. Envelope(c)' /\ Letter(c)'
    BY <2>1 DEF SessionInv, SessionType, Envelope, Letter, Addresses
  <2>4. \A d \in Conns \ {c} : Same(d)
    BY <2>1 DEF SessionInv, SessionType, Same
  <2> QED
    BY <2>2, <2>3, <2>4, Alone
<1> QED
  BY <1>1, <1>2 DEF Delivery

LEMMA SessionNext == SessionInv /\ [Next]_vars => SessionInv'
<1> SUFFICES ASSUME SessionInv, [Next]_vars PROVE SessionInv'
  OBVIOUS
<1>1. CASE UNCHANGED vars
  BY <1>1 DEF vars, session, SessionInv, SessionType, Envelope, Letter, Addresses
<1> QED
  BY <1>1, CommandStep, RcptStep, DotStep, DeliveryStep DEF Next, Command
-----------------------------------------------------------------------------
(* Theorems                                                                *)

\* Every session keeps its envelope in order, and so does what it stores.
LEMMA SessionCorrect == Spec => []SessionInv
BY SessionInit, SessionNext, PTL DEF Spec

\* What is stored as received over TLS has its sender, its recipients and its
\* login from after the handshake.
THEOREM NothingFromBeforeTLS == Spec => []TLSMeansTLS
<1>1. SessionInv => TLSMeansTLS
  BY DEF SessionInv, Letter, TLSMeansTLS
<1> QED
  BY <1>1, SessionCorrect, PTL

\* With MS_SMTP_AUTH=required nothing is stored for a client without a login.
THEOREM NothingWithoutLogin == Spec => []OnlyAuthenticated
<1>1. SessionInv => OnlyAuthenticated
  BY DEF SessionInv, Letter, OnlyAuthenticated
<1> QED
  BY <1>1, SessionCorrect, PTL

\* An envelope names the recipients accepted since its own MAIL, in order; in
\* front of them are those of a message that was broken off in the same
\* transaction, or collected before another MAIL in it, and no others.
THEOREM NothingFromBeforeMail == Spec => []EnvelopeIsCurrent
<1>1. SessionInv => EnvelopeIsCurrent
  BY DEF SessionInv, Letter, EnvelopeIsCurrent
<1> QED
  BY <1>1, SessionCorrect, PTL

-----------------------------------------------------------------------------
(* Induction over the natural numbers, with a set for the property that is *)
(* proved, and what it says of functions that are defined by recursion     *)

\* A set with 0 that is closed under successors contains every number: the
\* least number that is missing would have a predecessor that is missing too.
LEMMA SetInduction ==
    ASSUME NEW S, 0 \in S, \A n \in Nat : n \in S => n + 1 \in S
    PROVE  Nat \subseteq S
<1> DEFINE R == OpToRel(<, Nat)
<1>1. IsWellFoundedOn(R, Nat)
  BY NatLessThanWellFounded
<1>2. \A x, y \in Nat : x < y => <<x, y>> \in R
  BY DEF OpToRel
<1> HIDE DEF R
<1> SUFFICES ASSUME Nat \ S # {} PROVE FALSE
  OBVIOUS
<1>3. PICK x \in Nat \ S : \A y \in Nat \ S : ~ (<<y, x>> \in R)
  BY <1>1, WFMin
<1>4. x # 0 /\ x - 1 \in Nat /\ x - 1 < x
  BY <1>3
<1>5. x - 1 \in S
  BY <1>2, <1>3, <1>4
<1>6. (x - 1) + 1 \in S
  BY <1>4, <1>5
<1> QED
  BY <1>3, <1>4, <1>6

\* A set of numbers has a least one.
LEMMA LeastNumber ==
    ASSUME NEW S \in SUBSET Nat, S # {}
    PROVE  \E i \in S : \A j \in S : i <= j
<1> DEFINE R == OpToRel(<, Nat)
<1>1. IsWellFoundedOn(R, Nat)
  BY NatLessThanWellFounded
<1>2. \A x, y \in Nat : x < y => <<x, y>> \in R
  BY DEF OpToRel
<1> HIDE DEF R
<1>3. PICK i \in S : \A j \in S : ~ (<<j, i>> \in R)
  BY <1>1, WFMin
<1>4. \A j \in S : j \in Nat /\ i \in Nat /\ ~ (j < i)
  BY <1>2, <1>3
<1>5. \A j \in S : i <= j
  BY <1>4
<1> QED
  BY <1>3, <1>5

\* What holds at the start and is kept by each step holds of all values.
LEMMA Stays ==
    ASSUME NEW S, NEW N \in Nat, NEW f,
           f[0] \in S, \A n \in 1..N : f[n-1] \in S => f[n] \in S
    PROVE  \A n \in 0..N : f[n] \in S
<1> DEFINE Good == {n \in Nat : n <= N => f[n] \in S}
<1>1. 0 \in Good
  OBVIOUS
<1>2. ASSUME NEW n \in Nat, n \in Good PROVE n + 1 \in Good
  <2> SUFFICES ASSUME n + 1 <= N PROVE f[n + 1] \in S
    OBVIOUS
  <2>1. n + 1 \in 1..N /\ (n + 1) - 1 = n /\ n <= N
    OBVIOUS
  <2> QED
    BY <1>2, <2>1
<1> HIDE DEF Good
<1>3. Nat \subseteq Good
  BY <1>1, <1>2, SetInduction
<1> QED
  BY <1>3 DEF Good

\* The functions that begin with base and follow step through e.
Recursions(S, N, base, step, e) ==
    {f \in [0..N -> S] : f[0] = base /\ \A n \in 1..N : f[n] = step[f[n-1]][e[n]]}

\* There is one, for any sequence of N things, if the steps stay in S.
LEMMA RecursionExists ==
    ASSUME NEW S, NEW T, NEW N \in Nat, NEW base \in S,
           NEW step \in [S -> [T -> S]], NEW e \in [1..N -> T]
    PROVE  Recursions(S, N, base, step, e) # {}
<1> DEFINE Solves(f, n) ==
        \A k \in 0..n : f[k] = IF k = 0 THEN base ELSE step[f[k-1]][e[k]]
<1> DEFINE Solvable(n) == \E f \in [0..n -> S] : Solves(f, n)
           Good == {n \in Nat : n <= N => Solvable(n)}
<1>1. Solvable(0)
  <2>1. [k \in 0..0 |-> base] \in [0..0 -> S] /\ Solves([k \in 0..0 |-> base], 0)
    OBVIOUS
  <2> QED
    BY <2>1
<1>2. ASSUME NEW n \in Nat, n + 1 <= N, Solvable(n) PROVE Solvable(n + 1)
  <2>1. PICK f \in [0..n -> S] : Solves(f, n)
    BY <1>2
  <2> DEFINE next == step[f[n]][e[n + 1]]
             g == [k \in 0..(n + 1) |-> IF k <= n THEN f[k] ELSE next]
  <2>2. f[n] \in S /\ n + 1 \in 1..N /\ e[n + 1] \in T
    BY <1>2, <2>1
  <2>3. next \in S
    BY <2>2
  <2> HIDE DEF next
  <2>4. g \in [0..(n + 1) -> S]
    BY <2>1, <2>3
  <2>5. \A k \in 0..n : g[k] = f[k]
    OBVIOUS
  <2>6. g[n + 1] = next
    OBVIOUS
  <2>7. ASSUME NEW k \in 0..(n + 1)
        PROVE  g[k] = IF k = 0 THEN base ELSE step[g[k-1]][e[k]]
    <3>1. CASE k <= n
      <4>1. k \in 0..n /\ (k # 0 => k - 1 \in 0..n)
        BY <3>1
      <4> QED
        BY <2>1, <2>5, <4>1
    <3>2. CASE k = n + 1
      <4>1. k # 0 /\ k - 1 = n /\ n \in 0..n
        BY <3>2
      <4> QED
        BY <2>5, <2>6, <3>2, <4>1 DEF next
    <3> QED
      BY <3>1, <3>2
  <2> HIDE DEF g
  <2> QED
    BY <2>4, <2>7
<1> HIDE DEF Solvable
<1>3. Nat \subseteq Good
  <2>1. 0 \in Good /\ \A n \in Nat : n \in Good => n + 1 \in Good
    BY <1>1, <1>2
  <2> HIDE DEF Good
  <2> QED
    BY <2>1, SetInduction
<1>4. Solvable(N)
  BY <1>3
<1> HIDE DEF Good
<1>5. PICK f \in [0..N -> S] : Solves(f, N)
  BY <1>4 DEF Solvable
<1>6. f[0] = base /\ \A n \in 1..N : f[n] = step[f[n-1]][e[n]]
  BY <1>5
<1> QED
  BY <1>6 DEF Recursions

-----------------------------------------------------------------------------
(* Routing                                                                 *)

\* Lists of mailboxes with no mailbox twice.
Lists == {s \in Seq(Mailboxes) : IsInjective(s)}

LEMMA ListOf == ASSUME NEW mb \in Mailboxes PROVE <<mb>> \in Lists
BY DEF Lists, IsInjective

LEMMA EmptyList == <<>> \in Lists
BY DEF Lists, IsInjective

LEMMA AddOnce ==
    ASSUME NEW boxes \in Lists, NEW mb \in Mailboxes
    PROVE  Add(boxes, mb) \in Lists
<1>1. CASE mb \in ToSet(boxes)
  BY <1>1 DEF Add
<1>2. CASE mb \notin ToSet(boxes)
  <2> DEFINE n == Len(boxes)
             s == Append(boxes, mb)
  <2>1. /\ s \in Seq(Mailboxes) /\ Len(s) = n + 1 /\ n \in Nat
        /\ \A i \in 1..n : s[i] = boxes[i]
        /\ s[n + 1] = mb
    BY AppendProperties, LenProperties DEF Lists
  <2>2. DOMAIN s = 1..(n + 1) /\ DOMAIN boxes = 1..n
    BY <2>1, LenProperties DEF Lists
  <2>3. \A i \in 1..n : boxes[i] # mb
    BY <1>2, <2>2 DEF ToSet
  <2>4. \A i, j \in 1..n : boxes[i] = boxes[j] => i = j
    BY <2>2 DEF Lists, IsInjective
  <2> HIDE DEF s, n
  <2>5. \A i, j \in 1..(n + 1) : s[i] = s[j] => i = j
    BY <2>1, <2>3, <2>4
  <2>6. IsInjective(s)
    BY <2>2, <2>5 DEF IsInjective
  <2>7. s \in Lists
    BY <2>1, <2>6 DEF Lists
  <2> QED
    BY <1>2, <2>7 DEF Add, s
<1> QED
  BY <1>1, <1>2

LEMMA AddAllOnce ==
    ASSUME NEW boxes \in Lists, NEW route \in Seq(Mailboxes)
    PROVE  AddAll(boxes, route) \in Lists
<1> DEFINE N == Len(route)
           step == [s \in Lists |-> [mb \in Mailboxes |-> Add(s, mb)]]
           Solves(f) == f = [k \in 0..N |-> IF k = 0 THEN boxes ELSE Add(f[k-1], route[k])]
           result == CHOOSE f : Solves(f)
<1>1. N \in Nat /\ route \in [1..N -> Mailboxes]
  BY LenProperties
<1>2. step \in [Lists -> [Mailboxes -> Lists]]
  BY AddOnce
<1>3. \A s \in Lists, mb \in Mailboxes : step[s][mb] = Add(s, mb)
  OBVIOUS
<1>4. AddAll(boxes, route) = result[N]
  BY DEF AddAll
<1> HIDE DEF N, step
<1>5. PICK f \in Recursions(Lists, N, boxes, step, route) : TRUE
  <2>1. Recursions(Lists, N, boxes, step, route) # {}
    BY <1>1, <1>2, RecursionExists, Zenon
  <2> QED
    BY <2>1
<1>6. Solves(f)
  <2>1. \A k \in 1..N : k - 1 \in 0..N /\ f[k-1] \in Lists /\ route[k] \in Mailboxes
    BY <1>1 DEF Recursions
  <2>2. \A k \in 1..N : f[k] = Add(f[k-1], route[k])
    BY <1>3, <2>1 DEF Recursions
  <2> QED
    BY <1>1, <2>2 DEF Recursions
<1>7. Solves(result)
  BY <1>6
<1> HIDE DEF result
<1>8. result[0] \in Lists /\ \A k \in 1..N : result[k] = Add(result[k-1], route[k])
  BY <1>1, <1>7
<1> HIDE DEF Solves
<1>9. \A k \in 1..N : result[k-1] \in Lists => result[k] \in Lists
  BY <1>1, <1>8, AddOnce
<1>10. \A k \in 0..N : result[k] \in Lists
  BY <1>1, <1>8, <1>9, Stays
<1> QED
  BY <1>1, <1>4, <1>10

LEMMA RouteOfType ==
    ASSUME NEW r \in Recipients
    PROVE  RouteOf(r) \in Seq(Mailboxes)
<1> DEFINE matching == {i \in DOMAIN Routes : r \in Routes[i].to}
<1>1. /\ DOMAIN Routes = 1..Len(Routes) /\ Len(Routes) \in Nat
      /\ \A i \in DOMAIN Routes : Routes[i].boxes \in Seq(Mailboxes)
  <2>1. Routes \in Seq([to : SUBSET Recipients, boxes : Seq(Mailboxes) \ {<<>>}])
    BY SmtpAssumption
  <2>2. /\ DOMAIN Routes = 1..Len(Routes) /\ Len(Routes) \in Nat
        /\ Routes \in [1..Len(Routes) -> [to : SUBSET Recipients, boxes : Seq(Mailboxes) \ {<<>>}]]
    BY <2>1, LenProperties
  <2> QED
    BY <2>2
<1>2. CASE matching = {}
  <2>1. RouteOf(r) = <<>>
    BY <1>2 DEF RouteOf
  <2> QED
    BY <2>1
<1>3. CASE matching # {}
  <2>1. \E i \in matching : \A j \in matching : i <= j
    <3>1. matching \in SUBSET Nat
      BY <1>1
    <3> HIDE DEF matching
    <3> QED
      BY <1>3, <3>1, LeastNumber
  <2>2. PICK i \in matching : RouteOf(r) = Routes[i].boxes
    BY <1>3, <2>1, Zenon DEF RouteOf
  <2> QED
    BY <1>1, <2>2
<1> QED
  BY <1>2, <1>3

LEMMA MatchOnce ==
    ASSUME NEW rs \in Seq(Recipients)
    PROVE  Match(rs) \in Lists
<1> DEFINE N == Len(rs)
           step == [s \in Lists |-> [r \in Recipients |-> AddAll(s, RouteOf(r))]]
           Solves(f) ==
               f = [k \in 0..N |-> IF k = 0 THEN <<>> ELSE AddAll(f[k-1], RouteOf(rs[k]))]
           result == CHOOSE f : Solves(f)
<1>1. N \in Nat /\ rs \in [1..N -> Recipients]
  BY LenProperties
<1>2. step \in [Lists -> [Recipients -> Lists]]
  BY AddAllOnce, RouteOfType
<1>3. \A s \in Lists, r \in Recipients : step[s][r] = AddAll(s, RouteOf(r))
  OBVIOUS
<1>4. Match(rs) = result[N]
  BY Zenon DEF Match
<1> HIDE DEF N, step
<1>5. PICK f \in Recursions(Lists, N, <<>>, step, rs) : TRUE
  <2>1. Recursions(Lists, N, <<>>, step, rs) # {}
    BY <1>1, <1>2, EmptyList, RecursionExists, Zenon
  <2> QED
    BY <2>1
<1>6. Solves(f)
  <2>1. \A k \in 1..N : k - 1 \in 0..N /\ f[k-1] \in Lists /\ rs[k] \in Recipients
    BY <1>1 DEF Recursions
  <2>2. \A k \in 1..N : f[k] = AddAll(f[k-1], RouteOf(rs[k]))
    BY <1>3, <2>1 DEF Recursions
  <2> QED
    BY <1>1, <2>2 DEF Recursions
<1>7. Solves(result)
  BY <1>6
<1> HIDE DEF result
<1>8. result[0] \in Lists /\ \A k \in 1..N : result[k] = AddAll(result[k-1], RouteOf(rs[k]))
  BY <1>1, <1>7, EmptyList
<1> HIDE DEF Solves
<1>9. \A k \in 1..N : result[k-1] \in Lists => result[k] \in Lists
  BY <1>1, <1>8, AddAllOnce, RouteOfType
<1>10. \A k \in 0..N : result[k] \in Lists
  BY <1>1, <1>8, <1>9, Stays
<1> QED
  BY <1>1, <1>4, <1>10

\* There is always a mailbox to deliver to.
LEMMA ResolveOnce ==
    ASSUME NEW m \in Mails, NEW rs \in Seq(Recipients), NEW user \in SUBSET Users,
           \A u, v \in user : u = v
    PROVE  Resolve(m, rs, user) \in Lists /\ Resolve(m, rs, user) # <<>>
<1>1. CASE HeaderRouting /\ Header[m] # NoBox
  <2>1. Header[m] \in Mailboxes
    BY <1>1, SmtpAssumption
  <2> QED
    BY <1>1, <2>1, ListOf DEF Resolve
<1>2. CASE ~ (HeaderRouting /\ Header[m] # NoBox) /\ Match(rs) # <<>>
  BY <1>2, MatchOnce DEF Resolve
<1>3. CASE /\ ~ (HeaderRouting /\ Header[m] # NoBox) /\ Match(rs) = <<>>
           /\ UserRouting /\ \E u \in user : UserBox[u] # NoBox
  <2>1. (CHOOSE u \in user : TRUE) \in user
    BY <1>3
  <2>2. UserBox[CHOOSE u \in user : TRUE] # NoBox
    BY <1>3, <2>1
  <2>3. UserBox[CHOOSE u \in user : TRUE] \in Mailboxes
    BY <2>1, <2>2, SmtpAssumption
  <2>4. Resolve(m, rs, user) = <<UserBox[CHOOSE u \in user : TRUE]>>
    BY <1>3 DEF Resolve
  <2> QED
    BY <2>3, <2>4, ListOf
<1>4. CASE /\ ~ (HeaderRouting /\ Header[m] # NoBox) /\ Match(rs) = <<>>
           /\ ~ (UserRouting /\ \E u \in user : UserBox[u] # NoBox)
  BY <1>4, SmtpAssumption, ListOf DEF Resolve
<1> QED
  BY <1>1, <1>2, <1>3, <1>4
-----------------------------------------------------------------------------
(* Types                                                                   *)

\* The conjuncts of TypeOK by name, for a step that leaves some of them alone.
Types ==
    /\ state \in [Conns -> {"off", "command", "data", "deliver"}]
    /\ channel \in [Conns -> Channels]
    /\ helo \in [Conns -> BOOLEAN]
    /\ from \in [Conns -> Channels \cup {"none"}]
    /\ letter \in [Conns -> Letters \cup {NoLetter}]
    /\ todo \in [Conns -> Seq(Mailboxes)]
    /\ since \in [Conns -> Collected]
LoginType ==
    login \in [Conns -> SUBSET Logins] /\ \A c \in Conns : \A u, v \in login[c] : u = v
RcptsType ==
    rcpts \in [Conns -> Seq(Accepted)] /\ \A c \in Conns : Len(rcpts[c]) <= MaxRecipients
MailType ==
    /\ fate \in [Mails -> {"new", "sent", "accepted", "refused", "rejected"}]
    /\ tries \in [Mails -> 0..MaxTries]
    /\ copies \in [Mails -> [Mailboxes -> Nat]]
    /\ kept \in [Mails -> SUBSET Mailboxes]
    /\ goal \in [Mails -> SUBSET Mailboxes]

LEMMA TypeParts == TypeOK <=> Types /\ LoginType /\ RcptsType /\ MailType
BY DEF TypeOK, Types, LoginType, RcptsType, MailType

LEMMA TypePartsNext == TypeOK' <=> Types' /\ LoginType' /\ RcptsType' /\ MailType'
BY DEF TypeOK, Types, LoginType, RcptsType, MailType

LEMMA TypeInit == Init => TypeOK
<1> SUFFICES ASSUME Init PROVE TypeOK
  OBVIOUS
<1>1. <<>> \in Seq(Accepted) /\ <<>> \in Seq(Mailboxes) /\ None \in Collected
      /\ Len(<<>>) = 0
  BY NoneType
<1>2. MaxRecipients \in Nat /\ MaxTries \in Nat
  BY SmtpAssumption
<1>3. Types
  BY <1>1 DEF Init, Types, Channels
<1>4. LoginType
  BY DEF Init, LoginType
<1>5. RcptsType
  BY <1>1, <1>2 DEF Init, RcptsType
<1>6. MailType
  BY <1>2 DEF Init, MailType
<1> QED
  BY <1>3, <1>4, <1>5, <1>6, TypeParts

\* The transaction is reset, or left alone.
LEMMA ResetType ==
    ASSUME TypeOK, NEW c \in Conns, Reset(c) \/ UNCHANGED <<from, rcpts>>
    PROVE  from' \in [Conns -> Channels \cup {"none"}] /\ RcptsType'
<1>1. <<>> \in Seq(Accepted) /\ Len(<<>>) = 0 /\ MaxRecipients \in Nat
  BY SmtpAssumption
<1>2. Types /\ RcptsType
  BY TypeParts
<1>3. CASE Reset(c)
  <2>1. rcpts' = [rcpts EXCEPT ![c] = <<>>] /\ from' = [from EXCEPT ![c] = "none"]
    BY <1>3 DEF Reset
  <2>2. rcpts' \in [Conns -> Seq(Accepted)]
    BY <1>1, <1>2, <2>1 DEF RcptsType
  <2>3. ASSUME NEW d \in Conns PROVE Len(rcpts'[d]) <= MaxRecipients
    BY <1>1, <1>2, <2>1 DEF RcptsType
  <2> QED
    BY <1>2, <2>1, <2>2, <2>3 DEF Types, RcptsType
<1>4. CASE UNCHANGED <<from, rcpts>>
  BY <1>2, <1>4 DEF Types, RcptsType
<1> QED
  BY <1>3, <1>4

LEMMA CommandType ==
    ASSUME TypeOK, NEW c \in Conns,
           \/ Connect(c) \/ Ehlo(c) \/ StartTLS(c) \/ Authenticate(c) \/ Mail(c)
           \/ MailAgain(c) \/ Rcpt(c) \/ Rset(c) \/ Data(c)
           \/ BreakOff(c) \/ Leave(c)
    PROVE  TypeOK'
<1>1. Types /\ LoginType /\ RcptsType /\ MailType
  BY TypeParts
<1>2. UNCHANGED mails => MailType'
  BY <1>1 DEF MailType, mails
<1>3. None \in Collected
  BY NoneType
<1>4. CASE Connect(c)
  BY <1>1, <1>2, <1>4, TypePartsNext DEF Connect, Types, Channels, LoginType, RcptsType
<1>5. CASE Ehlo(c)
  <2>1. Reset(c) \/ UNCHANGED <<from, rcpts>>
    BY <1>5 DEF Ehlo
  <2>2. helo' \in [Conns -> BOOLEAN] /\ UNCHANGED <<state, channel, login, letter, todo, mails, since>>
    BY <1>1, <1>5 DEF Ehlo, Types
  <2> QED
    BY <1>1, <1>2, <2>1, <2>2, ResetType, TypePartsNext DEF Types, LoginType
<1>6. CASE StartTLS(c)
  <2>1. /\ channel' = [channel EXCEPT ![c] = "tls"] /\ helo' = [helo EXCEPT ![c] = FALSE]
        /\ login' = [login EXCEPT ![c] = {}] /\ Reset(c)
        /\ UNCHANGED <<state, letter, todo, mails, since>>
    BY <1>6 DEF StartTLS
  <2>2. LoginType'
    BY <1>1, <2>1 DEF LoginType
  <2> QED
    BY <1>1, <1>2, <2>1, <2>2, ResetType, TypePartsNext DEF Types, Channels
<1>7. CASE Authenticate(c)
  <2>1. PICK u \in Users :
          login' = [login EXCEPT ![c] = {[user |-> u, over |-> channel[c]]}]
    BY <1>7 DEF Authenticate
  <2>2. [user |-> u, over |-> channel[c]] \in Logins
    BY <1>1 DEF Types, Logins
  <2>3. LoginType'
    BY <1>1, <2>1, <2>2 DEF LoginType
  <2>4. UNCHANGED <<state, channel, helo, from, rcpts, letter, todo, mails, since>>
    BY <1>7 DEF Authenticate
  <2> QED
    BY <1>1, <1>2, <2>3, <2>4, TypePartsNext DEF Types, RcptsType
<1>8. CASE Mail(c)
  <2>1. /\ from' = [from EXCEPT ![c] = channel[c]] /\ since' = [since EXCEPT ![c] = None]
        /\ UNCHANGED <<state, channel, helo, login, rcpts, letter, todo, mails>>
    BY <1>8 DEF Mail
  <2> QED
    BY <1>1, <1>2, <1>3, <2>1, TypePartsNext DEF Types, LoginType, RcptsType
<1>9. CASE Rcpt(c)
  <2>1. PICK r \in Recipients :
          /\ rcpts' = [rcpts EXCEPT ![c] = Append(@, [addr |-> r, over |-> channel[c]])]
          /\ since' = [since EXCEPT ![c].own = Append(@, r)]
    BY <1>9 DEF Rcpt
  <2> DEFINE e == [addr |-> r, over |-> channel[c]]
  <2>2. e \in Accepted
    BY <1>1 DEF Types, Accepted
  <2>3. rcpts' = [rcpts EXCEPT ![c] = Append(@, e)]
    BY <2>1
  <2> HIDE DEF e
  <2>4. rcpts[c] \in Seq(Accepted) /\ since[c] \in Collected
        /\ Len(rcpts[c]) < MaxRecipients /\ MaxRecipients \in Nat
    BY <1>1, <1>9, SmtpAssumption DEF Types, RcptsType, Rcpt, HasRoom
  <2>5. /\ Append(rcpts[c], e) \in Seq(Accepted)
        /\ Len(Append(rcpts[c], e)) = Len(rcpts[c]) + 1 /\ Len(rcpts[c]) \in Nat
        /\ [since[c] EXCEPT !.own = Append(@, r)] \in Collected
    BY <2>2, <2>4, AppendProperties, LenProperties, EveryoneAppend
  <2>6. RcptsType'
    <3>1. rcpts' \in [Conns -> Seq(Accepted)]
      BY <1>1, <2>3, <2>5 DEF RcptsType
    <3>2. ASSUME NEW d \in Conns PROVE Len(rcpts'[d]) <= MaxRecipients
      BY <1>1, <2>3, <2>4, <2>5 DEF RcptsType
    <3> QED
      BY <3>1, <3>2 DEF RcptsType
  <2>7. since' \in [Conns -> Collected]
    BY <1>1, <2>1, <2>5 DEF Types
  <2>8. UNCHANGED <<state, channel, helo, login, from, letter, todo, mails>>
    BY <1>9 DEF Rcpt
  <2> QED
    BY <1>1, <1>2, <2>6, <2>7, <2>8, TypePartsNext DEF Types, LoginType
<1>10. CASE Rset(c)
  <2>1. Reset(c) /\ UNCHANGED <<state, channel, helo, login, letter, todo, mails, since>>
    BY <1>10 DEF Rset
  <2> QED
    BY <1>1, <1>2, <2>1, ResetType, TypePartsNext DEF Types, LoginType
<1>11. CASE Data(c)
  BY <1>1, <1>2, <1>11, TypePartsNext DEF Data, Types, LoginType, RcptsType
<1>12. CASE Leave(c)
  <2>1. /\ state' = [state EXCEPT ![c] = "off"] /\ channel' = [channel EXCEPT ![c] = "plain"]
        /\ helo' = [helo EXCEPT ![c] = FALSE] /\ login' = [login EXCEPT ![c] = {}]
        /\ Reset(c) /\ since' = [since EXCEPT ![c] = None]
        /\ UNCHANGED <<letter, todo, mails>>
    BY <1>12 DEF Leave
  <2>2. LoginType'
    BY <1>1, <2>1 DEF LoginType
  <2> QED
    BY <1>1, <1>2, <1>3, <2>1, <2>2, ResetType, TypePartsNext DEF Types, Channels
<1>13. CASE MailAgain(c) \/ BreakOff(c)
  <2>1. /\ Outdate(c) /\ state' \in [Conns -> {"off", "command", "data", "deliver"}]
        /\ UNCHANGED <<channel, helo, login, from, rcpts, letter, todo, mails>>
    BY <1>1, <1>13 DEF MailAgain, BreakOff, Types
  <2>2. since' \in [Conns -> Collected]
    <3>1. since[c] \in Collected
      BY <1>1 DEF Types
    <3>2. [old |-> Everyone(since[c]), own |-> <<>>] \in Collected
      BY <3>1, EveryoneType
    <3> QED
      BY <1>1, <2>1, <3>2 DEF Outdate, Types
  <2> QED
    BY <1>1, <1>2, <2>1, <2>2, TypePartsNext DEF Types, LoginType, RcptsType
<1> QED
  BY <1>4, <1>5, <1>6, <1>7, <1>8, <1>9, <1>10, <1>11, <1>12, <1>13

\* The final dot of a message that is not too large, in short.
Envelops(c, m, boxes) ==
    /\ boxes = Resolve(m, Addresses(rcpts[c]), {u.user : u \in login[c]})
    /\ fate' = [fate EXCEPT ![m] = "sent"]
    /\ state' = [state EXCEPT ![c] = "deliver"]
    /\ letter' = [letter EXCEPT ![c] =
          [mail |-> m, from |-> from[c], to |-> rcpts[c],
           login |-> login[c], over |-> channel[c]]]
    /\ todo' = [todo EXCEPT ![c] = boxes]
    /\ goal' = [goal EXCEPT ![m] = ToSet(boxes)]

LEMMA DotBoxes ==
    ASSUME TypeOK, SessionInv, NEW c \in Conns, NEW m \in Mails, Dot(c, m), Size[m] # "large"
    PROVE  \E boxes \in Lists : Envelops(c, m, boxes) /\ boxes # <<>>
<1> DEFINE user == {u.user : u \in login[c]}
           boxes == Resolve(m, Addresses(rcpts[c]), user)
<1>1. Envelops(c, m, boxes)
  BY DEF Dot, Envelops
<1>2. rcpts[c] \in Seq(Accepted) /\ login[c] \in SUBSET Logins
      /\ \A u, v \in login[c] : u = v
  BY DEF TypeOK
<1>3. Addresses(rcpts[c]) \in Seq(Recipients)
  BY <1>2, AddressesType
<1>4. user \in SUBSET Users /\ \A u, v \in user : u = v
  BY <1>2 DEF Logins
<1> HIDE DEF user
<1>5. boxes \in Lists /\ boxes # <<>>
  BY <1>3, <1>4, ResolveOnce
<1> HIDE DEF boxes
<1> QED
  BY <1>1, <1>5

LEMMA DotType ==
    ASSUME TypeOK, SessionInv, NEW c \in Conns, NEW m \in Mails, Dot(c, m)
    PROVE  TypeOK'
<1>1. Types /\ LoginType /\ RcptsType /\ MailType
  BY TypeParts
<1>2. /\ Reset(c) /\ UNCHANGED <<channel, helo, login, copies, kept, since>>
      /\ tries[m] < MaxTries /\ tries' = [tries EXCEPT ![m] = @ + 1] /\ state[c] = "data"
  BY DEF Dot
<1>3. from' \in [Conns -> Channels \cup {"none"}] /\ RcptsType' /\ LoginType'
  BY <1>1, <1>2, ResetType DEF LoginType
<1>4. tries' \in [Mails -> 0..MaxTries]
  BY <1>1, <1>2, SmtpAssumption DEF MailType
<1>5. CASE Size[m] = "large"
  <2>1. /\ fate' = [fate EXCEPT ![m] = "rejected"] /\ state' = [state EXCEPT ![c] = "command"]
        /\ UNCHANGED <<letter, todo, goal>>
    BY <1>5 DEF Dot
  <2>2. Types' /\ MailType'
    BY <1>1, <1>2, <1>3, <1>4, <2>1 DEF Types, MailType
  <2> QED
    BY <1>3, <2>2, TypePartsNext
<1>6. CASE Size[m] # "large"
  <2>1. PICK boxes \in Lists : Envelops(c, m, boxes)
    BY <1>6, DotBoxes
  <2>2. [mail |-> m, from |-> from[c], to |-> rcpts[c], login |-> login[c],
         over |-> channel[c]] \in Letters
    <3>1. from[c] # "none"
      BY <1>2 DEF SessionInv, Envelope
    <3> QED
      BY <1>1, <3>1 DEF Types, LoginType, RcptsType, Letters
  <2>3. boxes \in Seq(Mailboxes) /\ ToSet(boxes) \subseteq Mailboxes
    <3>1. boxes \in Seq(Mailboxes)
      BY DEF Lists
    <3> QED
      BY <3>1, LenProperties DEF ToSet
  <2>4. letter' \in [Conns -> Letters \cup {NoLetter}]
    BY <1>1, <2>1, <2>2 DEF Envelops, Types
  <2>5. todo' \in [Conns -> Seq(Mailboxes)]
    BY <1>1, <2>1, <2>3 DEF Envelops, Types
  <2>6. state' \in [Conns -> {"off", "command", "data", "deliver"}]
    BY <1>1, <2>1 DEF Envelops, Types
  <2>7. Types'
    BY <1>1, <1>2, <1>3, <2>4, <2>5, <2>6 DEF Types
  <2>8. MailType'
    BY <1>1, <1>2, <1>4, <2>1, <2>3 DEF Envelops, MailType
  <2> QED
    BY <1>3, <2>7, <2>8, TypePartsNext
<1> QED
  BY <1>5, <1>6

LEMMA ReplyType ==
    ASSUME TypeOK, NEW c \in Conns, letter[c] \in Letters,
           NEW what \in {"accepted", "refused", "rejected"}, Reply(c, what)
    PROVE  /\ state' \in [Conns -> {"off", "command", "data", "deliver"}]
           /\ letter' \in [Conns -> Letters \cup {NoLetter}]
           /\ todo' \in [Conns -> Seq(Mailboxes)]
           /\ fate' \in [Mails -> {"new", "sent", "accepted", "refused", "rejected"}]
<1>1. letter[c].mail \in Mails /\ <<>> \in Seq(Mailboxes)
  BY DEF Letters
<1> QED
  BY <1>1 DEF Reply, TypeOK

LEMMA PutType ==
    ASSUME TypeOK, NEW m \in Mails, NEW mb \in Mailboxes,
           copies' = [copies EXCEPT ![m][mb] = @ + 1]
    PROVE  copies' \in [Mails -> [Mailboxes -> Nat]]
<1>1. copies \in [Mails -> [Mailboxes -> Nat]]
  BY DEF TypeOK
<1>2. [copies[m] EXCEPT ![mb] = @ + 1] \in [Mailboxes -> Nat]
  BY <1>1
<1> QED
  BY <1>1, <1>2

LEMMA DeliveryType ==
    ASSUME TypeOK, NEW c \in Conns, state[c] = "deliver" => letter[c] \in Letters,
           Delivery(c)
    PROVE  TypeOK'
<1>1. Types /\ LoginType /\ RcptsType /\ MailType
  BY TypeParts
<1>2. state[c] = "deliver" /\ letter[c] \in Letters
  BY DEF Delivery, DeliverNext, DeliverFails, DeliverRejects, Accept
<1>3. letter[c].mail \in Mails
  BY <1>2 DEF Letters
<1>4. todo[c] # <<>> => Head(todo[c]) \in Mailboxes /\ Tail(todo[c]) \in Seq(Mailboxes)
  BY <1>1, HeadTailProperties DEF Types
<1>5. UNCHANGED <<login, rcpts>> => LoginType' /\ RcptsType'
  BY <1>1 DEF LoginType, RcptsType
<1>6. CASE DeliverNext(c)
  <2>1. /\ todo[c] # <<>>
        /\ copies' = [copies EXCEPT ![letter[c].mail][Head(todo[c])] = @ + 1]
        /\ kept' = [kept EXCEPT ![letter[c].mail] = @ \cup {Head(todo[c])}]
        /\ todo' = [todo EXCEPT ![c] = Tail(@)]
        /\ UNCHANGED <<state, channel, helo, login, from, rcpts, letter, fate, tries,
                       goal, since>>
    BY <1>6 DEF DeliverNext
  <2>2. copies' \in [Mails -> [Mailboxes -> Nat]]
    BY <1>3, <1>4, <2>1, PutType
  <2>3. Types' /\ MailType'
    BY <1>1, <1>3, <1>4, <2>1, <2>2 DEF Types, MailType
  <2> QED
    BY <1>5, <2>1, <2>3, TypePartsNext
<1>7. CASE DeliverFails(c)
  <2>1. /\ todo[c] # <<>> /\ Reply(c, "refused")
        /\ copies' = [copies EXCEPT ![letter[c].mail][Head(todo[c])] = @ + 1]
        /\ UNCHANGED <<channel, helo, login, from, rcpts, tries, kept, goal, since>>
    BY <1>7 DEF DeliverFails
  <2>2. copies' \in [Mails -> [Mailboxes -> Nat]]
    BY <1>3, <1>4, <2>1, PutType
  <2>3. Types' /\ MailType'
    BY <1>1, <1>2, <2>1, <2>2, ReplyType DEF Types, MailType
  <2> QED
    BY <1>5, <2>1, <2>3, TypePartsNext
<1>8. CASE DeliverRejects(c) \/ Accept(c)
  <2>1. /\ \E what \in {"accepted", "refused", "rejected"} : Reply(c, what)
        /\ UNCHANGED <<channel, helo, login, from, rcpts, tries, copies, kept, goal, since>>
    BY <1>8 DEF DeliverRejects, Accept
  <2>2. Types' /\ MailType'
    BY <1>1, <1>2, <2>1, ReplyType DEF Types, MailType
  <2> QED
    BY <1>5, <2>1, <2>2, TypePartsNext
<1> QED
  BY <1>6, <1>7, <1>8 DEF Delivery
-----------------------------------------------------------------------------
(* The invariant                                                           *)

\* A session delivers to mailboxes that its message is meant for; those it has
\* gone through have stored it.
Delivering(c) ==
    state[c] = "deliver" =>
        /\ letter[c] \in Letters /\ todo[c] \in Lists
        /\ fate[letter[c].mail] = "sent" /\ goal[letter[c].mail] # {}
        /\ ToSet(todo[c]) \subseteq goal[letter[c].mail]
        /\ goal[letter[c].mail] \subseteq kept[letter[c].mail] \cup ToSet(todo[c])
        /\ TooLarge(letter[c].mail) => ToSet(todo[c]) = goal[letter[c].mail]

Delivers(c, m) == state[c] = "deliver" /\ letter[c].mail = m

\* A message is in the hands of one session at a time.
OneHand == \A m \in Mails : \A c, d \in Conns : Delivers(c, m) /\ Delivers(d, m) => c = d

DeliveryInv == (\A c \in Conns : Delivering(c)) /\ OneHand /\ AcceptedIsStored
MailInv == TypeOK /\ SessionInv /\ DeliveryInv

LEMMA EmptySet == ToSet(<<>>) = {}
BY DEF ToSet

LEMMA NotEmptySet ==
    ASSUME NEW s \in Lists, s # <<>>
    PROVE  ToSet(s) # {}
<1>1. s \in Seq(Mailboxes)
  BY DEF Lists
<1>2. Len(s) \in Nat /\ DOMAIN s = 1..Len(s) /\ Len(s) # 0
  BY <1>1, LenProperties, EmptySeq
<1>3. 1 \in DOMAIN s
  BY <1>2
<1> QED
  BY <1>3 DEF ToSet

\* What is left of a list after its head.
LEMMA TailOnce ==
    ASSUME NEW s \in Lists, s # <<>>
    PROVE  /\ Head(s) \in Mailboxes /\ Tail(s) \in Lists /\ Head(s) \in ToSet(s)
           /\ ToSet(Tail(s)) = ToSet(s) \ {Head(s)}
<1> DEFINE n == Len(s)
           t == Tail(s)
<1>1. s \in Seq(Mailboxes) /\ DOMAIN s = 1..n /\ n \in Nat /\ n # 0
  BY LenProperties, EmptySeq DEF Lists
<1>2. /\ Head(s) = s[1] /\ t \in Seq(Mailboxes) /\ Len(t) = n - 1
      /\ \A i \in 1..(n - 1) : t[i] = s[i + 1]
  BY <1>1, HeadTailProperties
<1>3. DOMAIN t = 1..(n - 1)
  BY <1>2, LenProperties
<1>4. \A i, j \in 1..n : s[i] = s[j] => i = j
  BY <1>1 DEF Lists, IsInjective
<1> HIDE DEF n, t
<1>5. 1 \in 1..n
  BY <1>1
<1>6. \A i \in 1..(n - 1) : i + 1 \in 1..n /\ i + 1 # 1
  BY <1>1
<1>7. \A i \in 1..n : i # 1 => i - 1 \in 1..(n - 1) /\ (i - 1) + 1 = i
  BY <1>1
<1>8. \A i, j \in 1..(n - 1) : t[i] = t[j] => i = j
  <2> SUFFICES ASSUME NEW i \in 1..(n - 1), NEW j \in 1..(n - 1), t[i] = t[j] PROVE i = j
    OBVIOUS
  <2>1. i + 1 = j + 1
    BY <1>2, <1>4, <1>6
  <2> QED
    BY <1>1, <2>1
<1>9. t \in Lists
  BY <1>2, <1>3, <1>8 DEF Lists, IsInjective
<1>10. ToSet(t) \subseteq ToSet(s) \ {s[1]}
  <2> SUFFICES ASSUME NEW i \in 1..(n - 1) PROVE t[i] \in ToSet(s) /\ t[i] # s[1]
    BY <1>3 DEF ToSet
  <2> QED
    BY <1>1, <1>2, <1>4, <1>5, <1>6 DEF ToSet
<1>11. ToSet(s) \ {s[1]} \subseteq ToSet(t)
  <2> SUFFICES ASSUME NEW i \in 1..n, s[i] # s[1] PROVE s[i] \in ToSet(t)
    BY <1>1 DEF ToSet
  <2>1. i - 1 \in DOMAIN t /\ t[i - 1] = s[i]
    BY <1>2, <1>3, <1>7
  <2> QED
    BY <2>1 DEF ToSet
<1>12. s[1] \in Mailboxes /\ s[1] \in ToSet(s)
  BY <1>1, <1>5, ElementOfSeq DEF ToSet, n
<1> QED
  BY <1>2, <1>9, <1>10, <1>11, <1>12 DEF t

LEMMA DeliveryInit == Init => DeliveryInv
BY DEF Init, DeliveryInv, Delivering, OneHand, Delivers, AcceptedIsStored

\* A step that neither starts, nor changes, nor ends a delivery.
Calm ==
    /\ UNCHANGED <<letter, todo, mails>>
    /\ \A d \in Conns : state'[d] = "deliver" <=> state[d] = "deliver"

LEMMA CalmStep ==
    ASSUME DeliveryInv, Calm
    PROVE  DeliveryInv'
<1>1. \A c \in Conns : Delivering(c)'
  BY DEF DeliveryInv, Calm, Delivering, mails
<1>2. OneHand'
  BY DEF DeliveryInv, Calm, OneHand, Delivers
<1>3. AcceptedIsStored'
  BY DEF DeliveryInv, Calm, AcceptedIsStored, mails
<1> QED
  BY <1>1, <1>2, <1>3 DEF DeliveryInv

\* A step of one session that deals with one message, which no other session
\* delivers.
Handles(c, m) ==
    /\ \A d \in Conns \ {c} :
        /\ state'[d] = state[d] /\ letter'[d] = letter[d] /\ todo'[d] = todo[d]
        /\ ~ Delivers(d, m)
    /\ \A n \in Mails \ {m} : fate'[n] = fate[n] /\ goal'[n] = goal[n] /\ kept'[n] = kept[n]
    /\ state'[c] = "deliver" => letter'[c].mail = m

LEMMA HandlesStep ==
    ASSUME DeliveryInv, NEW c \in Conns, NEW m \in Mails, Handles(c, m),
           Delivering(c)',
           fate'[m] = "accepted" => goal'[m] # {} /\ goal'[m] \subseteq kept'[m]
    PROVE  DeliveryInv'
<1>1. ASSUME NEW d \in Conns, d # c PROVE Delivering(d)'
  <2>1. Delivering(d)
    BY DEF DeliveryInv
  <2>2. state[d] = "deliver" => letter[d].mail \in Mails \ {m}
    BY <1>1, <2>1 DEF Handles, Delivers, Delivering, Letters
  <2> QED
    BY <1>1, <2>1, <2>2 DEF Handles, Delivering
<1>2. OneHand'
  BY DEF DeliveryInv, Handles, OneHand, Delivers
<1>3. AcceptedIsStored'
  BY DEF DeliveryInv, Handles, AcceptedIsStored
<1> QED
  BY <1>1, <1>2, <1>3 DEF DeliveryInv

\* Before the final dot no session delivers the message, and afterwards none but
\* the one that received it.
LEMMA DotHandles ==
    ASSUME MailInv, NEW c \in Conns, NEW m \in Mails, Dot(c, m)
    PROVE  Handles(c, m)
<1>1. fate[m] # "sent" /\ UNCHANGED kept
  BY DEF Dot
<1>2. \A d \in Conns : ~ Delivers(d, m)
  BY <1>1 DEF MailInv, DeliveryInv, Delivering, Delivers
<1>3. /\ \A d \in Conns \ {c} :
            state'[d] = state[d] /\ letter'[d] = letter[d] /\ todo'[d] = todo[d]
      /\ \A n \in Mails \ {m} : fate'[n] = fate[n] /\ goal'[n] = goal[n]
  <2>1. CASE Size[m] = "large"
    BY <2>1 DEF Dot, MailInv, TypeOK
  <2>2. CASE Size[m] # "large"
    <3>1. PICK boxes \in Lists : Envelops(c, m, boxes)
      BY <2>2, DotBoxes DEF MailInv
    <3> QED
      BY <3>1 DEF Envelops, MailInv, TypeOK
  <2> QED
    BY <2>1, <2>2
<1>4. state'[c] = "deliver" => letter'[c].mail = m
  <2>1. CASE Size[m] = "large"
    BY <2>1 DEF Dot, MailInv, TypeOK
  <2>2. CASE Size[m] # "large"
    BY <2>2 DEF Dot, MailInv, TypeOK
  <2> QED
    BY <2>1, <2>2
<1> QED
  BY <1>1, <1>2, <1>3, <1>4 DEF Handles

LEMMA DeliveryHandles ==
    ASSUME MailInv, NEW c \in Conns, Delivery(c)
    PROVE  /\ state[c] = "deliver" /\ letter[c].mail \in Mails
           /\ Handles(c, letter[c].mail)
<1> DEFINE m == letter[c].mail
<1>1. state[c] = "deliver" /\ m \in Mails
  BY DEF Delivery, DeliverNext, DeliverFails, DeliverRejects, Accept, MailInv,
         DeliveryInv, Delivering, Letters
<1>2. \A d \in Conns \ {c} : ~ Delivers(d, m)
  BY <1>1 DEF MailInv, DeliveryInv, OneHand, Delivers
<1>3. CASE DeliverNext(c)
  BY <1>1, <1>2, <1>3 DEF DeliverNext, Handles, MailInv, TypeOK
<1>4. CASE DeliverFails(c) \/ DeliverRejects(c) \/ Accept(c)
  <2>1. /\ \E what \in {"accepted", "refused", "rejected"} : Reply(c, what)
        /\ UNCHANGED <<goal, kept>>
    BY <1>4 DEF DeliverFails, DeliverRejects, Accept
  <2> QED
    BY <1>1, <1>2, <2>1 DEF Reply, Handles, MailInv, TypeOK
<1> QED
  BY <1>1, <1>3, <1>4 DEF Delivery

LEMMA DotDelivers ==
    ASSUME MailInv, NEW c \in Conns, NEW m \in Mails, Dot(c, m)
    PROVE  DeliveryInv'
<1>1. Handles(c, m) /\ DeliveryInv
  BY DotHandles DEF MailInv
<1>2. CASE Size[m] = "large"
  <2>1. state'[c] = "command" /\ fate'[m] = "rejected"
    BY <1>2 DEF Dot, MailInv, TypeOK
  <2> QED
    BY <1>1, <2>1, HandlesStep DEF Delivering
<1>3. CASE Size[m] # "large"
  <2>1. PICK boxes \in Lists : Envelops(c, m, boxes) /\ boxes # <<>>
    BY <1>3, DotBoxes DEF MailInv
  <2>2. /\ letter'[c].mail = m /\ todo'[c] = boxes /\ fate'[m] = "sent"
        /\ goal'[m] = ToSet(boxes) /\ state'[c] = "deliver"
    BY <2>1 DEF Envelops, MailInv, TypeOK
  <2>3. letter'[c] \in Letters
    <3>1. TypeOK'
      BY DotType DEF MailInv
    <3>2. letter'[c] # NoLetter
      <4>1. /\ letter'[c].to = rcpts[c] /\ letter'[c].from = from[c] /\ state[c] = "data"
        BY <2>1 DEF Envelops, MailInv, TypeOK, Dot
      <4> QED
        BY <4>1 DEF NoLetter, MailInv, SessionInv, Envelope
    <3> QED
      BY <3>1, <3>2 DEF TypeOK
  <2>4. ToSet(boxes) # {}
    BY <2>1, NotEmptySet
  <2>5. Delivering(c)'
    BY <2>2, <2>3, <2>4 DEF Delivering
  <2> QED
    BY <1>1, <2>2, <2>5, HandlesStep
<1> QED
  BY <1>2, <1>3

LEMMA DeliveryDelivers ==
    ASSUME MailInv, NEW c \in Conns, Delivery(c)
    PROVE  DeliveryInv'
<1> DEFINE m == letter[c].mail
<1>1. state[c] = "deliver" /\ m \in Mails /\ Handles(c, m) /\ DeliveryInv /\ Delivering(c)
  BY DeliveryHandles DEF MailInv, DeliveryInv
<1>2. CASE DeliverNext(c)
  <2>1. /\ todo[c] # <<>> /\ ~ TooLarge(m) /\ todo' = [todo EXCEPT ![c] = Tail(@)]
        /\ kept' = [kept EXCEPT ![m] = @ \cup {Head(todo[c])}]
        /\ UNCHANGED <<state, letter, fate, goal>>
    BY <1>2 DEF DeliverNext
  <2>2. /\ kept'[m] = kept[m] \cup {Head(todo[c])} /\ todo'[c] = Tail(todo[c])
    BY <1>1, <2>1 DEF MailInv, TypeOK
  <2>3. /\ Tail(todo[c]) \in Lists
        /\ ToSet(Tail(todo[c])) = ToSet(todo[c]) \ {Head(todo[c])}
    BY <1>1, <2>1, TailOnce DEF Delivering
  <2>4. Delivering(c)'
    BY <1>1, <2>1, <2>2, <2>3 DEF Delivering, TooLarge
  <2> QED
    BY <1>1, <2>1, <2>4, HandlesStep DEF Delivering
<1>3. CASE DeliverFails(c) \/ DeliverRejects(c)
  <2>1. state'[c] = "command" /\ fate'[m] # "accepted"
    BY <1>1, <1>3 DEF DeliverFails, DeliverRejects, Reply, MailInv, TypeOK
  <2> QED
    BY <1>1, <2>1, HandlesStep DEF Delivering
<1>4. CASE Accept(c)
  <2>1. state'[c] = "command" /\ UNCHANGED <<goal, kept>> /\ todo[c] = <<>>
    BY <1>1, <1>4 DEF Accept, Reply, MailInv, TypeOK
  <2>2. goal[m] # {} /\ goal[m] \subseteq kept[m]
    BY <1>1, <2>1, EmptySet DEF Delivering
  <2> QED
    BY <1>1, <2>1, <2>2, HandlesStep DEF Delivering
<1> QED
  BY <1>2, <1>3, <1>4 DEF Delivery

\* The commands before the final dot, and the ends of a connection.
LEMMA CommandCalm ==
    ASSUME TypeOK, NEW c \in Conns,
           \/ Connect(c) \/ Ehlo(c) \/ StartTLS(c) \/ Authenticate(c) \/ Mail(c)
           \/ MailAgain(c) \/ Rcpt(c) \/ Rset(c) \/ Data(c)
           \/ BreakOff(c) \/ Leave(c)
    PROVE  Calm
<1>1. UNCHANGED <<letter, todo, mails>>
  BY DEF Connect, Ehlo, StartTLS, Authenticate, Mail, MailAgain, Rcpt, Rset, Data,
         BreakOff, Leave
<1>2. \/ UNCHANGED state
      \/ /\ state[c] # "deliver"
         /\ \E st \in {"off", "command", "data"} : state' = [state EXCEPT ![c] = st]
  BY DEF Connect, Ehlo, StartTLS, Authenticate, Mail, MailAgain, Rcpt, Rset, Data,
         BreakOff, Leave, Reads
<1>3. \A d \in Conns : state'[d] = "deliver" <=> state[d] = "deliver"
  BY <1>2 DEF TypeOK
<1> QED
  BY <1>1, <1>3 DEF Calm

LEMMA MailNext == MailInv /\ [Next]_vars => MailInv'
<1> SUFFICES ASSUME MailInv, [Next]_vars PROVE TypeOK' /\ DeliveryInv'
  BY SessionNext DEF MailInv
<1>1. TypeOK /\ SessionInv /\ DeliveryInv
  BY DEF MailInv
<1>2. CASE UNCHANGED vars
  <2>1. TypeOK'
    BY <1>1, <1>2 DEF vars, session, mails, TypeOK
  <2>2. Calm
    BY <1>2 DEF vars, session, Calm
  <2> QED
    BY <1>1, <2>1, <2>2, CalmStep
<1>3. ASSUME NEW c \in Conns,
             \/ Connect(c) \/ Ehlo(c) \/ StartTLS(c) \/ Authenticate(c) \/ Mail(c)
             \/ MailAgain(c) \/ Rcpt(c) \/ Rset(c) \/ Data(c)
             \/ BreakOff(c) \/ Leave(c)
      PROVE  TypeOK' /\ DeliveryInv'
  BY <1>1, <1>3, CommandType, CommandCalm, CalmStep
<1>4. ASSUME NEW c \in Conns, NEW m \in Mails, Dot(c, m) PROVE TypeOK' /\ DeliveryInv'
  BY <1>1, <1>4, DotType, DotDelivers
<1>5. ASSUME NEW c \in Conns, Delivery(c) PROVE TypeOK' /\ DeliveryInv'
  <2>1. state[c] = "deliver" => letter[c] \in Letters
    BY <1>1 DEF DeliveryInv, Delivering
  <2> QED
    BY <1>1, <1>5, <2>1, DeliveryType, DeliveryDelivers
<1> QED
  BY <1>2, <1>3, <1>4, <1>5 DEF Next, Command

LEMMA MailCorrect == Spec => []MailInv
<1>1. Init => MailInv
  BY TypeInit, SessionInit, DeliveryInit DEF MailInv
<1> QED
  BY <1>1, MailNext, PTL DEF Spec
-----------------------------------------------------------------------------
(* The refinement                                                          *)

\* What is left to do for a message, in the terms of Submission.
Rest == [m \in Mails |-> Left(m)]

\* It is what the session that delivers the message has left to do ...
LEMMA RestIs ==
    ASSUME MailInv, NEW c \in Conns, state[c] = "deliver"
    PROVE  Rest[letter[c].mail] = ToSet(todo[c])
<1> DEFINE m == letter[c].mail
<1>1. m \in Mails
  BY DEF MailInv, DeliveryInv, Delivering, Letters
<1>2. {d \in Conns : state[d] = "deliver" /\ letter[d].mail = m} = {c}
  BY <1>1 DEF MailInv, DeliveryInv, OneHand, Delivers
<1>3. Left(m) = UNION {ToSet(todo[d]) : d \in {c}}
  BY <1>2 DEF Left
<1>4. Left(m) = ToSet(todo[c])
  BY <1>3
<1> QED
  BY <1>1, <1>4 DEF Rest

\* ... a calm step changes nothing of it ...
LEMMA RestStays ==
    ASSUME Calm
    PROVE  Rest' = Rest
<1>1. ASSUME NEW m \in Mails PROVE Left(m)' = Left(m)
  <2>1. {d \in Conns : state[d] = "deliver" /\ letter[d].mail = m}'
        = {d \in Conns : state[d] = "deliver" /\ letter[d].mail = m}
    BY DEF Calm
  <2>2. todo' = todo
    BY DEF Calm
  <2> QED
    BY <2>1, <2>2 DEF Left
<1> QED
  BY <1>1 DEF Rest

\* ... and a session that handles a message changes it for that message only.
LEMMA RestStep ==
    ASSUME NEW c \in Conns, NEW m \in Mails, Handles(c, m),
           state[c] = "deliver" => letter[c].mail = m
    PROVE  Rest' = [Rest EXCEPT ![m] = IF state'[c] = "deliver" THEN ToSet(todo'[c]) ELSE {}]
<1> DEFINE Those(n) == {d \in Conns : state[d] = "deliver" /\ letter[d].mail = n}
           Next1(n) == {d \in Conns : state'[d] = "deliver" /\ letter'[d].mail = n}
<1>1. ASSUME NEW n \in Mails, n # m PROVE Left(n)' = Left(n)
  <2>1. Those(n) = Next1(n)
    BY <1>1 DEF Handles
  <2>2. \A d \in Those(n) : todo'[d] = todo[d]
    BY <1>1 DEF Handles
  <2>3. Left(n) = UNION {ToSet(todo[d]) : d \in Those(n)}
    BY DEF Left
  <2>4. Left(n)' = UNION {ToSet(todo'[d]) : d \in Next1(n)}
    BY DEF Left
  <2> HIDE DEF Those, Next1
  <2>5. {ToSet(todo'[d]) : d \in Those(n)} = {ToSet(todo[d]) : d \in Those(n)}
    BY <2>2
  <2> QED
    BY <2>1, <2>3, <2>4, <2>5
<1>2. Left(m)' = IF state'[c] = "deliver" THEN ToSet(todo'[c]) ELSE {}
  <2>1. Next1(m) = IF state'[c] = "deliver" THEN {c} ELSE {}
    BY DEF Handles, Delivers
  <2>2. Left(m)' = UNION {ToSet(todo'[d]) : d \in Next1(m)}
    BY DEF Left
  <2> HIDE DEF Next1
  <2>3. CASE state'[c] = "deliver"
    <3>1. Left(m)' = UNION {ToSet(todo'[d]) : d \in {c}}
      BY <2>1, <2>2, <2>3
    <3> QED
      BY <2>3, <3>1
  <2>4. CASE state'[c] # "deliver"
    <3>1. Left(m)' = UNION {ToSet(todo'[d]) : d \in {}}
      BY <2>1, <2>2, <2>4
    <3> QED
      BY <2>4, <3>1
  <2> QED
    BY <2>3, <2>4
<1> QED
  BY <1>1, <1>2 DEF Rest

LEMMA SubmissionInit == Init => Submits!Init
<1> SUFFICES ASSUME Init PROVE Submits!Init
  OBVIOUS
<1>1. ASSUME NEW m \in Mails PROVE Left(m) = {}
  <2>1. {d \in Conns : state[d] = "deliver" /\ letter[d].mail = m} = {}
    BY DEF Init
  <2>2. Left(m) = UNION {ToSet(todo[c]) : c \in {}}
    BY <2>1 DEF Left
  <2> QED
    BY <2>2
<1>2. [m \in Mails |-> Left(m)] = [m \in Mails |-> {}]
  BY <1>1
<1> QED
  BY <1>2 DEF Init, Submits!Init

LEMMA CalmSubmission ==
    ASSUME Calm
    PROVE  UNCHANGED Submits!vars
BY RestStays DEF Calm, mails, Rest, Submits!vars

\* The final dot submits a message, or has it rejected at once.
LEMMA DotSubmission ==
    ASSUME MailInv, NEW c \in Conns, NEW m \in Mails, Dot(c, m)
    PROVE  Submits!Next
<1>1. Handles(c, m) /\ state[c] = "data"
  BY DotHandles DEF Dot
<1>2. /\ fate[m] \in {"new", "refused"} /\ tries' = [tries EXCEPT ![m] = @ + 1]
      /\ UNCHANGED <<copies, kept>>
  BY DEF Dot
<1>3. Rest' = [Rest EXCEPT ![m] = IF state'[c] = "deliver" THEN ToSet(todo'[c]) ELSE {}]
  BY <1>1, RestStep
<1>4. CASE Size[m] = "large"
  <2>1. /\ state'[c] = "command" /\ fate' = [fate EXCEPT ![m] = "rejected"]
        /\ UNCHANGED goal
    BY <1>4 DEF Dot, MailInv, TypeOK
  <2>2. Rest' = [Rest EXCEPT ![m] = {}]
    BY <1>3, <2>1
  <2>3. Submits!RejectAtOnce(m)
    BY <1>2, <2>1, <2>2 DEF Rest, Submits!RejectAtOnce, Submits!Answer
  <2> QED
    BY <2>3 DEF Submits!Next
<1>5. CASE Size[m] # "large"
  <2>1. PICK boxes \in Lists : Envelops(c, m, boxes) /\ boxes # <<>>
    BY <1>5, DotBoxes DEF MailInv
  <2>2. /\ state'[c] = "deliver" /\ todo'[c] = boxes
        /\ fate' = [fate EXCEPT ![m] = "sent"] /\ goal' = [goal EXCEPT ![m] = ToSet(boxes)]
    BY <2>1 DEF Envelops, MailInv, TypeOK
  <2>3. Rest' = [Rest EXCEPT ![m] = ToSet(boxes)]
    BY <1>3, <2>2
  <2>4. ToSet(boxes) # {} /\ ToSet(boxes) \in SUBSET Mailboxes
    <3>1. boxes \in Seq(Mailboxes)
      BY DEF Lists
    <3> QED
      BY <2>1, <3>1, NotEmptySet, LenProperties DEF ToSet
  <2>5. Submits!Submit(m, ToSet(boxes))
    BY <1>2, <2>2, <2>3, <2>4 DEF Rest, Submits!Submit
  <2> QED
    BY <2>4, <2>5 DEF Submits!Next
<1> QED
  BY <1>4, <1>5

\* Delivery stores it, refuses it, rejects it or accepts it.
LEMMA DeliverySubmission ==
    ASSUME MailInv, NEW c \in Conns, Delivery(c)
    PROVE  Submits!Next
<1> DEFINE m == letter[c].mail
           mb == Head(todo[c])
<1>1. state[c] = "deliver" /\ m \in Mails /\ Handles(c, m) /\ Delivering(c)
  BY DeliveryHandles DEF MailInv, DeliveryInv
<1>2. Rest[m] = ToSet(todo[c]) /\ fate[m] = "sent"
  BY <1>1, RestIs DEF Delivering
<1>3. Rest' = [Rest EXCEPT ![m] = IF state'[c] = "deliver" THEN ToSet(todo'[c]) ELSE {}]
  BY <1>1, RestStep
<1>4. todo[c] # <<>> =>
        mb \in Mailboxes /\ mb \in Rest[m] /\ ToSet(Tail(todo[c])) = Rest[m] \ {mb}
  BY <1>1, <1>2, TailOnce DEF Delivering
<1>5. /\ state \in [Conns -> {"off", "command", "data", "deliver"}]
      /\ todo \in [Conns -> Seq(Mailboxes)]
  BY DEF MailInv, TypeOK
<1>6. ASSUME NEW what, Reply(c, what)
      PROVE  fate' = [fate EXCEPT ![m] = what] /\ Rest' = [Rest EXCEPT ![m] = {}]
  BY <1>3, <1>5, <1>6 DEF Reply
<1>7. CASE DeliverNext(c)
  <2>1. /\ todo[c] # <<>> /\ state' = state /\ todo'[c] = Tail(todo[c])
        /\ copies' = [copies EXCEPT ![m][mb] = @ + 1]
        /\ kept' = [kept EXCEPT ![m] = @ \cup {mb}]
        /\ UNCHANGED <<fate, tries, goal>>
    BY <1>5, <1>7 DEF DeliverNext
  <2>2. Rest' = [Rest EXCEPT ![m] = @ \ {mb}]
    BY <1>1, <1>3, <1>4, <2>1
  <2>3. Submits!Store(m, mb)
    BY <1>2, <1>4, <2>1, <2>2 DEF Rest, Submits!Store, Submits!Put
  <2> QED
    BY <1>1, <1>4, <2>1, <2>3 DEF Submits!Next
<1>8. CASE DeliverFails(c)
  <2>1. /\ todo[c] # <<>> /\ Reply(c, "refused")
        /\ copies' = [copies EXCEPT ![m][mb] = @ + 1] /\ UNCHANGED <<tries, kept, goal>>
    BY <1>8 DEF DeliverFails
  <2>2. Submits!Refuse(m, mb)
    BY <1>2, <1>4, <1>6, <2>1 DEF Rest, Submits!Refuse, Submits!Put, Submits!Answer
  <2> QED
    BY <1>1, <1>4, <2>1, <2>2 DEF Submits!Next
<1>9. CASE DeliverRejects(c)
  <2>1. TooLarge(m) /\ Reply(c, "rejected") /\ UNCHANGED <<tries, copies, kept, goal>>
    BY <1>9 DEF DeliverRejects
  <2>2. Rest[m] = goal[m]
    BY <1>1, <1>2, <2>1 DEF Delivering
  <2>3. Submits!Reject(m)
    BY <1>2, <1>6, <2>1, <2>2 DEF Rest, Submits!Reject, Submits!Answer
  <2> QED
    BY <1>1, <2>3 DEF Submits!Next
<1>10. CASE Accept(c)
  <2>1. todo[c] = <<>> /\ Reply(c, "accepted") /\ UNCHANGED <<tries, copies, kept, goal>>
    BY <1>10 DEF Accept
  <2>2. Rest[m] = {}
    BY <1>2, <2>1, EmptySet
  <2>3. Submits!Accept(m)
    BY <1>2, <1>6, <2>1, <2>2 DEF Rest, Submits!Accept, Submits!Answer
  <2> QED
    BY <1>1, <2>3 DEF Submits!Next
<1> QED
  BY <1>7, <1>8, <1>9, <1>10 DEF Delivery

LEMMA SubmissionNext == MailInv /\ [Next]_vars => [Submits!Next]_(Submits!vars)
<1> SUFFICES ASSUME MailInv, [Next]_vars PROVE Submits!Next \/ UNCHANGED Submits!vars
  OBVIOUS
<1>1. TypeOK
  BY DEF MailInv
<1>2. CASE UNCHANGED vars
  <2>1. Calm
    BY <1>2 DEF vars, session, Calm
  <2> QED
    BY <2>1, CalmSubmission
<1>3. ASSUME NEW c \in Conns,
             \/ Connect(c) \/ Ehlo(c) \/ StartTLS(c) \/ Authenticate(c) \/ Mail(c)
             \/ MailAgain(c) \/ Rcpt(c) \/ Rset(c) \/ Data(c)
             \/ BreakOff(c) \/ Leave(c)
      PROVE  UNCHANGED Submits!vars
  BY <1>1, <1>3, CommandCalm, CalmSubmission
<1> QED
  BY <1>2, <1>3, DotSubmission, DeliverySubmission DEF Next, Command
-----------------------------------------------------------------------------
(* Theorems                                                                *)

\* The server's variables keep their types; among other things no transaction
\* collects more than MaxRecipients recipients.
THEOREM SessionsTyped == Spec => []TypeOK
<1>1. MailInv => TypeOK
  BY DEF MailInv
<1> QED
  BY <1>1, MailCorrect, PTL

\* A reply of 250 to DATA means that the message is stored in every mailbox it
\* was routed to, and that there is one.
THEOREM AcceptedMeansStored == Spec => []AcceptedIsStored
<1>1. MailInv => AcceptedIsStored
  BY DEF MailInv, DeliveryInv
<1> QED
  BY <1>1, MailCorrect, PTL

\* Sessions implement Submission: each try puts a message once in each mailbox
\* it is meant for until one fails, and is answered after that.
THEOREM SessionsSubmit == Spec => KeepsSubmission
<1>1. MailInv /\ [Next]_vars => [Submits!Next]_(Submits!vars)
  BY SubmissionNext
<1> QED
  BY <1>1, SubmissionInit, MailCorrect, PTL DEF Spec, KeepsSubmission, Submits!Spec
=============================================================================
