----------------------------- MODULE Pop3Proofs -----------------------------
(***************************************************************************)
(* Theorems about Pop3, for any number of connections, mailboxes and       *)
(* messages.                                                               *)
(***************************************************************************)
EXTENDS Pop3, SequenceTheorems, TLAPS

(* Queues                                                                  *)

LEMMA ToSetMember ==
    ASSUME NEW s \in Seq(Ids)
    PROVE  /\ ToSet(s) \subseteq Ids
           /\ \A x : x \in ToSet(s) <=> \E i \in 1..Len(s) : s[i] = x
BY DEF ToSet

LEMMA AppendKeeps ==
    ASSUME NEW s \in Seq(Ids), NEW m \in Ids
    PROVE  /\ Append(s, m) \in Seq(Ids)
           /\ ToSet(Append(s, m)) = ToSet(s) \cup {m}
           /\ IsInjective(s) /\ m \notin ToSet(s) => IsInjective(Append(s, m))
<1>1. /\ Append(s, m) \in Seq(Ids) /\ Len(Append(s, m)) = Len(s) + 1
      /\ \A i \in 1..Len(s) : Append(s, m)[i] = s[i]
      /\ Append(s, m)[Len(s) + 1] = m
  BY AppendProperties
<1>2. ToSet(Append(s, m)) = ToSet(s) \cup {m}
  BY <1>1 DEF ToSet
<1>3. ASSUME IsInjective(s), m \notin ToSet(s)
      PROVE  IsInjective(Append(s, m))
  BY <1>1, <1>3 DEF IsInjective, ToSet
<1> QED
  BY <1>1, <1>2, <1>3

LEMMA TailKeeps ==
    ASSUME NEW s \in Seq(Ids), s # <<>>
    PROVE  /\ Tail(s) \in Seq(Ids) /\ ToSet(Tail(s)) \subseteq ToSet(s)
           /\ IsInjective(s) => IsInjective(Tail(s))
<1>1. /\ Tail(s) \in Seq(Ids) /\ Len(Tail(s)) = Len(s) - 1
      /\ \A i \in 1..(Len(s) - 1) : Tail(s)[i] = s[i + 1] /\ i + 1 \in 1..Len(s)
  BY HeadTailProperties
<1>2. ToSet(Tail(s)) \subseteq ToSet(s)
  <2> SUFFICES ASSUME NEW x \in ToSet(Tail(s)) PROVE x \in ToSet(s)
    OBVIOUS
  <2>1. PICK i \in 1..(Len(s) - 1) : Tail(s)[i] = x
    BY <1>1, ToSetMember
  <2>2. s[i + 1] = x /\ i + 1 \in 1..Len(s)
    BY <1>1, <2>1
  <2> QED
    BY <2>2, ToSetMember
<1>3. ASSUME IsInjective(s) PROVE IsInjective(Tail(s))
  <2>1. \A i, j \in 1..Len(s) : s[i] = s[j] => i = j
    BY <1>3 DEF IsInjective
  <2> SUFFICES ASSUME NEW i \in 1..(Len(s) - 1), NEW j \in 1..(Len(s) - 1),
                      Tail(s)[i] = Tail(s)[j]
               PROVE  i = j
    BY <1>1 DEF IsInjective
  <2>2. i + 1 = j + 1
    BY <1>1, <2>1
  <2> QED
    BY <2>2
<1> QED
  BY <1>1, <1>2, <1>3

\* What is taken out is gone; the other messages stay.
LEMMA RemoveKeeps ==
    ASSUME NEW s \in Seq(Ids), NEW k \in 1..Len(s)
    PROVE  /\ RemoveAt(s, k) \in Seq(Ids)
           /\ ToSet(RemoveAt(s, k)) \subseteq ToSet(s)
           /\ IsInjective(s) => /\ s[k] \notin ToSet(RemoveAt(s, k))
                                /\ IsInjective(RemoveAt(s, k))
<1> DEFINE r == RemoveAt(s, k)
           p == SubSeq(s, 1, k-1)
           q == SubSeq(s, k+1, Len(s))
<1>1. /\ p \in Seq(Ids) /\ Len(p) = k - 1
      /\ \A i \in 1..(k-1) : p[i] = s[i]
  BY SubSeqProperties
<1>2. /\ q \in Seq(Ids) /\ Len(q) = Len(s) - k
      /\ \A i \in 1..(Len(s) - k) : q[i] = s[k + i]
  BY SubSeqProperties
<1>3. r = p \o q
  BY DEF RemoveAt
<1> HIDE DEF p, q, r
<1>4. /\ r \in Seq(Ids) /\ Len(r) = Len(p) + Len(q)
      /\ \A i \in 1..(Len(p) + Len(q)) :
            r[i] = IF i <= Len(p) THEN p[i] ELSE q[i - Len(p)]
  BY <1>1, <1>2, <1>3, ConcatProperties
<1>5. Len(r) = Len(s) - 1
  BY <1>1, <1>2, <1>4
<1>6. ASSUME NEW i \in 1..(Len(s) - 1)
      PROVE  \E j \in 1..Len(s) : /\ r[i] = s[j] /\ j # k
                                  /\ i = IF j < k THEN j ELSE j - 1
  <2>1. CASE i < k
    <3>1. r[i] = p[i] /\ i \in 1..(k - 1)
      BY <1>1, <1>4, <1>5, <2>1
    <3>2. r[i] = s[i] /\ i \in 1..Len(s)
      BY <1>1, <3>1
    <3> QED
      BY <2>1, <3>2
  <2>2. CASE ~(i < k)
    <3>1. r[i] = q[i - (k - 1)] /\ i - (k - 1) \in 1..(Len(s) - k)
      BY <1>1, <1>4, <1>5, <2>2
    <3>2. k + (i - (k - 1)) = i + 1
      OBVIOUS
    <3>3. r[i] = s[i + 1] /\ i + 1 \in 1..Len(s)
      BY <1>2, <3>1, <3>2
    <3> QED
      BY <2>2, <3>3
  <2> QED
    BY <2>1, <2>2
<1>7. ToSet(r) \subseteq ToSet(s)
  BY <1>4, <1>5, <1>6, ToSetMember
<1>8. ASSUME IsInjective(s) PROVE s[k] \notin ToSet(r) /\ IsInjective(r)
  <2>1. \A i, j \in 1..Len(s) : s[i] = s[j] => i = j
    BY <1>8 DEF IsInjective
  <2>2. s[k] \notin ToSet(r)
    BY <1>4, <1>5, <1>6, <2>1, ToSetMember
  <2>3. ASSUME NEW a \in 1..(Len(s) - 1), NEW b \in 1..(Len(s) - 1), r[a] = r[b]
        PROVE  a = b
    <3>1. PICK i \in 1..Len(s) : r[a] = s[i] /\ a = IF i < k THEN i ELSE i - 1
      BY <1>6
    <3>2. PICK j \in 1..Len(s) : r[b] = s[j] /\ b = IF j < k THEN j ELSE j - 1
      BY <1>6
    <3> QED
      BY <2>1, <2>3, <3>1, <3>2
  <2> QED
    BY <1>4, <1>5, <2>2, <2>3 DEF IsInjective
<1> QED
  BY <1>4, <1>7, <1>8 DEF r

QueueType == queue \in [Mailboxes -> Seq(Ids)]

LEMMA EnqueueFacts ==
    ASSUME QueueType, NEW m \in Ids, Store!Enqueue(m)
    PROVE  /\ QueueType'
           /\ m \notin Store!Shown
           /\ \A mb \in Mailboxes :
                /\ mb # Home[m] => queue'[mb] = queue[mb]
                /\ ToSet(queue'[mb]) \subseteq ToSet(queue[mb]) \cup {m}
                /\ IsInjective(queue[mb]) => IsInjective(queue'[mb])
<1> DEFINE home == Home[m]
           full == Store!Full(queue[home])
           rest == IF full THEN Tail(queue[home]) ELSE queue[home]
<1>1. home \in Mailboxes /\ queue[home] \in Seq(Ids)
  BY Pop3Assumption DEF QueueType
<1>2. /\ m \notin Store!Shown
      /\ queue' = [queue EXCEPT ![home] = Append(rest, m)]
  BY DEF Store!Enqueue
<1>3. m \notin ToSet(queue[home])
  BY <1>1, <1>2 DEF Store!Shown, Store!ToSet, ToSet
<1>4. full => queue[home] # <<>>
  BY <1>1, Pop3Assumption DEF Store!Full
<1>5. /\ rest \in Seq(Ids) /\ ToSet(rest) \subseteq ToSet(queue[home])
      /\ IsInjective(queue[home]) => IsInjective(rest)
  BY <1>1, <1>4, TailKeeps
<1> HIDE DEF rest, full, home
<1>6. /\ Append(rest, m) \in Seq(Ids)
      /\ ToSet(Append(rest, m)) = ToSet(rest) \cup {m}
      /\ IsInjective(rest) /\ m \notin ToSet(rest) => IsInjective(Append(rest, m))
  BY <1>5, AppendKeeps
<1>7. \A mb \in Mailboxes :
        queue'[mb] = IF mb = home THEN Append(rest, m) ELSE queue[mb]
  BY <1>1, <1>2 DEF QueueType
<1>8. QueueType'
  BY <1>1, <1>2, <1>6 DEF QueueType
<1> QED
  BY <1>1, <1>2, <1>3, <1>5, <1>6, <1>7, <1>8 DEF home

LEMMA TakeFacts ==
    ASSUME QueueType, NEW mb \in Mailboxes, NEW m, Store!Take(mb, m)
    PROVE  /\ QueueType'
           /\ m \in ToSet(queue[mb])
           /\ \A b \in Mailboxes :
                /\ b # mb => queue'[b] = queue[b]
                /\ ToSet(queue'[b]) \subseteq ToSet(queue[b])
                /\ IsInjective(queue[b]) => IsInjective(queue'[b])
           /\ IsInjective(queue[mb]) => m \notin ToSet(queue'[mb])
<1>1. queue[mb] \in Seq(Ids)
  BY DEF QueueType
<1>2. PICK i \in 1..Len(queue[mb]) :
        /\ queue[mb][i] = m
        /\ queue' = [queue EXCEPT ![mb] = RemoveAt(@, i)]
  <2>1. PICK i \in DOMAIN queue[mb] :
          /\ queue[mb][i] = m
          /\ queue' = [queue EXCEPT ![mb] = Store!RemoveAt(@, i)]
    BY DEF Store!Take
  <2>2. Store!RemoveAt(queue[mb], i) = RemoveAt(queue[mb], i)
    BY DEF Store!RemoveAt, RemoveAt
  <2>3. i \in 1..Len(queue[mb])
    BY <1>1, <2>1
  <2>4. queue' = [queue EXCEPT ![mb] = RemoveAt(@, i)]
    BY <2>1, <2>2
  <2> QED
    BY <2>1, <2>3, <2>4
<1> DEFINE r == RemoveAt(queue[mb], i)
<1>3. /\ r \in Seq(Ids) /\ ToSet(r) \subseteq ToSet(queue[mb])
      /\ IsInjective(queue[mb]) => m \notin ToSet(r) /\ IsInjective(r)
  BY <1>1, <1>2, RemoveKeeps
<1>4. queue' = [queue EXCEPT ![mb] = r]
  BY <1>2
<1> HIDE DEF r
<1>5. \A b \in Mailboxes : queue'[b] = IF b = mb THEN r ELSE queue[b]
  BY <1>4 DEF QueueType
<1>6. QueueType'
  BY <1>3, <1>4 DEF QueueType
<1>7. m \in ToSet(queue[mb])
  BY <1>1, <1>2, ToSetMember
<1> QED
  BY <1>3, <1>5, <1>6, <1>7

LEMMA EmptyFacts ==
    ASSUME QueueType, NEW mb \in Mailboxes, Store!Empty(mb)
    PROVE  /\ QueueType'
           /\ \A b \in Mailboxes :
                /\ ToSet(queue'[b]) \subseteq ToSet(queue[b])
                /\ IsInjective(queue[b]) => IsInjective(queue'[b])
<1>1. queue' = [queue EXCEPT ![mb] = <<>>]
  BY DEF Store!Empty
<1>2. \A b \in Mailboxes : queue'[b] = IF b = mb THEN <<>> ELSE queue[b]
  BY <1>1 DEF QueueType
<1>3. ToSet(<<>>) = {} /\ IsInjective(<<>>)
  BY DEF ToSet, IsInjective
<1>4. <<>> \in Seq(Ids)
  OBVIOUS
<1>5. QueueType'
  BY <1>1, <1>4 DEF QueueType
<1> QED
  BY <1>2, <1>3, <1>5
-----------------------------------------------------------------------------
(* Types                                                                   *)

\* What the types of a step rest on: a session that has its mailbox locked is
\* at work in it, and only an open view has marked messages.
Working == {"opening", "transaction", "update"}
SessionOK(c) ==
    /\ locked[c] <=> state[c] \in Working
    /\ locked[c] => mailbox[c] \in Mailboxes
    /\ deleted[c] # {} => state[c] \in {"transaction", "update"}
TypeInv == TypeOK /\ \A c \in Conns : SessionOK(c)

LEMMA TypeInit == Init => TypeInv
BY DEF Init, TypeInv, TypeOK, SessionOK, Working, States

LEMMA ReleaseType ==
    ASSUME TypeInv, NEW c \in Conns
    PROVE  Release(c) \subseteq Mailboxes
BY DEF TypeInv, TypeOK, Release

\* The handler returns.
LEMMA EndType ==
    ASSUME TypeInv, NEW c \in Conns, End(c), UNCHANGED <<queue, arrived, asked, popped>>
    PROVE  TypeInv'
<1>1. Release(c) \subseteq Mailboxes
  BY ReleaseType
<1>2. TypeOK'
  BY <1>1 DEF TypeInv, TypeOK, End, States
<1>3. \A d \in Conns : SessionOK(d)'
  BY DEF TypeInv, TypeOK, SessionOK, End, Working
<1> QED
  BY <1>2, <1>3 DEF TypeInv

LEMMA TypeCommand ==
    ASSUME TypeInv, NEW c \in Conns, Command(c)
    PROVE  TypeInv'
<1>1. CASE Stls(c)
  <2>1. TypeOK'
    BY <1>1 DEF TypeInv, TypeOK, Stls, ghosts
  <2>2. \A d \in Conns : SessionOK(d)'
    BY <1>1 DEF TypeInv, TypeOK, SessionOK, Stls, Working
  <2> QED
    BY <2>1, <2>2 DEF TypeInv
<1>2. CASE User(c)
  <2>1. TypeOK'
    BY <1>2 DEF TypeInv, TypeOK, User, ghosts
  <2>2. \A d \in Conns : SessionOK(d)'
    BY <1>2 DEF TypeInv, TypeOK, SessionOK, User, Working
  <2> QED
    BY <2>1, <2>2 DEF TypeInv
<1>3. CASE PassRejected(c)
  <2>1. TypeOK'
    BY <1>3 DEF TypeInv, TypeOK, PassRejected, ghosts
  <2>2. \A d \in Conns : SessionOK(d)'
    BY <1>3 DEF TypeInv, TypeOK, SessionOK, PassRejected, Working
  <2> QED
    BY <2>1, <2>2 DEF TypeInv
<1>4. CASE Pass(c)
  <2> DEFINE mb == MailboxOf[username[c]]
  <2>1. mb \in Mailboxes
    BY <1>4, Pop3Assumption DEF TypeInv, TypeOK, Pass
  <2>2. mailbox' = [mailbox EXCEPT ![c] = mb] /\ state[c] = "authorization"
    BY <1>4 DEF Pass
  <2>3. CASE ExclusiveLock /\ mb \in locks
    <3>1. /\ username' = [username EXCEPT ![c] = NoUser]
          /\ UNCHANGED <<queue, arrived, locks, state, tls, locked, entries,
                         deleted, next, client, ghosts>>
      BY <1>4, <2>3 DEF Pass
    <3>2. TypeOK'
      BY <2>1, <2>2, <3>1 DEF TypeInv, TypeOK, ghosts
    <3>3. \A d \in Conns : SessionOK(d)'
      BY <2>1, <2>2, <3>1 DEF TypeInv, TypeOK, SessionOK, Working
    <3> QED
      BY <3>2, <3>3 DEF TypeInv
  <2>4. CASE ~(ExclusiveLock /\ mb \in locks)
    <3>1. /\ locks' = IF ExclusiveLock THEN locks \cup {mb} ELSE locks
          /\ locked' = [locked EXCEPT ![c] = TRUE]
          /\ state' = [state EXCEPT ![c] = "opening"]
          /\ UNCHANGED <<queue, arrived, username, tls, entries, deleted, next,
                         client, ghosts>>
      BY <1>4, <2>4 DEF Pass
    <3> HIDE DEF mb
    <3>2. TypeOK'
      BY <2>1, <2>2, <3>1 DEF TypeInv, TypeOK, ghosts, States
    <3>3. \A d \in Conns : SessionOK(d)'
      BY <2>1, <2>2, <3>1 DEF TypeInv, TypeOK, SessionOK, Working
    <3> QED
      BY <3>2, <3>3 DEF TypeInv
  <2> QED
    BY <2>3, <2>4
<1>5. CASE Dele(c)
  <2>1. PICK i \in DOMAIN entries[c] \ deleted[c] :
          /\ deleted' = [deleted EXCEPT ![c] = @ \cup {i}]
          /\ wish' = [wish EXCEPT ![c] = @ \cup {entries[c][i]}]
    BY <1>5 DEF Dele
  <2>2. entries[c][i] \in Ids
    BY <2>1 DEF TypeInv, TypeOK
  <2>3. TypeOK'
    BY <1>5, <2>1, <2>2 DEF TypeInv, TypeOK, Dele
  <2>4. \A d \in Conns : SessionOK(d)'
    BY <1>5, <2>1 DEF TypeInv, TypeOK, SessionOK, Dele, Working
  <2> QED
    BY <2>3, <2>4 DEF TypeInv
<1>6. CASE Rset(c)
  <2>1. TypeOK'
    BY <1>6 DEF TypeInv, TypeOK, Rset, ghosts
  <2>2. \A d \in Conns : SessionOK(d)'
    BY <1>6 DEF TypeInv, TypeOK, SessionOK, Rset, Working
  <2> QED
    BY <2>1, <2>2 DEF TypeInv
<1>7. CASE QuitEarly(c)
  BY <1>7, EndType DEF QuitEarly
<1>8. CASE Quit(c)
  <2>1. TypeOK'
    BY <1>8 DEF TypeInv, TypeOK, Quit, States
  <2>2. \A d \in Conns : SessionOK(d)'
    BY <1>8 DEF TypeInv, TypeOK, SessionOK, Quit, Working
  <2> QED
    BY <2>1, <2>2 DEF TypeInv
<1> QED
  BY <1>1, <1>2, <1>3, <1>4, <1>5, <1>6, <1>7, <1>8 DEF Command

LEMMA TypeWork ==
    ASSUME TypeInv, NEW c \in Conns, Work(c)
    PROVE  TypeInv'
<1>1. CASE Open(c)
  <2>1. queue[mailbox[c]] \in Seq(Ids) /\ deleted[c] = {}
    BY <1>1 DEF TypeInv, TypeOK, SessionOK, Open, Working
  <2>2. TypeOK'
    BY <1>1, <2>1 DEF TypeInv, TypeOK, Open, States, ghosts
  <2>3. \A d \in Conns : SessionOK(d)'
    BY <1>1 DEF TypeInv, TypeOK, SessionOK, Open, Working
  <2> QED
    BY <2>2, <2>3 DEF TypeInv
<1>2. CASE DeleteNext(c)
  <2> DEFINE m == entries[c][next[c]]
  <2>1. queue' \in [Mailboxes -> Seq(Ids)] /\ popped' \subseteq Ids
    <3>1. CASE next[c] \in deleted[c] /\ m \in Store!Shown
      <4>1. m \in Ids /\ Home[m] \in Mailboxes
        BY <3>1, Pop3Assumption DEF TypeInv, TypeOK
      <4>2. Store!Take(Home[m], m) /\ popped' = popped \cup {m}
        BY <1>2, <3>1 DEF DeleteNext
      <4>3. queue' \in [Mailboxes -> Seq(Ids)]
        BY <4>1, <4>2, TakeFacts DEF TypeInv, TypeOK, QueueType
      <4> QED
        BY <4>1, <4>2, <4>3 DEF TypeInv, TypeOK
    <3>2. CASE ~(next[c] \in deleted[c] /\ m \in Store!Shown)
      BY <1>2, <3>2 DEF TypeInv, TypeOK, DeleteNext
    <3> QED
      BY <3>1, <3>2
  <2>2. /\ next' = [next EXCEPT ![c] = @ + 1]
        /\ UNCHANGED <<arrived, locks, state, tls, username, mailbox, locked, entries,
                       deleted, client, wish, asked>>
    BY <1>2 DEF DeleteNext
  <2>3. TypeOK'
    BY <2>1, <2>2 DEF TypeInv, TypeOK
  <2>4. \A d \in Conns : SessionOK(d)'
    BY <2>2 DEF TypeInv, SessionOK
  <2> QED
    BY <2>3, <2>4 DEF TypeInv
<1>3. CASE SignOff(c)
  BY <1>3, EndType DEF SignOff
<1> QED
  BY <1>1, <1>2, <1>3 DEF Work

\* A connection comes and goes.
LEMMA TypeLine ==
    ASSUME TypeInv, NEW c \in Conns,
           Connect(c) \/ Handshake(c) \/ HandshakeFails(c) \/ Leave(c) \/ Drop(c)
    PROVE  TypeInv'
<1>1. CASE Connect(c)
  <2>1. TypeOK'
    BY <1>1 DEF TypeInv, TypeOK, Connect, States, ghosts
  <2>2. \A d \in Conns : SessionOK(d)'
    BY <1>1 DEF TypeInv, TypeOK, SessionOK, Connect, Working
  <2> QED
    BY <2>1, <2>2 DEF TypeInv
<1>2. CASE Handshake(c)
  <2>1. TypeOK'
    BY <1>2 DEF TypeInv, TypeOK, Handshake, States, ghosts
  <2>2. \A d \in Conns : SessionOK(d)'
    BY <1>2 DEF TypeInv, TypeOK, SessionOK, Handshake, Working
  <2> QED
    BY <2>1, <2>2 DEF TypeInv
<1>3. CASE HandshakeFails(c)
  BY <1>3, EndType DEF HandshakeFails
<1>4. CASE Leave(c)
  <2>1. PICK how \in {"silent", "gone"} : client' = [client EXCEPT ![c] = how]
    BY <1>4 DEF Leave
  <2>2. UNCHANGED <<queue, arrived, server, ghosts>>
    BY <1>4 DEF Leave
  <2> QED
    BY <2>1, <2>2 DEF TypeInv, TypeOK, SessionOK, server, ghosts
<1>5. CASE Drop(c)
  BY <1>5, EndType DEF Drop
<1> QED
  BY <1>1, <1>2, <1>3, <1>4, <1>5

LEMMA TypeStore ==
    ASSUME TypeInv, TakenAway \/ \E m \in Ids : Arrive(m)
    PROVE  TypeInv'
<1>1. UNCHANGED <<server, client, ghosts>>
  BY DEF TakenAway, Arrive
<1>2. queue' \in [Mailboxes -> Seq(Ids)] /\ arrived' \subseteq Ids
  <2>1. ASSUME NEW m \in Ids, Arrive(m)
        PROVE  queue' \in [Mailboxes -> Seq(Ids)] /\ arrived' \subseteq Ids
    <3>1. Store!Enqueue(m)
      BY <2>1 DEF Arrive
    <3>2. queue' \in [Mailboxes -> Seq(Ids)]
      BY <3>1, EnqueueFacts DEF TypeInv, TypeOK, QueueType
    <3> QED
      BY <2>1, <3>2 DEF Arrive, TypeInv, TypeOK
  <2>2. CASE TakenAway
    <3>1. PICK mb \in Mailboxes : Store!Empty(mb) \/ \E m \in Ids : Store!Take(mb, m)
      BY <2>2 DEF TakenAway
    <3>2. queue' \in [Mailboxes -> Seq(Ids)]
      BY <3>1, EmptyFacts, TakeFacts DEF TypeInv, TypeOK, QueueType
    <3> QED
      BY <2>2, <3>2 DEF TakenAway, TypeInv, TypeOK
  <2> QED
    BY <2>1, <2>2
<1> QED
  BY <1>1, <1>2 DEF TypeInv, TypeOK, SessionOK, server, ghosts

LEMMA TypeNext == TypeInv /\ [Next]_vars => TypeInv'
<1> SUFFICES ASSUME TypeInv, [Next]_vars PROVE TypeInv'
  OBVIOUS
<1>1. CASE UNCHANGED vars
  BY <1>1 DEF TypeInv, TypeOK, SessionOK, vars, server, ghosts
<1> QED
  BY <1>1, TypeCommand, TypeWork, TypeLine, TypeStore DEF Next

\* Every variable keeps its type, whatever the clients and the store do.
THEOREM TypeCorrect == Spec => []TypeOK
<1>1. Init => TypeInv
  BY TypeInit
<1>2. TypeInv /\ [Next]_vars => TypeInv'
  BY TypeNext
<1>3. TypeInv => TypeOK
  BY DEF TypeInv
<1> QED
  BY <1>1, <1>2, <1>3, PTL DEF Spec
-----------------------------------------------------------------------------
(* Locks                                                                   *)

\* What all endings of a session have in common.
Ended(c) ==
    /\ End(c) /\ UNCHANGED <<queue, arrived, asked, popped>>
    /\ state[c] = "update" => ~InView(c)

LEMMA Endings ==
    ASSUME NEW c \in Conns,
           HandshakeFails(c) \/ Drop(c) \/ QuitEarly(c) \/ SignOff(c)
    PROVE  Ended(c)
BY DEF HandshakeFails, Drop, QuitEarly, SignOff, Ended, Reads, Talks

\* Only PASS locks, and only an ending unlocks.
LEMMA LockFrame ==
    ASSUME [Next]_vars,
           \A c \in Conns : ~Pass(c) /\ ~Ended(c)
    PROVE  UNCHANGED <<locks, mailbox, locked>>
<1>1. CASE UNCHANGED vars
  BY <1>1 DEF vars, server
<1>2. ASSUME NEW c \in Conns, Connect(c) \/ Handshake(c) \/ Leave(c)
      PROVE  UNCHANGED <<locks, mailbox, locked>>
  BY <1>2 DEF Connect, Handshake, Leave, server
<1>3. ASSUME NEW c \in Conns, Command(c) PROVE UNCHANGED <<locks, mailbox, locked>>
  BY <1>3, Endings DEF Command, Stls, User, PassRejected, Dele, Rset, Quit
<1>4. ASSUME NEW c \in Conns, Work(c) PROVE UNCHANGED <<locks, mailbox, locked>>
  BY <1>4, Endings DEF Work, Open, DeleteNext
<1>5. ASSUME TakenAway \/ \E m \in Ids : Arrive(m)
      PROVE  UNCHANGED <<locks, mailbox, locked>>
  BY <1>5 DEF TakenAway, Arrive, server
<1> QED
  BY <1>1, <1>2, <1>3, <1>4, <1>5, Endings DEF Next

LEMMA LockNext ==
    ASSUME TypeInv, OneSessionPerMailbox, [Next]_vars
    PROVE  OneSessionPerMailbox'
<1> SUFFICES ASSUME ExclusiveLock PROVE OneSessionPerMailbox'
  BY DEF OneSessionPerMailbox
<1>1. /\ locked \in [Conns -> BOOLEAN]
      /\ mailbox \in [Conns -> Mailboxes \cup {NoMailbox}]
  BY DEF TypeInv, TypeOK
<1>2. /\ \A mb : mb \in locks <=> \E d \in Conns : locked[d] /\ mailbox[d] = mb
      /\ \A c, d \in Conns : locked[c] /\ locked[d] /\ mailbox[c] = mailbox[d] => c = d
  BY DEF OneSessionPerMailbox
<1>3. SUFFICES /\ \A mb : mb \in locks' <=> \E d \in Conns : locked'[d] /\ mailbox'[d] = mb
               /\ \A c, d \in Conns :
                    locked'[c] /\ locked'[d] /\ mailbox'[c] = mailbox'[d] => c = d
  BY DEF OneSessionPerMailbox
<1>4. CASE UNCHANGED <<locks, mailbox, locked>>
  BY <1>2, <1>4
<1>5. ASSUME NEW c \in Conns, Ended(c)
      PROVE  /\ \A mb : mb \in locks' <=> \E d \in Conns : locked'[d] /\ mailbox'[d] = mb
             /\ \A a, b \in Conns :
                  locked'[a] /\ locked'[b] /\ mailbox'[a] = mailbox'[b] => a = b
  <2>1. /\ locks' = IF locked[c] THEN locks \ {mailbox[c]} ELSE locks
        /\ mailbox' = [mailbox EXCEPT ![c] = NoMailbox]
        /\ locked' = [locked EXCEPT ![c] = FALSE]
    BY <1>5 DEF Ended, End, Release
  <2>2. \A d \in Conns : /\ locked'[d] <=> (locked[d] /\ d # c)
                         /\ d # c => mailbox'[d] = mailbox[d]
    BY <1>1, <2>1
  <2> QED
    BY <1>2, <2>1, <2>2
<1>6. ASSUME NEW c \in Conns, Pass(c)
      PROVE  /\ \A mb : mb \in locks' <=> \E d \in Conns : locked'[d] /\ mailbox'[d] = mb
             /\ \A a, b \in Conns :
                  locked'[a] /\ locked'[b] /\ mailbox'[a] = mailbox'[b] => a = b
  <2> DEFINE box == MailboxOf[username[c]]
  <2>1. ~locked[c]
    BY <1>6 DEF TypeInv, SessionOK, Working, Pass
  <2>2. mailbox' = [mailbox EXCEPT ![c] = box]
    BY <1>6 DEF Pass
  <2>3. CASE box \in locks
    <3>1. locks' = locks /\ locked' = locked
      BY <1>6, <2>3 DEF Pass
    <3>2. \A d \in Conns : locked[d] => d # c /\ mailbox'[d] = mailbox[d]
      BY <1>1, <2>1, <2>2
    <3> QED
      BY <1>2, <3>1, <3>2
  <2>4. CASE box \notin locks
    <3>1. locks' = locks \cup {box} /\ locked' = [locked EXCEPT ![c] = TRUE]
      BY <1>6, <2>4 DEF Pass
    <3> HIDE DEF box
    <3>2. /\ locked'[c] /\ mailbox'[c] = box
          /\ \A d \in Conns : d # c => locked'[d] = locked[d] /\ mailbox'[d] = mailbox[d]
      BY <1>1, <2>2, <3>1
    <3>3. \A d \in Conns : locked[d] => d # c /\ mailbox[d] # box
      BY <1>2, <2>1, <2>4
    <3> QED
      BY <1>2, <3>1, <3>2, <3>3
  <2> QED
    BY <2>3, <2>4
<1> QED
  BY <1>4, <1>5, <1>6, LockFrame

LEMMA LockInit == Init => OneSessionPerMailbox
BY DEF Init, OneSessionPerMailbox

\* With ExclusiveLock, two sessions never have the same mailbox open, and what
\* Server.locks names are exactly the mailboxes that are open.
THEOREM LocksCorrect == Spec => []OneSessionPerMailbox
<1>1. Init => TypeInv /\ OneSessionPerMailbox
  BY TypeInit, LockInit
<1>2. TypeInv /\ OneSessionPerMailbox /\ [Next]_vars => (TypeInv /\ OneSessionPerMailbox)'
  BY TypeNext, LockNext
<1> QED
  BY <1>1, <1>2, PTL DEF Spec
-----------------------------------------------------------------------------
(* Marks and wishes                                                        *)

\* A session's marks are what its client wants deleted, and once it carries
\* them out the client has asked for it.
MarksOK(c) ==
    /\ wish[c] = {entries[c][i] : i \in deleted[c]}
    /\ state[c] = "update" => wish[c] \subseteq asked
AskInv == OnlyAskedFor /\ \A c \in Conns : MarksOK(c)

LEMMA AskInit == Init => AskInv
BY DEF Init, AskInv, OnlyAskedFor, MarksOK

\* The steps that change nothing of what MarksOK speaks of.
LEMMA MarksFrame ==
    ASSUME TypeInv, [Next]_vars,
           \A c \in Conns : /\ ~Ended(c) /\ ~Open(c) /\ ~DeleteNext(c)
                            /\ ~Dele(c) /\ ~Rset(c) /\ ~Quit(c)
    PROVE  /\ UNCHANGED <<entries, deleted, next, wish, asked, popped>>
           /\ \A c \in Conns : state[c] = "update" <=> state'[c] = "update"
           /\ \A c \in Conns : state[c] = "transaction" <=> state'[c] = "transaction"
<1> USE DEF TypeInv, TypeOK
<1>1. CASE UNCHANGED vars
  BY <1>1 DEF vars, server, ghosts
<1>2. ASSUME NEW c \in Conns, Connect(c) \/ Handshake(c) \/ Leave(c)
      PROVE  /\ UNCHANGED <<entries, deleted, next, wish, asked, popped>>
             /\ \A d \in Conns : state[d] = "update" <=> state'[d] = "update"
             /\ \A d \in Conns : state[d] = "transaction" <=> state'[d] = "transaction"
  BY <1>2 DEF Connect, Handshake, Leave, server, ghosts
<1>3. ASSUME NEW c \in Conns, Stls(c) \/ User(c) \/ PassRejected(c)
      PROVE  UNCHANGED <<entries, deleted, next, wish, asked, popped, state>>
  BY <1>3 DEF Stls, User, PassRejected, ghosts
<1>4. ASSUME NEW c \in Conns, Pass(c)
      PROVE  /\ UNCHANGED <<entries, deleted, next, wish, asked, popped>>
             /\ \A d \in Conns : state[d] = "update" <=> state'[d] = "update"
             /\ \A d \in Conns : state[d] = "transaction" <=> state'[d] = "transaction"
  BY <1>4 DEF Pass, ghosts
<1>5. ASSUME TakenAway \/ \E m \in Ids : Arrive(m)
      PROVE  UNCHANGED <<entries, deleted, next, wish, asked, popped, state>>
  BY <1>5 DEF TakenAway, Arrive, server, ghosts
<1> QED
  BY <1>1, <1>2, <1>3, <1>4, <1>5, Endings DEF Next, Command, Work

LEMMA AskNext ==
    ASSUME TypeInv, AskInv, [Next]_vars
    PROVE  AskInv'
<1> USE DEF AskInv, OnlyAskedFor, MarksOK
<1>1. CASE \A c \in Conns : /\ ~Ended(c) /\ ~Open(c) /\ ~DeleteNext(c)
                            /\ ~Dele(c) /\ ~Rset(c) /\ ~Quit(c)
  BY <1>1, MarksFrame
<1>2. ASSUME NEW c \in Conns, Ended(c) PROVE AskInv'
  <2>1. /\ asked' = asked /\ popped' = popped
        /\ wish'[c] = {} /\ deleted'[c] = {} /\ state'[c] = "off"
        /\ \A d \in Conns : d # c =>
            /\ wish'[d] = wish[d] /\ deleted'[d] = deleted[d]
            /\ entries'[d] = entries[d] /\ state'[d] = state[d]
    BY <1>2 DEF Ended, End, TypeInv, TypeOK
  <2> QED
    BY <2>1
<1>3. ASSUME NEW c \in Conns, Open(c) PROVE AskInv'
  <2>1. deleted[c] = {} /\ wish[c] = {}
    BY <1>3 DEF Open, TypeInv, SessionOK
  <2>2. /\ UNCHANGED <<asked, popped, wish, deleted>> /\ state'[c] = "transaction"
        /\ \A d \in Conns : d # c => entries'[d] = entries[d] /\ state'[d] = state[d]
    BY <1>3 DEF Open, TypeInv, TypeOK, ghosts
  <2> QED
    BY <2>1, <2>2
<1>4. ASSUME NEW c \in Conns, DeleteNext(c) PROVE AskInv'
  <2>1. UNCHANGED <<asked, wish, deleted, entries, state>> /\ state[c] = "update"
    BY <1>4 DEF DeleteNext
  <2>2. \/ popped' = popped
        \/ next[c] \in deleted[c] /\ popped' = popped \cup {entries[c][next[c]]}
    BY <1>4 DEF DeleteNext
  <2> QED
    BY <2>1, <2>2
<1>5. ASSUME NEW c \in Conns, Dele(c) PROVE AskInv'
  <2>1. PICK i \in DOMAIN entries[c] \ deleted[c] :
          /\ deleted' = [deleted EXCEPT ![c] = @ \cup {i}]
          /\ wish' = [wish EXCEPT ![c] = @ \cup {entries[c][i]}]
    BY <1>5 DEF Dele
  <2>2. UNCHANGED <<asked, popped, entries, state>> /\ state[c] = "transaction"
    BY <1>5 DEF Dele
  <2>3. /\ deleted'[c] = deleted[c] \cup {i} /\ wish'[c] = wish[c] \cup {entries[c][i]}
        /\ \A d \in Conns : d # c => wish'[d] = wish[d] /\ deleted'[d] = deleted[d]
    BY <2>1 DEF TypeInv, TypeOK
  <2> QED
    BY <2>2, <2>3
<1>6. ASSUME NEW c \in Conns, Rset(c) PROVE AskInv'
  <2>1. /\ UNCHANGED <<asked, popped, entries, state>>
        /\ wish'[c] = {} /\ deleted'[c] = {}
        /\ \A d \in Conns : d # c => wish'[d] = wish[d] /\ deleted'[d] = deleted[d]
    BY <1>6 DEF Rset, TypeInv, TypeOK
  <2> QED
    BY <2>1
<1>7. ASSUME NEW c \in Conns, Quit(c) PROVE AskInv'
  <2>1. /\ asked' = asked \cup wish[c]
        /\ UNCHANGED <<popped, entries, wish, deleted>>
        /\ \A d \in Conns : d # c => state'[d] = state[d]
    BY <1>7 DEF Quit, TypeInv, TypeOK
  <2> QED
    BY <2>1
<1> QED
  BY <1>1, <1>2, <1>3, <1>4, <1>5, <1>6, <1>7

\* POP3 deletes only what a client marked, did not unmark, and ended with QUIT.
THEOREM DeletionsAskedFor == Spec => []OnlyAskedFor
<1>1. Init => TypeInv /\ AskInv
  BY TypeInit, AskInit
<1>2. TypeInv /\ AskInv /\ [Next]_vars => (TypeInv /\ AskInv)'
  BY TypeNext, AskNext
<1>3. AskInv => OnlyAskedFor
  BY DEF AskInv
<1> QED
  BY <1>1, <1>2, <1>3, PTL DEF Spec
-----------------------------------------------------------------------------
(* Queues and views                                                        *)

\* A message arrives once, in its mailbox, and has one place there.
QueuesOK ==
    \A mb \in Mailboxes :
        /\ IsInjective(queue[mb])
        /\ \A m \in ToSet(queue[mb]) : m \in arrived /\ Home[m] = mb

LEMMA ShownMember ==
    \A m : m \in Store!Shown <=> \E mb \in Mailboxes : m \in ToSet(queue[mb])
BY DEF Store!Shown, Store!ToSet, ToSet

\* What is shown after a step was shown before it, or it is new.
LEMMA QueuesNext ==
    ASSUME TypeInv, QueuesOK, [Next]_vars
    PROVE  /\ QueuesOK'
           /\ arrived \subseteq arrived'
           /\ \A m \in Store!Shown' : m \in Store!Shown \/ m \notin arrived
<1>t. QueueType
  BY DEF TypeInv, TypeOK, QueueType
<1>s. /\ \A m : m \in Store!Shown <=> \E mb \in Mailboxes : m \in ToSet(queue[mb])
      /\ \A m : m \in Store!Shown' <=> \E mb \in Mailboxes : m \in ToSet(queue'[mb])
  <2>1. \A m : m \in Store!Shown <=> \E mb \in Mailboxes : m \in ToSet(queue[mb])
    BY ShownMember
  <2>2. \A m : m \in Store!Shown' <=> \E mb \in Mailboxes : m \in ToSet(queue'[mb])
    BY DEF Store!Shown, Store!ToSet, ToSet
  <2> QED
    BY <2>1, <2>2
<1>1. CASE UNCHANGED <<queue, arrived>>
  BY <1>1, <1>s DEF QueuesOK
<1>2. ASSUME arrived' = arrived, NEW mb \in Mailboxes,
             Store!Empty(mb) \/ \E m \in Ids : Store!Take(mb, m)
      PROVE  /\ QueuesOK'
             /\ \A m \in Store!Shown' : m \in Store!Shown
  <2>1. \A b \in Mailboxes :
          /\ ToSet(queue'[b]) \subseteq ToSet(queue[b])
          /\ IsInjective(queue[b]) => IsInjective(queue'[b])
    BY <1>2, <1>t, EmptyFacts, TakeFacts
  <2> QED
    BY <1>2, <1>s, <2>1 DEF QueuesOK
<1>3. CASE TakenAway
  BY <1>2, <1>3 DEF TakenAway
<1>4. ASSUME NEW m \in Ids, Arrive(m)
      PROVE  /\ QueuesOK' /\ arrived \subseteq arrived'
             /\ \A n \in Store!Shown' : n \in Store!Shown \/ n \notin arrived
  <2>1. Store!Enqueue(m) /\ arrived' = arrived \cup {m} /\ m \notin arrived
    BY <1>4 DEF Arrive
  <2>2. /\ m \notin Store!Shown
        /\ \A mb \in Mailboxes :
              /\ mb # Home[m] => queue'[mb] = queue[mb]
              /\ ToSet(queue'[mb]) \subseteq ToSet(queue[mb]) \cup {m}
              /\ IsInjective(queue[mb]) => IsInjective(queue'[mb])
    BY <1>t, <2>1, EnqueueFacts
  <2> QED
    BY <1>s, <2>1, <2>2 DEF QueuesOK
<1>5. ASSUME NEW c \in Conns, DeleteNext(c)
      PROVE  /\ QueuesOK' /\ arrived' = arrived
             /\ \A m \in Store!Shown' : m \in Store!Shown
  <2> DEFINE m == entries[c][next[c]]
  <2>1. arrived' = arrived
    BY <1>5 DEF DeleteNext
  <2>2. CASE next[c] \in deleted[c] /\ m \in Store!Shown
    <3>1. Store!Take(Home[m], m)
      BY <1>5, <2>2 DEF DeleteNext
    <3>2. m \in Ids /\ Home[m] \in Mailboxes
      BY <2>2, Pop3Assumption DEF TypeInv, TypeOK
    <3> QED
      BY <1>2, <2>1, <3>1, <3>2
  <2>3. CASE ~(next[c] \in deleted[c] /\ m \in Store!Shown)
    <3>1. queue' = queue
      BY <1>5, <2>3 DEF DeleteNext
    <3> QED
      BY <1>s, <2>1, <3>1 DEF QueuesOK
  <2> QED
    BY <2>1, <2>2, <2>3
<1>6. ASSUME NEW c \in Conns,
             \/ Connect(c) \/ Handshake(c) \/ HandshakeFails(c)
             \/ Leave(c) \/ Drop(c) \/ Command(c) \/ Open(c) \/ SignOff(c)
      PROVE  UNCHANGED <<queue, arrived>>
  BY <1>6 DEF Connect, Handshake, HandshakeFails, Leave, Drop, Command, Open, SignOff,
              Stls, User, PassRejected, Pass, Dele, Rset, QuitEarly, Quit
<1>7. CASE UNCHANGED vars
  BY <1>1, <1>7 DEF vars
<1> QED
  BY <1>1, <1>2, <1>3, <1>4, <1>5, <1>6, <1>7 DEF Next, Work, TakenAway

\* A view shows messages of the session's own mailbox, and none while it is not
\* open; what was deleted had arrived, and is not shown again.
ViewOK(c) ==
    /\ entries[c] # <<>> => state[c] \in {"transaction", "update"}
    /\ \A m \in ToSet(entries[c]) : m \in arrived /\ Home[m] = mailbox[c]
ViewInv ==
    /\ QueuesOK
    /\ \A c \in Conns : ViewOK(c)
    /\ asked \subseteq arrived
    /\ popped \cap Store!Shown = {}

LEMMA ViewInit == Init => ViewInv
<1> SUFFICES ASSUME Init PROVE ViewInv
  OBVIOUS
<1>1. ToSet(<<>>) = {} /\ IsInjective(<<>>)
  BY DEF ToSet, IsInjective
<1> QED
  BY <1>1 DEF Init, ViewInv, QueuesOK, ViewOK

\* What an open session lists does not change.
KeepsView(c) ==
    /\ entries'[c] = entries[c] /\ mailbox'[c] = mailbox[c]
    /\ state[c] \in {"transaction", "update"} => state'[c] \in {"transaction", "update"}

LEMMA ViewNext ==
    ASSUME TypeInv, \A c \in Conns : ViewOK(c), QueuesOK, arrived \subseteq arrived',
           [Next]_vars, NEW c \in Conns
    PROVE  ViewOK(c)'
<1>1. CASE entries'[c] = <<>>
  BY <1>1 DEF ViewOK, ToSet
<1>2. CASE KeepsView(c)
  BY <1>2 DEF ViewOK, KeepsView
<1>3. CASE Open(c)
  <2>1. /\ entries'[c] = queue[mailbox[c]] /\ mailbox[c] \in Mailboxes
        /\ mailbox' = mailbox /\ state'[c] = "transaction"
    BY <1>3 DEF Open, TypeInv, TypeOK, SessionOK, Working
  <2> QED
    BY <2>1 DEF ViewOK, QueuesOK
<1>4. ASSUME entries'[c] # <<>>, ~Open(c)
      PROVE  KeepsView(c)
  <2> USE <1>4 DEF TypeInv, TypeOK, KeepsView
  <2>1. ASSUME NEW d \in Conns, Connect(d) \/ Handshake(d) \/ Leave(d)
        PROVE  KeepsView(c)
    BY <2>1 DEF Connect, Handshake, Leave, server
  <2>2. ASSUME NEW d \in Conns, Ended(d) PROVE KeepsView(c)
    BY <2>2 DEF Ended, End
  <2>3. ASSUME NEW d \in Conns, Stls(d) \/ User(d) \/ PassRejected(d)
        PROVE  KeepsView(c)
    BY <2>3 DEF Stls, User, PassRejected
  <2>4. ASSUME NEW d \in Conns, Pass(d) PROVE KeepsView(c)
    BY <2>4 DEF Pass, ViewOK
  <2>5. ASSUME NEW d \in Conns, Dele(d) \/ Rset(d) \/ Quit(d) PROVE KeepsView(c)
    BY <2>5 DEF Dele, Rset, Quit
  <2>6. ASSUME NEW d \in Conns, Open(d) \/ DeleteNext(d) PROVE KeepsView(c)
    BY <2>6 DEF Open, DeleteNext
  <2>7. CASE TakenAway \/ \E m \in Ids : Arrive(m)
    BY <2>7 DEF TakenAway, Arrive, server
  <2>8. CASE UNCHANGED vars
    BY <2>8 DEF vars, server
  <2> HIDE DEF TypeInv, TypeOK, KeepsView
  <2>9. ASSUME NEW d \in Conns, Command(d) PROVE KeepsView(c)
    BY <2>2, <2>3, <2>4, <2>5, <2>9, Endings DEF Command
  <2>10. ASSUME NEW d \in Conns, Work(d) PROVE KeepsView(c)
    BY <2>2, <2>6, <2>10, Endings DEF Work
  <2> QED
    BY <2>1, <2>2, <2>7, <2>8, <2>9, <2>10, Endings DEF Next
<1> QED
  BY <1>1, <1>2, <1>3, <1>4

\* One round of QUIT: a message that is marked and still there goes for good.
LEMMA DeleteNextFacts ==
    ASSUME TypeInv, QueuesOK, NEW c \in Conns, DeleteNext(c)
    PROVE  \/ /\ popped' = popped
              /\ next[c] \in deleted[c] => entries[c][next[c]] \notin Store!Shown'
           \/ /\ next[c] \in deleted[c] /\ entries[c][next[c]] \notin Store!Shown'
              /\ popped' = popped \cup {entries[c][next[c]]}
              /\ entries[c][next[c]] \in ToSet(entries[c])
<1> DEFINE m == entries[c][next[c]]
<1>1. CASE next[c] \in deleted[c] /\ m \in Store!Shown
  <2>1. m \in Ids /\ Home[m] \in Mailboxes /\ entries[c] \in Seq(Ids)
    BY <1>1, Pop3Assumption DEF TypeInv, TypeOK
  <2>2. m \in ToSet(entries[c])
    BY <1>1, <2>1 DEF TypeInv, TypeOK, ToSet
  <2>3. Store!Take(Home[m], m) /\ popped' = popped \cup {m}
    BY <1>1 DEF DeleteNext
  <2>4. /\ m \notin ToSet(queue'[Home[m]])
        /\ \A b \in Mailboxes : ToSet(queue'[b]) \subseteq ToSet(queue[b])
    BY <2>1, <2>3, TakeFacts DEF TypeInv, TypeOK, QueueType, QueuesOK
  <2>5. \A b \in Mailboxes : m \notin ToSet(queue'[b])
    BY <2>4 DEF QueuesOK
  <2>6. m \notin Store!Shown'
    BY <2>5 DEF Store!Shown, Store!ToSet, ToSet
  <2> QED
    BY <1>1, <2>2, <2>3, <2>6
<1>2. CASE ~(next[c] \in deleted[c] /\ m \in Store!Shown)
  <2>1. popped' = popped /\ queue' = queue
    BY <1>2 DEF DeleteNext
  <2>2. Store!Shown' = Store!Shown
    BY <2>1 DEF Store!Shown, Store!ToSet
  <2> QED
    BY <1>2, <2>1, <2>2
<1> QED
  BY <1>1, <1>2

\* Every step but one of QUIT leaves alone what clients asked for and got.
LEMMA AskedFrame ==
    ASSUME TypeInv, [Next]_vars, \A c \in Conns : ~Quit(c) /\ ~DeleteNext(c)
    PROVE  asked' = asked /\ popped' = popped
<1>1. CASE \A c \in Conns : ~Ended(c) /\ ~Open(c) /\ ~Dele(c) /\ ~Rset(c)
  BY <1>1, MarksFrame
<1>2. ASSUME NEW c \in Conns, Ended(c) \/ Open(c) \/ Dele(c) \/ Rset(c)
      PROVE  asked' = asked /\ popped' = popped
  BY <1>2 DEF Ended, Open, Dele, Rset, ghosts
<1> QED
  BY <1>1, <1>2

LEMMA ViewInvNext ==
    ASSUME TypeInv, AskInv, ViewInv, [Next]_vars
    PROVE  ViewInv'
<1>1. /\ QueuesOK' /\ arrived \subseteq arrived'
      /\ \A m \in Store!Shown' : m \in Store!Shown \/ m \notin arrived
  BY QueuesNext DEF ViewInv
<1>2. \A c \in Conns : ViewOK(c)'
  BY <1>1, ViewNext DEF ViewInv
<1>3. popped \subseteq arrived
  BY DEF AskInv, OnlyAskedFor, ViewInv
<1>4. CASE \A c \in Conns : ~Quit(c) /\ ~DeleteNext(c)
  <2>1. asked' = asked /\ popped' = popped
    BY <1>4, AskedFrame
  <2> QED
    BY <1>1, <1>2, <1>3, <2>1 DEF ViewInv
<1>5. ASSUME NEW c \in Conns, Quit(c) PROVE ViewInv'
  <2>1. asked' = asked \cup wish[c] /\ popped' = popped
    BY <1>5 DEF Quit
  <2>2. wish[c] \subseteq ToSet(entries[c])
    BY DEF AskInv, MarksOK, TypeInv, TypeOK, ToSet
  <2>3. wish[c] \subseteq arrived
    BY <2>2 DEF ViewInv, ViewOK
  <2> QED
    BY <1>1, <1>2, <1>3, <2>1, <2>3 DEF ViewInv
<1>6. ASSUME NEW c \in Conns, DeleteNext(c) PROVE ViewInv'
  <2>1. asked' = asked
    BY <1>6 DEF DeleteNext
  <2>2. \/ popped' = popped
        \/ /\ popped' = popped \cup {entries[c][next[c]]}
           /\ entries[c][next[c]] \notin Store!Shown'
    BY <1>6, DeleteNextFacts DEF ViewInv
  <2> QED
    BY <1>1, <1>2, <1>3, <2>1, <2>2 DEF ViewInv
<1> QED
  BY <1>4, <1>5, <1>6
-----------------------------------------------------------------------------
(* What QUIT promises to others and to its own client                      *)

LEMMA ExclusiveViewNext ==
    ASSUME TypeInv, OneSessionPerMailbox, ViewInv, ExclusiveView, [Next]_vars
    PROVE  ExclusiveView'
<1> SUFFICES ASSUME ExclusiveLock, NEW c \in Conns, state'[c] = "transaction"
             PROVE  ToSet(entries'[c]) \cap popped' = {}
  BY DEF ExclusiveView
<1> USE DEF ExclusiveView
<1>1. CASE \A d \in Conns : /\ ~Ended(d) /\ ~Open(d) /\ ~DeleteNext(d)
                            /\ ~Dele(d) /\ ~Rset(d) /\ ~Quit(d)
  BY <1>1, MarksFrame
<1>2. ASSUME NEW d \in Conns, Ended(d) PROVE ToSet(entries'[c]) \cap popped' = {}
  <2>1. popped' = popped /\ d # c /\ state'[c] = state[c] /\ entries'[c] = entries[c]
    BY <1>2 DEF Ended, End, TypeInv, TypeOK
  <2> QED
    BY <2>1
<1>3. ASSUME NEW d \in Conns, Dele(d) \/ Rset(d) \/ Quit(d)
      PROVE  ToSet(entries'[c]) \cap popped' = {}
  <2>1. popped' = popped /\ state[c] = "transaction" /\ entries' = entries
    BY <1>3 DEF Dele, Rset, Quit, TypeInv, TypeOK
  <2> QED
    BY <2>1
<1>4. ASSUME NEW d \in Conns, Open(d) PROVE ToSet(entries'[c]) \cap popped' = {}
  <2>1. popped' = popped
    BY <1>4 DEF Open, ghosts
  <2>2. CASE d = c
    <3>1. entries'[c] = queue[mailbox[c]] /\ mailbox[c] \in Mailboxes
      BY <1>4, <2>2 DEF Open, TypeInv, TypeOK, SessionOK, Working
    <3>2. ToSet(entries'[c]) \subseteq Store!Shown
      BY <3>1, ShownMember
    <3> QED
      BY <2>1, <3>2 DEF ViewInv
  <2>3. CASE d # c
    <3>1. state[c] = "transaction" /\ entries'[c] = entries[c]
      BY <1>4, <2>3 DEF Open, TypeInv, TypeOK
    <3> QED
      BY <2>1, <3>1
  <2> QED
    BY <2>2, <2>3
<1>5. ASSUME NEW d \in Conns, DeleteNext(d) PROVE ToSet(entries'[c]) \cap popped' = {}
  <2> DEFINE m == entries[d][next[d]]
  <2>1. entries' = entries /\ state' = state /\ state[d] = "update"
    BY <1>5 DEF DeleteNext
  <2>2. \/ popped' = popped
        \/ popped' = popped \cup {m} /\ m \in ToSet(entries[d])
    BY <1>5, DeleteNextFacts DEF ViewInv
  <2>3. m \in ToSet(entries[d]) => m \notin ToSet(entries[c])
    <3> SUFFICES ASSUME m \in ToSet(entries[d]), m \in ToSet(entries[c]) PROVE FALSE
      OBVIOUS
    <3>1. mailbox[c] = mailbox[d]
      BY DEF ViewInv, ViewOK
    <3>2. locked[c] /\ locked[d]
      BY <2>1 DEF TypeInv, SessionOK, Working
    <3>3. c = d
      BY <3>1, <3>2 DEF OneSessionPerMailbox
    <3> QED
      BY <2>1, <3>3
  <2> QED
    BY <2>1, <2>2, <2>3
<1> QED
  BY <1>1, <1>2, <1>3, <1>4, <1>5

LEMMA QuitDeletesNext ==
    ASSUME TypeInv, AskInv, ViewInv, QuitDeletes, [Next]_vars
    PROVE  QuitDeletes'
<1>1. /\ arrived \subseteq arrived'
      /\ \A m \in Store!Shown' : m \in Store!Shown \/ m \notin arrived
  BY QueuesNext DEF ViewInv
<1> SUFFICES ASSUME NEW m \in asked', m \in Store!Shown'
             PROVE  \E c \in Conns :
                      /\ state'[c] = "update"
                      /\ \E i \in deleted'[c] : i >= next'[c] /\ entries'[c][i] = m
  BY DEF QuitDeletes
<1> DEFINE Doing(c) == /\ state[c] = "update"
                       /\ \E i \in deleted[c] : i >= next[c] /\ entries[c][i] = m
           Stays(c) == /\ state'[c] = "update" /\ next'[c] = next[c]
                       /\ deleted'[c] = deleted[c] /\ entries'[c] = entries[c]
<1>2. ASSUME m \in asked PROVE \E c \in Conns : Doing(c)
  BY <1>1, <1>2 DEF QuitDeletes, ViewInv
<1>3. ASSUME asked' = asked, \A c \in Conns : Doing(c) => Stays(c)
      PROVE  \E c \in Conns :
                /\ state'[c] = "update"
                /\ \E i \in deleted'[c] : i >= next'[c] /\ entries'[c][i] = m
  <2>1. PICK c \in Conns : Doing(c)
    BY <1>2, <1>3
  <2>2. Stays(c)
    BY <1>3, <2>1
  <2> QED
    BY <2>1, <2>2
<1>4. CASE \A d \in Conns : /\ ~Ended(d) /\ ~Open(d) /\ ~DeleteNext(d)
                            /\ ~Dele(d) /\ ~Rset(d) /\ ~Quit(d)
  BY <1>3, <1>4, MarksFrame
<1>5. ASSUME NEW d \in Conns, Ended(d)
      PROVE  asked' = asked /\ \A c \in Conns : Doing(c) => Stays(c)
  <2>1. ~Doing(d)
    <3>1. \A i \in deleted[d] : i \in 1..Len(entries[d])
      BY DEF TypeInv, TypeOK
    <3>2. state[d] = "update" => ~(next[d] <= Len(entries[d]))
      BY <1>5 DEF Ended, InView
    <3>3. next[d] \in Nat /\ Len(entries[d]) \in Nat
      BY DEF TypeInv, TypeOK
    <3> QED
      BY <3>1, <3>2, <3>3
  <2>2. asked' = asked
    BY <1>5 DEF Ended
  <2>3. ASSUME NEW c \in Conns, c # d, Doing(c) PROVE Stays(c)
    BY <1>5, <2>3 DEF Ended, End, TypeInv, TypeOK
  <2> QED
    BY <2>1, <2>2, <2>3
<1>6. ASSUME NEW d \in Conns, Open(d) \/ Dele(d) \/ Rset(d)
      PROVE  asked' = asked /\ \A c \in Conns : Doing(c) => Stays(c)
  <2>1. ~Doing(d) /\ asked' = asked
    BY <1>6 DEF Open, Dele, Rset, ghosts
  <2>2. ASSUME NEW c \in Conns, c # d, Doing(c) PROVE Stays(c)
    BY <1>6, <2>2 DEF Open, Dele, Rset, TypeInv, TypeOK
  <2> QED
    BY <2>1, <2>2
<1>7. ASSUME NEW d \in Conns, Quit(d)
      PROVE  \E c \in Conns :
                /\ state'[c] = "update"
                /\ \E i \in deleted'[c] : i >= next'[c] /\ entries'[c][i] = m
  <2>1. /\ state[d] = "transaction" /\ asked' = asked \cup wish[d]
        /\ state'[d] = "update" /\ next'[d] = 1
        /\ deleted' = deleted /\ entries' = entries
        /\ \A c \in Conns : c # d => state'[c] = state[c] /\ next'[c] = next[c]
    BY <1>7 DEF Quit, TypeInv, TypeOK
  <2>2. CASE m \in asked
    <3>1. PICK c \in Conns : Doing(c)
      BY <1>2, <2>2
    <3>2. c # d
      BY <2>1, <3>1
    <3> QED
      BY <2>1, <3>1, <3>2
  <2>3. CASE m \in wish[d]
    <3>1. PICK i \in deleted[d] : entries[d][i] = m
      BY <2>3 DEF AskInv, MarksOK
    <3>2. i \in 1..Len(entries[d])
      BY <3>1 DEF TypeInv, TypeOK
    <3>3. i >= 1
      BY <3>2
    <3> QED
      BY <2>1, <3>1, <3>3
  <2> QED
    BY <2>1, <2>2, <2>3
<1>8. ASSUME NEW d \in Conns, DeleteNext(d)
      PROVE  \E c \in Conns :
                /\ state'[c] = "update"
                /\ \E i \in deleted'[c] : i >= next'[c] /\ entries'[c][i] = m
  <2>1. /\ asked' = asked /\ state' = state /\ deleted' = deleted /\ entries' = entries
        /\ next'[d] = next[d] + 1
        /\ \A c \in Conns : c # d => next'[c] = next[c]
    BY <1>8 DEF DeleteNext, TypeInv, TypeOK
  <2>2. next[d] \in deleted[d] => entries[d][next[d]] # m
    BY <1>8, DeleteNextFacts DEF ViewInv
  <2>3. PICK c \in Conns : Doing(c)
    BY <1>2, <2>1
  <2>4. CASE c # d
    BY <2>1, <2>3, <2>4
  <2>5. CASE c = d
    <3>1. PICK i \in deleted[d] : i >= next[d] /\ entries[d][i] = m
      BY <2>3, <2>5
    <3>2. i # next[d] /\ i \in Nat /\ next[d] \in Nat
      BY <2>2, <3>1 DEF TypeInv, TypeOK
    <3>3. i >= next[d] + 1
      BY <3>1, <3>2
    <3> QED
      BY <2>1, <2>3, <2>5, <3>1, <3>3
  <2> QED
    BY <2>4, <2>5
<1> HIDE DEF Doing, Stays
<1> QED
  BY <1>3, <1>4, <1>5, <1>6, <1>7, <1>8

QuitInv == TypeInv /\ OneSessionPerMailbox /\ AskInv /\ ViewInv

LEMMA QuitInvNext == QuitInv /\ [Next]_vars => QuitInv'
BY TypeNext, LockNext, AskNext, ViewInvNext DEF QuitInv

LEMMA QuitInit == Init => QuitInv /\ ExclusiveView /\ QuitDeletes
<1>1. Init => ExclusiveView /\ QuitDeletes
  BY DEF Init, ExclusiveView, QuitDeletes
<1> QED
  BY <1>1, TypeInit, LockInit, AskInit, ViewInit DEF QuitInv

\* With ExclusiveLock an open session never shows what the QUIT of another one
\* removed, however many deletions that one still has to do.
THEOREM ViewsExclusive == Spec => []ExclusiveView
<1>1. Init => QuitInv /\ ExclusiveView
  BY QuitInit
<1>2. QuitInv /\ ExclusiveView /\ [Next]_vars => (QuitInv /\ ExclusiveView)'
  BY QuitInvNext, ExclusiveViewNext DEF QuitInv
<1> QED
  BY <1>1, <1>2, PTL DEF Spec

\* What a client asked to delete by QUIT is gone, or still about to be deleted.
THEOREM QuitKeepsItsWord == Spec => []QuitDeletes
<1>1. Init => QuitInv /\ QuitDeletes
  BY QuitInit
<1>2. QuitInv /\ QuitDeletes /\ [Next]_vars => (QuitInv /\ QuitDeletes)'
  BY QuitInvNext, QuitDeletesNext DEF QuitInv
<1> QED
  BY <1>1, <1>2, PTL DEF Spec
-----------------------------------------------------------------------------
(* Progress: what LockIsReleased and QuitEnds rest on                      *)

\* Store.Delete finds what it is called for: what QUIT deletes next is in the
\* queue of the mailbox that Home names.
Found(c) ==
    LET m == entries[c][next[c]]
    IN  next[c] \in deleted[c] /\ m \in Store!Shown =>
            \E i \in DOMAIN queue[Home[m]] : queue[Home[m]][i] = m

\* The rounds of its loop that QUIT has before it, and the end.
Rounds(c) == Len(entries[c]) + 1 - next[c]
Update(c) ==
    state[c] = "update" =>
        /\ next[c] \in 1..(Len(entries[c]) + 1)
        /\ InView(c) => Found(c)
QuitStep(c) ==
    state[c] = "update" =>
        \/ state'[c] = "off" /\ Rounds(c) = 0
        \/ /\ state'[c] = "update"
           /\ entries'[c] = entries[c] /\ deleted'[c] = deleted[c]
           /\ Rounds(c)' = IF DeleteNext(c) THEN Rounds(c) - 1 ELSE Rounds(c)

\* A session whose client does not talk any more, but whose mailbox is locked,
\* and how far it is from its end.
Stranded(c) == locked[c] /\ client[c] # "talks"
Distance(c) ==
    CASE state[c] = "opening"     -> 2
      [] state[c] = "transaction" -> 1
      [] state[c] = "update"      -> 1 + Rounds(c)
Stranding(c) ==
    Stranded(c) =>
        /\ state[c] \in Working /\ Update(c)
        /\ Distance(c) \in Nat \ {0}
ReleaseStep(c) ==
    Stranded(c) =>
        \/ locked'[c] = FALSE /\ mailbox[c] \notin locks'
        \/ /\ Stranded(c)' /\ mailbox'[c] = mailbox[c]
           /\ ~Drop(c)
           /\ Distance(c)' = IF Work(c) THEN Distance(c) - 1 ELSE Distance(c)

\* What a session is about is not changed by another one, nor by the store.
Same(c) ==
    /\ state'[c] = state[c] /\ entries'[c] = entries[c] /\ next'[c] = next[c]
    /\ deleted'[c] = deleted[c] /\ locked'[c] = locked[c] /\ mailbox'[c] = mailbox[c]
    /\ client[c] # "talks" => client'[c] = client[c]

\* A session in the update state goes on to its end, and so does one whose
\* client does not talk: no command and no other session can hold it up.
LEMMA SessionStep ==
    ASSUME TypeInv, [Next]_vars, NEW c \in Conns, locked[c],
           state[c] = "update" \/ client[c] # "talks"
    PROVE  Same(c) \/ Open(c) \/ DeleteNext(c) \/ Ended(c)
<1> USE DEF TypeInv, TypeOK, Same
<1>0. state[c] \in Working
  BY DEF SessionOK
<1>1. ASSUME NEW d \in Conns, Connect(d) \/ Handshake(d) \/ Leave(d)
      PROVE  Same(c)
  BY <1>0, <1>1 DEF Connect, Handshake, Leave, server, Working
<1>2. ASSUME NEW d \in Conns, d # c, Ended(d) PROVE Same(c)
  BY <1>2 DEF Ended, End
<1>3. ASSUME NEW d \in Conns, Stls(d) \/ User(d) \/ PassRejected(d)
      PROVE  Same(c)
  BY <1>3 DEF Stls, User, PassRejected
<1>4. ASSUME NEW d \in Conns, Pass(d) PROVE Same(c)
  BY <1>0, <1>4 DEF Pass, Working
<1>5. ASSUME NEW d \in Conns, Dele(d) \/ Rset(d) \/ Quit(d) PROVE Same(c)
  BY <1>5 DEF Dele, Rset, Quit, Talks, Reads
<1>6. ASSUME NEW d \in Conns, d # c, Open(d) \/ DeleteNext(d) PROVE Same(c)
  BY <1>6 DEF Open, DeleteNext
<1>7. CASE TakenAway \/ \E m \in Ids : Arrive(m)
  BY <1>7 DEF TakenAway, Arrive, server
<1>8. CASE UNCHANGED vars
  BY <1>8 DEF vars, server
<1> HIDE DEF TypeInv, TypeOK, Same
<1>9. ASSUME NEW d \in Conns, Command(d) PROVE Same(c) \/ Ended(c)
  BY <1>2, <1>3, <1>4, <1>5, <1>9, Endings DEF Command
<1>10. ASSUME NEW d \in Conns, Work(d)
       PROVE  Same(c) \/ Open(c) \/ DeleteNext(c) \/ Ended(c)
  BY <1>2, <1>6, <1>10, Endings DEF Work
<1> QED
  BY <1>1, <1>2, <1>7, <1>8, <1>9, <1>10, Endings DEF Next

\* The update state is entered by QUIT alone.
LEMMA EnterUpdate ==
    ASSUME TypeInv, [Next]_vars, NEW c \in Conns, state[c] # "update", state'[c] = "update"
    PROVE  Quit(c)
<1> USE DEF TypeInv, TypeOK
<1>1. ASSUME NEW d \in Conns, Connect(d) \/ Handshake(d) \/ Leave(d)
      PROVE  FALSE
  BY <1>1 DEF Connect, Handshake, Leave, server
<1>2. ASSUME NEW d \in Conns, Ended(d) PROVE FALSE
  BY <1>2 DEF Ended, End
<1>3. ASSUME NEW d \in Conns, Stls(d) \/ User(d) \/ PassRejected(d) \/ Dele(d) \/ Rset(d)
      PROVE  FALSE
  BY <1>3 DEF Stls, User, PassRejected, Dele, Rset
<1>4. ASSUME NEW d \in Conns, Pass(d) PROVE FALSE
  BY <1>4 DEF Pass
<1>5. ASSUME NEW d \in Conns, Quit(d) PROVE Quit(c)
  BY <1>5 DEF Quit
<1>6. ASSUME NEW d \in Conns, Open(d) \/ DeleteNext(d) PROVE FALSE
  BY <1>6 DEF Open, DeleteNext
<1>7. CASE TakenAway \/ \E m \in Ids : Arrive(m)
  BY <1>7 DEF TakenAway, Arrive, server
<1>8. CASE UNCHANGED vars
  BY <1>8 DEF vars, server
<1> HIDE DEF TypeInv, TypeOK
<1>9. ASSUME NEW d \in Conns, Command(d) PROVE Quit(c)
  BY <1>2, <1>3, <1>4, <1>5, <1>9, Endings DEF Command
<1>10. ASSUME NEW d \in Conns, Work(d) PROVE FALSE
  BY <1>2, <1>6, <1>10, Endings DEF Work
<1> QED
  BY <1>1, <1>2, <1>7, <1>8, <1>9, <1>10, Endings DEF Next

\* What the distances rest on: QUIT goes through its view position by position,
\* and without the option no mailbox is ever locked.
Reach ==
    /\ \A c \in Conns : state[c] = "update" => next[c] \in 1..(Len(entries[c]) + 1)
    /\ ~ExclusiveLock => locks = {}

LEMMA ReachNext ==
    ASSUME TypeInv, Reach, [Next]_vars
    PROVE  Reach'
<1>1. ASSUME NEW c \in Conns, state'[c] = "update"
      PROVE  next'[c] \in 1..(Len(entries'[c]) + 1)
  <2>1. Len(entries[c]) \in Nat /\ next[c] \in Nat /\ next \in [Conns -> Nat]
        /\ state \in [Conns -> States]
    BY DEF TypeInv, TypeOK
  <2>2. CASE state[c] = "update"
    <3>1. locked[c]
      BY <2>2 DEF TypeInv, SessionOK, Working
    <3>2. Same(c) \/ Open(c) \/ DeleteNext(c) \/ Ended(c)
      BY <2>2, <3>1, SessionStep
    <3>3. CASE Same(c)
      BY <2>2, <3>3 DEF Same, Reach
    <3>4. CASE Open(c)
      BY <2>2, <3>4 DEF Open
    <3>5. CASE DeleteNext(c)
      BY <2>1, <2>2, <3>5 DEF DeleteNext, InView, Reach
    <3>6. CASE Ended(c)
      BY <1>1, <2>1, <3>6 DEF Ended, End
    <3> QED
      BY <3>2, <3>3, <3>4, <3>5, <3>6
  <2>3. CASE state[c] # "update"
    <3>1. Quit(c)
      BY <1>1, <2>3, EnterUpdate
    <3> QED
      BY <2>1, <3>1 DEF Quit
  <2> QED
    BY <2>2, <2>3
<1>2. ASSUME ~ExclusiveLock PROVE locks' = {}
  <2>1. locks = {}
    BY <1>2 DEF Reach
  <2>2. CASE \A c \in Conns : ~Pass(c) /\ ~Ended(c)
    BY <2>1, <2>2, LockFrame
  <2>3. ASSUME NEW c \in Conns, Pass(c) \/ Ended(c) PROVE locks' = {}
    BY <1>2, <2>1, <2>3 DEF Pass, Ended, End, Release
  <2> QED
    BY <2>2, <2>3
<1> QED
  BY <1>1, <1>2 DEF Reach

\* A message that is shown is in the queue of its own mailbox.
LEMMA FoundThere ==
    ASSUME TypeInv, QueuesOK, NEW c \in Conns
    PROVE  Found(c)
<1> DEFINE m == entries[c][next[c]]
<1> SUFFICES ASSUME m \in Store!Shown
             PROVE  \E i \in DOMAIN queue[Home[m]] : queue[Home[m]][i] = m
  BY DEF Found
<1>1. PICK mb \in Mailboxes : m \in ToSet(queue[mb])
  BY ShownMember
<1>2. Home[m] = mb
  BY <1>1 DEF QueuesOK
<1> QED
  BY <1>1, <1>2 DEF ToSet

\* A step of any action leaves a QUIT its way, or shortens it.
LEMMA QuitStepNext ==
    ASSUME TypeInv, Reach, [Next]_vars, NEW c \in Conns
    PROVE  QuitStep(c)
<1> SUFFICES ASSUME state[c] = "update" PROVE QuitStep(c)
  BY DEF QuitStep
<1>1. locked[c]
  BY DEF TypeInv, SessionOK, Working
<1>2. Same(c) \/ Open(c) \/ DeleteNext(c) \/ Ended(c)
  BY <1>1, SessionStep
<1>3. next[c] \in 1..(Len(entries[c]) + 1) /\ Len(entries[c]) \in Nat /\ c \in DOMAIN next
      /\ c \in DOMAIN state
  BY DEF Reach, TypeInv, TypeOK
<1>4. CASE DeleteNext(c)
  BY <1>3, <1>4 DEF DeleteNext, QuitStep, Rounds
<1>5. CASE Ended(c)
  BY <1>3, <1>5 DEF Ended, End, InView, QuitStep, Rounds
<1>6. CASE Same(c) /\ ~DeleteNext(c)
  BY <1>6 DEF Same, QuitStep, Rounds
<1> QED
  BY <1>2, <1>4, <1>5, <1>6 DEF Open

\* So it does with a session that has lost its client.
LEMMA ReleaseStepNext ==
    ASSUME TypeInv, Reach, [Next]_vars, NEW c \in Conns
    PROVE  ReleaseStep(c)
<1> SUFFICES ASSUME Stranded(c) PROVE ReleaseStep(c)
  BY DEF ReleaseStep
<1>1. locked[c] /\ client[c] # "talks" /\ state[c] \in Working
  BY DEF Stranded, TypeInv, SessionOK
<1>2. Same(c) \/ Open(c) \/ DeleteNext(c) \/ Ended(c)
  BY <1>1, SessionStep
<1>3. /\ next[c] \in Nat /\ Len(entries[c]) \in Nat /\ c \in DOMAIN next
      /\ c \in DOMAIN state /\ c \in DOMAIN locked /\ c \in DOMAIN client
      /\ state[c] = "update" => next[c] \in 1..(Len(entries[c]) + 1)
  BY DEF Reach, TypeInv, TypeOK
<1>4. CASE Ended(c)
  BY <1>1, <1>3, <1>4 DEF Ended, End, Release, Reach, ReleaseStep
<1>5. CASE DeleteNext(c)
  <2>1. Distance(c)' = Distance(c) - 1 /\ Stranded(c)' /\ mailbox'[c] = mailbox[c] /\ ~Drop(c)
    BY <1>1, <1>3, <1>5 DEF DeleteNext, Stranded, Distance, Rounds, Drop, Reads
  <2> QED
    BY <1>5, <2>1 DEF ReleaseStep, Work
<1>6. CASE Open(c)
  <2>1. Distance(c)' = Distance(c) - 1 /\ Stranded(c)' /\ mailbox'[c] = mailbox[c] /\ ~Drop(c)
    BY <1>1, <1>3, <1>6 DEF Open, Stranded, Distance, Drop, Reads
  <2> QED
    BY <1>6, <2>1 DEF ReleaseStep, Work
<1>7. CASE Same(c) /\ ~Open(c) /\ ~DeleteNext(c) /\ ~Ended(c)
  <2>1. Distance(c)' = Distance(c) /\ Stranded(c)' /\ mailbox'[c] = mailbox[c]
    BY <1>1, <1>7 DEF Same, Stranded, Distance, Rounds
  <2>2. ~Drop(c) /\ ~Work(c)
    BY <1>7, Endings DEF Work
  <2> QED
    BY <2>1, <2>2 DEF ReleaseStep
<1> QED
  BY <1>2, <1>4, <1>5, <1>6, <1>7

\* Such a session, and a QUIT, always have a step to take.
LEMMA StrandingHolds ==
    ASSUME TypeInv, QueuesOK, Reach, NEW c \in Conns
    PROVE  Update(c) /\ Stranding(c)
<1>1. Update(c)
  BY FoundThere DEF Reach, Update
<1>2. Len(entries[c]) \in Nat /\ next[c] \in Nat
  BY DEF TypeInv, TypeOK
<1>3. ASSUME Stranded(c) PROVE state[c] \in Working /\ Distance(c) \in Nat \ {0}
  <2>1. state[c] \in Working
    BY <1>3 DEF Stranded, TypeInv, SessionOK
  <2> QED
    BY <1>1, <1>2, <2>1 DEF Update, Distance, Rounds, Working
<1> QED
  BY <1>1, <1>3 DEF Stranding

ProgressInv == QuitInv /\ Reach

LEMMA ProgressInit == Init => ProgressInv
<1>1. Init => Reach
  BY DEF Init, Reach
<1> QED
  BY <1>1, QuitInit DEF ProgressInv

LEMMA ProgressNext == ProgressInv /\ [Next]_vars => ProgressInv'
BY QuitInvNext, ReachNext DEF ProgressInv, QuitInv

\* The promises of QUIT ...
QuitNeverStuck == \A c \in Conns : Update(c)
QuitGoesOn == [][\A c \in Conns : QuitStep(c)]_vars

\* ... and of a session that has lost its client.
ReleaseNeverStuck == \A c \in Conns : Stranding(c)
ReleaseGoesOn == [][\A c \in Conns : ReleaseStep(c)]_vars

\* A QUIT, once begun, goes through all of its view, message by message: there
\* is always a next step that its goroutine can take, nothing but the end of
\* the loop ends it, and nobody, not its own client either, can turn it back.
THEOREM QuitComesNearer == Spec => []QuitNeverStuck /\ QuitGoesOn
<1>1. Init => ProgressInv
  BY ProgressInit
<1>2. ProgressInv /\ [Next]_vars => ProgressInv'
  BY ProgressNext
<1>3. ProgressInv => QuitNeverStuck
  BY StrandingHolds DEF ProgressInv, QuitInv, ViewInv, QuitNeverStuck
<1>4. ProgressInv /\ [Next]_vars => [\A c \in Conns : QuitStep(c)]_vars
  BY QuitStepNext DEF ProgressInv, QuitInv
<1> QED
  BY <1>1, <1>2, <1>3, <1>4, PTL DEF Spec, QuitGoesOn

\* A session that holds a lock and has lost its client comes nearer to its end
\* with each step of its own, always has one to take, and loses no ground by
\* those of others; when it ends, its mailbox is free.
THEOREM ReleaseComesNearer == Spec => []ReleaseNeverStuck /\ ReleaseGoesOn
<1>1. Init => ProgressInv
  BY ProgressInit
<1>2. ProgressInv /\ [Next]_vars => ProgressInv'
  BY ProgressNext
<1>3. ProgressInv => ReleaseNeverStuck
  BY StrandingHolds DEF ProgressInv, QuitInv, ViewInv, ReleaseNeverStuck
<1>4. ProgressInv /\ [Next]_vars => [\A c \in Conns : ReleaseStep(c)]_vars
  BY ReleaseStepNext DEF ProgressInv, QuitInv
<1> QED
  BY <1>1, <1>2, <1>3, <1>4, PTL DEF Spec, ReleaseGoesOn
=============================================================================
