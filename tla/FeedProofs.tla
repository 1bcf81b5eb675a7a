----------------------------- MODULE FeedProofs -----------------------------
(***************************************************************************)
(* Theorems about Feed, for any mailboxes, any size of the channel, and    *)
(* any number of changes, events and requests under way: the page ends up  *)
(* showing what it was told of, and is told of all that was not dropped    *)
(* with nothing behind it.                                                 *)
(***************************************************************************)
EXTENDS Feed, SequenceTheorems, TLAPS

AllLoads == [mailbox : Mailboxes, version : Versions \cup {Unanswered}, late : BOOLEAN]
AllLooks == [seen : [Mailboxes -> Versions] \cup {Unseen}, late : BOOLEAN]

LEMMA LateLoad ==
    ASSUME NEW r \in AllLoads
    PROVE  [r EXCEPT !.late = TRUE] \in AllLoads /\ [r EXCEPT !.late = TRUE].late
BY DEF AllLoads

LEMMA LateLook ==
    ASSUME NEW r \in AllLooks
    PROVE  [r EXCEPT !.late = TRUE] \in AllLooks /\ [r EXCEPT !.late = TRUE].late
BY DEF AllLooks

\* Requests become late from the front.
LateFirst(s) == \A i, j \in 1..Len(s) : i < j /\ s[j].late => s[i].late

\* The last request that was sent is still the one that counts.
Current(s) == s # <<>> /\ ~s[Len(s)].late

\* When the i-th request is done, the last one stays as it is, unless it was
\* the i-th, and then all that are left are late.
LEMMA DoneRequests ==
    ASSUME NEW S, NEW s \in Seq(S), NEW i \in 1..Len(s), LateFirst(s),
           \A r \in S : [r EXCEPT !.late = TRUE] \in S /\ [r EXCEPT !.late = TRUE].late
    PROVE  /\ Done(s, i) \in Seq(S) /\ Len(Done(s, i)) = Len(s) - 1
           /\ LateFirst(Done(s, i))
           /\ i = Len(s) => ~Current(Done(s, i))
           /\ i < Len(s) => /\ Done(s, i) # <<>>
                            /\ Done(s, i)[Len(Done(s, i))] = s[Len(s)]
<1> DEFINE d == Done(s, i)
           n == Len(s)
<1>1. n \in Nat /\ n >= 1 /\ i \in 1..n /\ \A j \in 1..n : s[j] \in S
  BY LenProperties, ElementOfSeq
<1>2. d = [j \in 1..(n - 1) |-> IF j < i THEN [s[j] EXCEPT !.late = TRUE] ELSE s[j + 1]]
  BY DEF Done
<1>3. \A j \in 1..(n - 1) :
        d[j] \in S /\ (j < i => d[j].late) /\ (j >= i => d[j] = s[j + 1])
  <2> SUFFICES ASSUME NEW j \in 1..(n - 1)
               PROVE  d[j] \in S /\ (j < i => d[j].late) /\ (j >= i => d[j] = s[j + 1])
    OBVIOUS
  <2>1. j \in 1..n /\ j + 1 \in 1..n /\ s[j] \in S /\ s[j + 1] \in S
    BY <1>1
  <2>2. d[j] = IF j < i THEN [s[j] EXCEPT !.late = TRUE] ELSE s[j + 1]
    BY <1>2
  <2>3. [s[j] EXCEPT !.late = TRUE] \in S /\ [s[j] EXCEPT !.late = TRUE].late
    BY <2>1
  <2> HIDE DEF d, n
  <2> QED
    BY <1>1, <2>1, <2>2, <2>3
<1> HIDE DEF d, n
<1>4. d \in [1..(n - 1) -> S]
  <2>1. DOMAIN d = 1..(n - 1) /\ d = [j \in 1..(n - 1) |-> d[j]]
    BY <1>2
  <2>2. \A j \in 1..(n - 1) : d[j] \in S
    BY <1>3
  <2> QED
    BY <2>1, <2>2
<1>5. n - 1 \in Nat
  BY <1>1
<1>6. d \in Seq(S)
  BY <1>4, <1>5, SeqDef
<1>7. Len(d) = n - 1
  <2>1. Len(d) \in Nat /\ 1..Len(d) = 1..(n - 1)
    BY <1>4, <1>6, LenProperties
  <2> QED
    BY <1>5, <2>1
<1>8. LateFirst(d)
  <2> SUFFICES ASSUME NEW j \in 1..(n - 1), NEW k \in 1..(n - 1), j < k, d[k].late
               PROVE  d[j].late
    BY <1>7 DEF LateFirst
  <2>1. CASE j < i
    BY <1>1, <1>3, <2>1
  <2>2. CASE j >= i
    <3>1. d[k] = s[k + 1] /\ d[j] = s[j + 1]
      BY <1>1, <1>3, <2>2
    <3>2. j + 1 \in 1..n /\ k + 1 \in 1..n /\ j + 1 < k + 1 /\ s[k + 1].late
      BY <1>1, <3>1
    <3>3. s[j + 1].late
      BY <3>2 DEF LateFirst, n
    <3> QED
      BY <3>1, <3>3
  <2> QED
    BY <1>1, <2>1, <2>2
<1>9. ASSUME i = n PROVE ~Current(d)
  <2>1. CASE n = 1
    BY <1>6, <1>7, <2>1, EmptySeq DEF Current
  <2>2. CASE n > 1
    BY <1>1, <1>3, <1>7, <1>9, <2>2 DEF Current
  <2> QED
    BY <1>1, <2>1, <2>2
<1>10. ASSUME i < n PROVE d # <<>> /\ d[Len(d)] = s[n]
  <2>1. n - 1 \in 1..(n - 1) /\ n - 1 >= i
    BY <1>1, <1>10
  <2>2. d[n - 1] = s[n]
    BY <1>1, <1>3, <2>1
  <2> QED
    BY <1>6, <1>7, <2>1, <2>2, EmptySeq
<1> QED
  BY <1>6, <1>7, <1>8, <1>9, <1>10 DEF d, n

LEMMA AppendRequest ==
    ASSUME NEW S, NEW s \in Seq(S), NEW r \in S, LateFirst(s), ~r.late
    PROVE  /\ Append(s, r) \in Seq(S) /\ Append(s, r) # <<>>
           /\ Append(s, r)[Len(Append(s, r))] = r
           /\ LateFirst(Append(s, r)) /\ Current(Append(s, r))
<1>1. /\ Append(s, r) \in Seq(S) /\ Append(s, r) # <<>>
      /\ Len(Append(s, r)) = Len(s) + 1 /\ Len(s) \in Nat
      /\ \A i \in 1..Len(s) : Append(s, r)[i] = s[i]
      /\ Append(s, r)[Len(s) + 1] = r
  BY AppendProperties, LenProperties
<1>2. LateFirst(Append(s, r))
  BY <1>1 DEF LateFirst
<1> QED
  BY <1>1, <1>2 DEF Current

LEMMA LateRequests ==
    ASSUME NEW S, NEW s \in Seq(S),
           \A r \in S : [r EXCEPT !.late = TRUE] \in S /\ [r EXCEPT !.late = TRUE].late
    PROVE  Late(s) \in Seq(S) /\ LateFirst(Late(s)) /\ ~Current(Late(s))
<1> DEFINE d == Late(s)
           n == Len(s)
<1>1. n \in Nat /\ DOMAIN s = 1..n /\ \A j \in 1..n : s[j] \in S
  BY LenProperties, ElementOfSeq
<1>2. d = [j \in 1..n |-> [s[j] EXCEPT !.late = TRUE]]
  BY <1>1 DEF Late
<1> HIDE DEF d, n
<1>3. ASSUME NEW j \in 1..n PROVE d[j] \in S /\ d[j].late
  <2>1. d[j] = [s[j] EXCEPT !.late = TRUE]
    BY <1>2
  <2>2. s[j] \in S
    BY <1>1
  <2> QED
    BY <2>1, <2>2
<1>4. d \in [1..n -> S]
  BY <1>2, <1>3
<1>5. d \in Seq(S)
  BY <1>1, <1>4, SeqDef
<1>6. Len(d) = n
  <2>1. Len(d) \in Nat /\ 1..Len(d) = 1..n
    BY <1>4, <1>5, LenProperties
  <2> QED
    BY <1>1, <2>1
<1>7. LateFirst(d)
  BY <1>3, <1>6 DEF LateFirst
<1>8. ~Current(d)
  <2>1. CASE n = 0
    BY <1>5, <1>6, <2>1, EmptySeq DEF Current
  <2>2. CASE n > 0
    BY <1>1, <1>3, <1>6, <2>2 DEF Current
  <2> QED
    BY <1>1, <2>1, <2>2
<1> QED
  BY <1>5, <1>7, <1>8 DEF d
-----------------------------------------------------------------------------
(* The invariant                                                           *)

\* Nobody has heard of a change that was not made.
Told == \A mb \in Mailboxes : heard[mb] <= version[mb]

\* What the page has not heard of, it will hear of, unless that is lost.
Announced == \A mb \in Mailboxes : mb \in lost \/ mb \in Waiting \/ heard[mb] = version[mb]

\* The answer to the last load that counts will show what was heard; if there
\* is none, the list shows it, or is known to be behind.
ListInv ==
    /\ LateFirst(loads)
    /\ Current(loads) =>
        /\ loads[Len(loads)].mailbox = here
        /\ \/ loads[Len(loads)].version = Unanswered
           \/ loads[Len(loads)].version >= heard[here]
    /\ ~Current(loads) /\ "list" \notin behind =>
        list.mailbox = here /\ list.version >= heard[here]

\* The same of the sidebar, when no load is under way: a load that ends asks
\* for the sidebar, or fails and leaves it behind.
SidebarInv ==
    /\ LateFirst(looks)
    /\ loads = <<>> /\ Current(looks) =>
        \/ looks[Len(looks)].seen = Unseen
        \/ \A mb \in Mailboxes : looks[Len(looks)].seen[mb] >= heard[mb]
    /\ loads = <<>> /\ ~Current(looks) /\ "sidebar" \notin behind =>
        \A mb \in Mailboxes : sidebar[mb] >= heard[mb]

Inv == TypeOK /\ Told /\ Announced /\ ListInv /\ SidebarInv

\* The types of single variables, in the words used here.
LEMMA Types ==
    ASSUME TypeOK
    PROVE  /\ loads \in Seq(AllLoads) /\ looks \in Seq(AllLooks)
           /\ channel \in Seq(Events) /\ wire \in Seq(Events)
           /\ version \in [Mailboxes -> Nat] /\ heard \in [Mailboxes -> Nat]
           /\ DOMAIN loads = 1..Len(loads) /\ DOMAIN looks = 1..Len(looks)
           /\ \A i \in 1..Len(loads) : loads[i] \in AllLoads
           /\ \A i \in 1..Len(looks) : looks[i] \in AllLooks
           /\ \A mb \in Mailboxes : Load(mb) \in AllLoads /\ ~Load(mb).late
           /\ Look \in AllLooks /\ ~Look.late
<1>1. loads \in Seq(AllLoads) /\ looks \in Seq(AllLooks)
  BY DEF TypeOK, AllLoads, AllLooks
<1>2. /\ DOMAIN loads = 1..Len(loads) /\ DOMAIN looks = 1..Len(looks)
      /\ \A i \in 1..Len(loads) : loads[i] \in AllLoads
      /\ \A i \in 1..Len(looks) : looks[i] \in AllLooks
  BY <1>1, LenProperties, ElementOfSeq
<1>3. \A mb \in Mailboxes : Load(mb) \in AllLoads /\ ~Load(mb).late
  BY DEF Load, AllLoads
<1>4. Look \in AllLooks /\ ~Look.late
  BY DEF Look, AllLooks
<1> QED
  BY <1>1, <1>2, <1>3, <1>4 DEF TypeOK, Versions

LEMMA InvInit == Init => Inv
<1> SUFFICES ASSUME Init PROVE Inv
  OBVIOUS
<1> DEFINE r == Load(here)
<1>1. here \in Mailboxes /\ r \in AllLoads /\ r.mailbox = here /\ r.version = Unanswered
      /\ ~r.late
  BY DEF Init, Load, AllLoads
<1>2. loads = <<r>> /\ loads \in Seq(AllLoads) /\ Len(loads) = 1 /\ loads[1] = r
      /\ loads # <<>>
  BY <1>1 DEF Init
<1>3. /\ channel = <<>> /\ wire = <<>> /\ looks = <<>> /\ pending = {} /\ behind = {}
      /\ lost = {} /\ \A mb \in Mailboxes : version[mb] = 0 /\ heard[mb] = 0
  BY DEF Init
<1> HIDE DEF r
<1>4. TypeOK
  <2>1. list \in [mailbox : Mailboxes, version : Versions \cup {Unanswered}]
    BY <1>1 DEF Init
  <2>2. /\ version \in [Mailboxes -> Versions] /\ heard \in [Mailboxes -> Versions]
        /\ sidebar \in [Mailboxes -> Versions] /\ stream = "closed"
    BY DEF Init, Versions
  <2>3. Len(channel) <= Capacity
    BY <1>3, FeedAssumption
  <2> QED
    BY <1>1, <1>2, <1>3, <2>1, <2>2, <2>3 DEF TypeOK, AllLoads
<1>5. Told /\ Announced
  BY <1>3 DEF Told, Announced
<1>6. ListInv
  BY <1>1, <1>2 DEF ListInv, LateFirst, Current
<1>7. SidebarInv
  BY <1>2, <1>3 DEF SidebarInv, LateFirst, Current
<1> QED
  BY <1>4, <1>5, <1>6, <1>7 DEF Inv
-----------------------------------------------------------------------------
(* The store and the stream                                                *)

\* Nothing that the page knows has changed.
LEMMA PageSame ==
    ASSUME Inv, UNCHANGED <<page, heard, behind>>
    PROVE  ListInv' /\ SidebarInv'
BY DEF Inv, page, ListInv, SidebarInv, LateFirst, Current

LEMMA ChangeStep ==
    ASSUME Inv, NEW mb \in Mailboxes, Change(mb)
    PROVE  Inv'
<1> USE DEF Inv, server, page, ghosts
<1>1. /\ version' = [version EXCEPT ![mb] = @ + 1]
      /\ UNCHANGED <<server, page, heard, behind>> /\ lost' \subseteq Mailboxes
  BY DEF Change, TypeOK
<1>2. version \in [Mailboxes -> Nat] /\ version' \in [Mailboxes -> Nat]
      /\ \A b \in Mailboxes : version[b] <= version'[b]
  <2>1. version \in [Mailboxes -> Nat]
    BY Types
  <2> HIDE DEF Inv
  <2>2. \A b \in Mailboxes : version'[b] = IF b = mb THEN version[b] + 1 ELSE version[b]
    BY <1>1, <2>1
  <2>3. DOMAIN version' = Mailboxes /\ version' = [b \in Mailboxes |-> version'[b]]
    BY <1>1, <2>1
  <2> QED
    BY <2>1, <2>2, <2>3
<1> DEFINE Announcing == {e \in Events : e.mailbox = mb /\ e.version = version'[mb]}
<1>3. PICK new \in SUBSET Announcing : pending' = pending \cup new
  <2>1. CASE pending' = pending
    <3>1. {} \in SUBSET Announcing /\ pending' = pending \cup {}
      BY <2>1
    <3> QED
      BY <3>1
  <2>2. ASSUME NEW cleared \in BOOLEAN,
               pending' = pending \cup {[mailbox |-> mb, cleared |-> cleared,
                                         version |-> version'[mb]]}
        PROVE  \E new \in SUBSET Announcing : pending' = pending \cup new
    <3> DEFINE e == [mailbox |-> mb, cleared |-> cleared, version |-> version'[mb]]
    <3>1. e \in Announcing
      BY <1>2 DEF Events, Versions
    <3>2. {e} \in SUBSET Announcing /\ pending' = pending \cup {e}
      BY <2>2, <3>1
    <3> QED
      BY <3>2
  <2>3. \/ pending' = pending
        \/ \E cleared \in BOOLEAN :
            pending' = pending \cup {[mailbox |-> mb, cleared |-> cleared,
                                      version |-> version'[mb]]}
    BY DEF Change
  <2> HIDE DEF Announcing
  <2> QED
    BY <2>1, <2>2, <2>3
<1>4. \A e \in new : e \in Events /\ e.version <= version'[e.mailbox]
  BY <1>2, <1>3
<1>5. TypeOK'
  BY <1>1, <1>2, <1>3, <1>4 DEF TypeOK, Versions
<1>6. Told'
  BY <1>1, <1>2, Types DEF Told
<1>7. Announced'
  <2>1. \A b \in Mailboxes \ {mb} : version'[b] = version[b]
    BY <1>1, <1>2
  <2>2. Waiting \subseteq Waiting'
    BY <1>1, <1>3 DEF Waiting
  <2>3. ASSUME NEW cleared \in BOOLEAN,
               pending' = pending \cup {[mailbox |-> mb, cleared |-> cleared,
                                         version |-> version'[mb]]},
               lost' = lost \ {mb}
        PROVE  Announced'
    <3> DEFINE e == [mailbox |-> mb, cleared |-> cleared, version |-> version'[mb]]
    <3>1. e.mailbox = mb /\ e \in pending' \cup Range(channel') \cup Range(wire')
      BY <2>3
    <3> HIDE DEF e
    <3>2. mb \in Waiting'
      BY <3>1 DEF Waiting
    <3> QED
      BY <1>1, <2>1, <2>2, <2>3, <3>2 DEF Announced
  <2>4. ASSUME UNCHANGED pending, lost' = lost \cup ({mb} \ Waiting)
        PROVE  Announced'
    BY <1>1, <2>1, <2>2, <2>4 DEF Announced
  <2> QED
    BY <2>3, <2>4 DEF Change
<1> QED
  BY <1>1, <1>5, <1>6, <1>7, PageSame

LEMMA SequenceRange ==
    ASSUME NEW S, NEW s \in Seq(S), NEW x \in S
    PROVE  /\ Range(Append(s, x)) = Range(s) \cup {x}
           /\ s # <<>> => Range(s) = {Head(s)} \cup Range(Tail(s))
<1>1. Range(Append(s, x)) = Range(s) \cup {x}
  <2>1. /\ Append(s, x) \in Seq(S) /\ Len(Append(s, x)) = Len(s) + 1 /\ Len(s) \in Nat
        /\ \A i \in 1..Len(s) : Append(s, x)[i] = s[i]
        /\ Append(s, x)[Len(s) + 1] = x
    BY AppendProperties, LenProperties
  <2>2. /\ Range(Append(s, x)) = {Append(s, x)[i] : i \in 1..(Len(s) + 1)}
        /\ Range(s) = {s[i] : i \in 1..Len(s)}
    BY <2>1, RangeEquality
  <2>3. \A i \in 1..(Len(s) + 1) : i \in 1..Len(s) \/ i = Len(s) + 1
    BY <2>1
  <2> QED
    BY <2>1, <2>2, <2>3
<1>2. ASSUME s # <<>> PROVE Range(s) = {Head(s)} \cup Range(Tail(s))
  <2>1. /\ Len(s) \in Nat \ {0} /\ Head(s) = s[1] /\ Tail(s) \in Seq(S)
        /\ Len(Tail(s)) = Len(s) - 1
        /\ \A i \in 1..(Len(s) - 1) : Tail(s)[i] = s[i + 1]
    <3>1. Len(s) \in Nat \ {0}
      BY <1>2, EmptySeq
    <3> QED
      BY <1>2, <3>1, HeadTailProperties
  <2>2. /\ Range(s) = {s[i] : i \in 1..Len(s)}
        /\ Range(Tail(s)) = {Tail(s)[i] : i \in 1..(Len(s) - 1)}
    BY <2>1, RangeEquality
  <2>3. \A i \in 1..Len(s) : i = 1 \/ \E j \in 1..(Len(s) - 1) : i = j + 1
    <3> SUFFICES ASSUME NEW i \in 1..Len(s), i # 1
                 PROVE  \E j \in 1..(Len(s) - 1) : i = j + 1
      OBVIOUS
    <3>1. i - 1 \in 1..(Len(s) - 1) /\ i = (i - 1) + 1
      BY <2>1
    <3> QED
      BY <3>1
  <2>4. \A j \in 1..(Len(s) - 1) : j + 1 \in 1..Len(s)
    BY <2>1
  <2>5. \A i \in 1..Len(s) : s[i] \in {Head(s)} \cup Range(Tail(s))
    <3> SUFFICES ASSUME NEW i \in 1..Len(s), i # 1
                 PROVE  s[i] \in Range(Tail(s))
      BY <2>1
    <3>1. PICK j \in 1..(Len(s) - 1) : i = j + 1
      BY <2>3
    <3>2. s[i] = Tail(s)[j]
      BY <2>1, <3>1
    <3> QED
      BY <2>2, <3>2
  <2>6. s[1] \in Range(s) /\ \A j \in 1..(Len(s) - 1) : Tail(s)[j] \in Range(s)
    <3>1. 1 \in 1..Len(s)
      BY <2>1
    <3>2. \A j \in 1..(Len(s) - 1) : Tail(s)[j] = s[j + 1]
      BY <2>1
    <3> QED
      BY <2>2, <2>4, <3>1, <3>2
  <2> QED
    BY <2>1, <2>2, <2>5, <2>6
<1> QED
  BY <1>1, <1>2

LEMMA PublishStep ==
    ASSUME Inv, NEW e \in pending, Publish(e)
    PROVE  Inv'
<1> USE DEF Inv
<1>1. ListInv' /\ SidebarInv'
  BY PageSame DEF Publish
<1>2. /\ e \in Events /\ channel \in Seq(Events) /\ Capacity \in Nat
      /\ UNCHANGED <<version, stream, wire, page, heard, behind>>
      /\ pending' = pending \ {e}
  BY FeedAssumption DEF Publish, TypeOK
<1>3. Told'
  BY <1>2 DEF Told
<1>4. CASE channel' = channel /\ lost' = lost \cup ({e.mailbox} \ Waiting')
  <2>1. TypeOK'
    BY <1>2, <1>4 DEF TypeOK, Events, page
  <2>2. Waiting \subseteq Waiting' \cup {e.mailbox}
    BY <1>2, <1>4 DEF Waiting
  <2>3. Announced'
    BY <1>2, <1>4, <2>2 DEF Announced
  <2> QED
    BY <1>1, <1>3, <2>1, <2>3
<1>5. CASE /\ stream = "subscribed" /\ Len(channel) < Capacity
           /\ channel' = Append(channel, e) /\ lost' = lost
  <2>1. channel' \in Seq(Events) /\ Len(channel') = Len(channel) + 1 /\ Len(channel) \in Nat
    BY <1>2, <1>5, AppendProperties, LenProperties
  <2>2. TypeOK'
    BY <1>2, <1>5, <2>1 DEF TypeOK, page
  <2>3. Range(channel') = Range(channel) \cup {e}
    BY <1>2, <1>5, SequenceRange
  <2>4. Waiting \subseteq Waiting'
    BY <1>2, <2>3 DEF Waiting
  <2>5. Announced'
    BY <1>2, <1>5, <2>4 DEF Announced
  <2> QED
    BY <1>1, <1>3, <2>2, <2>5
<1> QED
  BY <1>4, <1>5 DEF Publish

LEMMA StreamStep ==
    ASSUME Inv, Open \/ Subscribe \/ Forward \/ Cut
    PROVE  Inv'
<1> USE DEF Inv, store, page, ghosts
<1>1. ListInv' /\ SidebarInv' /\ Told'
  BY PageSame DEF Open, Subscribe, Forward, Cut, Told
<1>2. CASE Open \/ Subscribe
  BY <1>1, <1>2 DEF Open, Subscribe, TypeOK, Announced, Waiting
<1>3. CASE Cut
  <2>1. <<>> \in Seq(Events) /\ Len(<<>>) = 0 /\ Capacity \in Nat
    BY EmptySeq, FeedAssumption
  <2>2. Waiting \subseteq Mailboxes
    <3>1. pending \cup Range(channel) \cup Range(wire) \subseteq Events
      BY RangeOfSeq DEF TypeOK
    <3> QED
      BY <3>1 DEF Waiting, Events
  <2>3. TypeOK'
    BY <1>3, <2>1, <2>2 DEF Cut, TypeOK
  <2>4. Announced'
    BY <1>3 DEF Cut, Announced
  <2> QED
    BY <1>1, <2>3, <2>4
<1>4. CASE Forward
  <2>1. channel \in Seq(Events) /\ wire \in Seq(Events) /\ channel # <<>>
    BY <1>4 DEF Forward, TypeOK
  <2>2. /\ Len(channel) \in Nat \ {0} /\ Head(channel) \in Events
        /\ channel' = Tail(channel) /\ Tail(channel) \in Seq(Events)
        /\ Len(Tail(channel)) = Len(channel) - 1
    <3>1. Len(channel) \in Nat \ {0}
      BY <2>1, EmptySeq
    <3> QED
      BY <1>4, <2>1, <3>1, HeadTailProperties DEF Forward
  <2>3. wire' = Append(wire, Head(channel)) /\ wire' \in Seq(Events)
    BY <1>4, <2>1, <2>2, AppendProperties DEF Forward
  <2>4. TypeOK'
    BY <1>4, <2>2, <2>3, FeedAssumption DEF Forward, TypeOK
  <2>5. Announced'
    <3>1. /\ Range(wire') = Range(wire) \cup {Head(channel)}
          /\ Range(channel) = {Head(channel)} \cup Range(channel')
      BY <2>1, <2>2, <2>3, SequenceRange
    <3>2. Waiting \subseteq Waiting'
      BY <1>4, <3>1 DEF Forward, Waiting
    <3> QED
      BY <1>4, <3>2 DEF Forward, Announced
  <2> QED
    BY <1>1, <2>4, <2>5
<1> QED
  BY <1>2, <1>3, <1>4
-----------------------------------------------------------------------------
(* The page                                                                *)

\* A page that asks for its list, or for the sidebar, waits for an answer that
\* counts.
LEMMA Asked ==
    ASSUME TypeOK, ListInv, SidebarInv
    PROVE  /\ \A mb \in Mailboxes : AskList(mb) =>
                /\ loads' \in Seq(AllLoads) /\ looks' = looks /\ LateFirst(loads')
                /\ loads' # <<>> /\ Current(loads')
                /\ loads'[Len(loads')].mailbox = mb
                /\ loads'[Len(loads')].version = Unanswered
           /\ AskSidebar =>
                /\ looks' \in Seq(AllLooks) /\ loads' = loads /\ LateFirst(looks')
                /\ Current(looks') /\ looks'[Len(looks')].seen = Unseen
<1>1. loads \in Seq(AllLoads) /\ looks \in Seq(AllLooks) /\ Look \in AllLooks
      /\ ~Look.late /\ \A mb \in Mailboxes : Load(mb) \in AllLoads /\ ~Load(mb).late
  BY Types
<1>2. LateFirst(loads) /\ LateFirst(looks)
  BY DEF ListInv, SidebarInv
<1>3. \A mb \in Mailboxes : Load(mb).mailbox = mb /\ Load(mb).version = Unanswered
  BY DEF Load
<1>4. Look.seen = Unseen
  BY DEF Look
<1>5. ASSUME NEW mb \in Mailboxes, AskList(mb)
      PROVE  /\ loads' \in Seq(AllLoads) /\ looks' = looks /\ LateFirst(loads')
             /\ loads' # <<>> /\ Current(loads')
             /\ loads'[Len(loads')].mailbox = mb
             /\ loads'[Len(loads')].version = Unanswered
  <2>1. loads' = Append(loads, Load(mb)) /\ looks' = looks
    BY <1>5 DEF AskList
  <2> QED
    BY <1>1, <1>2, <1>3, <2>1, AppendRequest
<1>6. ASSUME AskSidebar
      PROVE  /\ looks' \in Seq(AllLooks) /\ loads' = loads /\ LateFirst(looks')
             /\ Current(looks') /\ looks'[Len(looks')].seen = Unseen
  <2>1. looks' = Append(looks, Look) /\ loads' = loads
    BY <1>6 DEF AskSidebar
  <2> QED
    BY <1>1, <1>2, <1>4, <2>1, AppendRequest
<1> QED
  BY <1>5, <1>6

\* The types of what a step of the page changes.
LEMMA PageTypes ==
    ASSUME TypeOK, UNCHANGED <<store, server>>,
           here' \in Mailboxes, loads' \in Seq(AllLoads), looks' \in Seq(AllLooks),
           list' \in [mailbox : Mailboxes, version : Versions \cup {Unanswered}],
           sidebar' \in [Mailboxes -> Versions], heard' = heard,
           behind' \subseteq {"list", "sidebar"}, lost' = lost
    PROVE  TypeOK'
BY DEF TypeOK, store, server, AllLoads, AllLooks

LEMMA ToldSame ==
    ASSUME Told, Announced, UNCHANGED <<store, server, heard, lost>>
    PROVE  Told' /\ Announced'
BY DEF Told, Announced, Waiting, store, server

LEMMA HearStep ==
    ASSUME Inv, Hear
    PROVE  Inv'
<1> DEFINE e == Head(wire)
<1>1. /\ wire \in Seq(Events) /\ wire # <<>> /\ e \in Events
      /\ wire' = Tail(wire) /\ Tail(wire) \in Seq(Events)
  BY HeadTailProperties DEF Hear, Inv, TypeOK
<1>2. /\ e.mailbox \in Mailboxes /\ version \in [Mailboxes -> Nat]
      /\ heard \in [Mailboxes -> Nat]
  BY <1>1, Types DEF Inv, Events
<1>3. /\ IF e.mailbox = here \/ e.cleared THEN AskList(here) ELSE AskSidebar
      /\ heard' = [heard EXCEPT ![e.mailbox] = version[e.mailbox]]
      /\ UNCHANGED <<store, stream, channel, here, list, sidebar, behind, lost>>
  BY <1>1 DEF Hear
<1> HIDE DEF e
<1>5. /\ heard' \in [Mailboxes -> Nat]
      /\ \A mb \in Mailboxes : mb # e.mailbox => heard'[mb] = heard[mb]
      /\ heard'[e.mailbox] = version[e.mailbox]
  BY <1>2, <1>3
<1>6. here \in Mailboxes
  BY DEF Inv, TypeOK
<1>7. /\ AskList(here) =>
            /\ loads' \in Seq(AllLoads) /\ looks' = looks /\ LateFirst(loads')
            /\ loads' # <<>> /\ Current(loads')
            /\ loads'[Len(loads')].mailbox = here
            /\ loads'[Len(loads')].version = Unanswered
      /\ AskSidebar =>
            /\ looks' \in Seq(AllLooks) /\ loads' = loads /\ LateFirst(looks')
            /\ Current(looks') /\ looks'[Len(looks')].seen = Unseen
  BY <1>6, Asked DEF Inv
<1>8. TypeOK'
  <2>1. loads' \in Seq(AllLoads) /\ looks' \in Seq(AllLooks)
    BY <1>3, <1>7, Types DEF Inv
  <2> QED
    BY <1>1, <1>3, <1>5, <2>1 DEF Inv, TypeOK, store, AllLoads, AllLooks, Versions
<1>9. Told' /\ Announced'
  <2>1. \A mb \in Mailboxes : heard'[mb] <= version[mb]
    BY <1>2, <1>5 DEF Inv, Told
  <2>2. Range(wire) = {e} \cup Range(wire')
    BY <1>1, SequenceRange DEF e
  <2>3. Waiting \subseteq Waiting' \cup {e.mailbox}
    BY <1>3, <2>2 DEF Waiting, store
  <2> QED
    BY <1>3, <1>5, <2>1, <2>3 DEF Inv, Told, Announced, store
<1>10. ListInv'
  <2>1. CASE AskList(here)
    BY <1>3, <1>7, <2>1 DEF ListInv
  <2>2. CASE AskSidebar /\ e.mailbox # here
    <3>1. heard'[here] = heard[here] /\ loads' = loads
      BY <1>5, <1>6, <1>7, <2>2
    <3> QED
      BY <1>3, <3>1 DEF Inv, ListInv
  <2> QED
    BY <1>3, <2>1, <2>2
<1>11. SidebarInv'
  <2>1. CASE AskList(here)
    BY <1>7, <2>1 DEF Inv, SidebarInv
  <2>2. CASE AskSidebar
    BY <1>7, <2>2 DEF SidebarInv
  <2> QED
    BY <1>3, <2>1, <2>2
<1> QED
  BY <1>8, <1>9, <1>10, <1>11 DEF Inv

LEMMA SelectStep ==
    ASSUME Inv, NEW mb \in Mailboxes, Select(mb)
    PROVE  Inv'
<1>1. /\ here' = mb /\ AskList(mb)
      /\ UNCHANGED <<store, server, list, sidebar, heard, behind, lost>>
  BY DEF Select, ghosts
<1>2. /\ loads' \in Seq(AllLoads) /\ looks' = looks /\ LateFirst(loads')
      /\ loads' # <<>> /\ Current(loads')
      /\ loads'[Len(loads')].mailbox = mb
      /\ loads'[Len(loads')].version = Unanswered
  BY <1>1, Asked DEF Inv
<1>3. TypeOK'
  <2>1. looks \in Seq(AllLooks)
    BY Types DEF Inv
  <2> QED
    BY <1>1, <1>2, <2>1, PageTypes DEF Inv, TypeOK
<1>4. Told' /\ Announced'
  BY <1>1, ToldSame DEF Inv
<1>5. ListInv'
  BY <1>1, <1>2 DEF ListInv
<1>6. SidebarInv'
  BY <1>2 DEF Inv, SidebarInv
<1> QED
  BY <1>3, <1>4, <1>5, <1>6 DEF Inv

LEMMA AnswerListStep ==
    ASSUME Inv, NEW i \in DOMAIN loads, AnswerList(i)
    PROVE  Inv'
<1> DEFINE r == [loads[i] EXCEPT !.version = version[loads[i].mailbox]]
<1>1. /\ loads \in Seq(AllLoads) /\ i \in 1..Len(loads) /\ loads[i] \in AllLoads
      /\ version \in [Mailboxes -> Nat] /\ heard \in [Mailboxes -> Nat]
      /\ looks \in Seq(AllLooks)
  BY Types DEF Inv
<1>2. /\ r \in AllLoads /\ r.mailbox = loads[i].mailbox /\ r.late = loads[i].late
      /\ r.version = version[r.mailbox] /\ r.mailbox \in Mailboxes
  BY <1>1 DEF AllLoads, Versions
<1>3. /\ loads' = [loads EXCEPT ![i] = r]
      /\ UNCHANGED <<store, server, here, list, sidebar, looks, ghosts>>
  BY DEF AnswerList
<1> HIDE DEF r
<1>4. /\ loads' \in Seq(AllLoads) /\ Len(loads') = Len(loads)
      /\ \A j \in 1..Len(loads) : loads'[j] = IF j = i THEN r ELSE loads[j]
  BY <1>1, <1>2, <1>3, ExceptSeq
<1>5. TypeOK'
  BY <1>1, <1>3, <1>4, PageTypes DEF Inv, TypeOK, ghosts
<1>6. Told' /\ Announced'
  BY <1>3, ToldSame DEF Inv, ghosts
<1>7. \A j \in 1..Len(loads) : loads'[j].late = loads[j].late
  BY <1>2, <1>4
<1>8. (loads' = <<>> <=> loads = <<>>) /\ (Current(loads') <=> Current(loads))
  <2>1. loads # <<>> /\ loads' # <<>> /\ Len(loads) \in 1..Len(loads)
    BY <1>1, <1>4, LenProperties, EmptySeq
  <2> QED
    BY <1>4, <1>7, <2>1 DEF Current
<1>9. ListInv'
  <2>1. LateFirst(loads')
    BY <1>4, <1>7 DEF Inv, ListInv, LateFirst
  <2>2. ASSUME Current(loads)
        PROVE  /\ loads'[Len(loads')].mailbox = here
               /\ \/ loads'[Len(loads')].version = Unanswered
                  \/ loads'[Len(loads')].version >= heard[here]
    <3>1. CASE i = Len(loads)
      <4>1. loads'[Len(loads')] = r /\ r.mailbox = here
        BY <1>1, <1>2, <1>4, <2>2, <3>1 DEF Inv, ListInv
      <4>2. version[here] >= heard[here] /\ here \in Mailboxes
        BY <1>1 DEF Inv, Told, TypeOK
      <4> QED
        BY <1>2, <4>1, <4>2
    <3>2. CASE i # Len(loads)
      <4>1. loads'[Len(loads')] = loads[Len(loads)]
        BY <1>1, <1>4, <3>2
      <4> QED
        BY <2>2, <4>1 DEF Inv, ListInv
    <3> QED
      BY <3>1, <3>2
  <2> QED
    BY <1>3, <1>8, <2>1, <2>2 DEF Inv, ListInv, ghosts
<1>10. SidebarInv'
  BY <1>3, <1>8 DEF Inv, SidebarInv, ghosts
<1> QED
  BY <1>5, <1>6, <1>9, <1>10 DEF Inv

LEMMA AnswerSidebarStep ==
    ASSUME Inv, NEW i \in DOMAIN looks, AnswerSidebar(i)
    PROVE  Inv'
<1> DEFINE r == [looks[i] EXCEPT !.seen = version]
<1>1. /\ looks \in Seq(AllLooks) /\ i \in 1..Len(looks) /\ looks[i] \in AllLooks
      /\ version \in [Mailboxes -> Nat] /\ heard \in [Mailboxes -> Nat]
      /\ loads \in Seq(AllLoads)
  BY Types DEF Inv
<1>2. r \in AllLooks /\ r.late = looks[i].late /\ r.seen = version
  BY <1>1 DEF AllLooks, Versions
<1>3. /\ looks' = [looks EXCEPT ![i] = r]
      /\ UNCHANGED <<store, server, here, list, sidebar, loads, ghosts>>
  BY DEF AnswerSidebar
<1> HIDE DEF r
<1>4. /\ looks' \in Seq(AllLooks) /\ Len(looks') = Len(looks)
      /\ \A j \in 1..Len(looks) : looks'[j] = IF j = i THEN r ELSE looks[j]
  BY <1>1, <1>2, <1>3, ExceptSeq
<1>5. TypeOK'
  BY <1>1, <1>3, <1>4, PageTypes DEF Inv, TypeOK, ghosts
<1>6. Told' /\ Announced'
  BY <1>3, ToldSame DEF Inv, ghosts
<1>7. \A j \in 1..Len(looks) : looks'[j].late = looks[j].late
  BY <1>2, <1>4
<1>8. Current(looks') <=> Current(looks)
  <2>1. looks # <<>> /\ looks' # <<>> /\ Len(looks) \in 1..Len(looks)
    BY <1>1, <1>4, LenProperties, EmptySeq
  <2> QED
    BY <1>4, <1>7, <2>1 DEF Current
<1>9. ListInv'
  BY <1>3 DEF Inv, ListInv, ghosts
<1>10. SidebarInv'
  <2>1. LateFirst(looks')
    BY <1>4, <1>7 DEF Inv, SidebarInv, LateFirst
  <2>2. ASSUME loads = <<>>, Current(looks)
        PROVE  \/ looks'[Len(looks')].seen = Unseen
               \/ \A mb \in Mailboxes : looks'[Len(looks')].seen[mb] >= heard[mb]
    <3>1. CASE i = Len(looks)
      <4>1. looks'[Len(looks')].seen = version
        BY <1>1, <1>2, <1>4, <3>1
      <4>2. \A mb \in Mailboxes : version[mb] >= heard[mb]
        BY <1>1 DEF Inv, Told
      <4> QED
        BY <4>1, <4>2
    <3>2. CASE i # Len(looks)
      <4>1. looks'[Len(looks')] = looks[Len(looks)]
        BY <1>1, <1>4, <3>2
      <4> QED
        BY <2>2, <4>1 DEF Inv, SidebarInv
    <3> QED
      BY <3>1, <3>2
  <2> QED
    BY <1>3, <1>8, <2>1, <2>2 DEF Inv, SidebarInv, ghosts
<1> QED
  BY <1>5, <1>6, <1>9, <1>10 DEF Inv

\* What is left of the loads, or of the looks, when one of them is done.
LEMMA LoadsLeft ==
    ASSUME Inv, NEW i \in DOMAIN loads
    PROVE  /\ i \in 1..Len(loads) /\ loads[i] \in AllLoads
           /\ Done(loads, i) \in Seq(AllLoads) /\ LateFirst(Done(loads, i))
           /\ i = Len(loads) => ~Current(Done(loads, i))
           /\ i < Len(loads) =>
                /\ Done(loads, i) # <<>>
                /\ Done(loads, i)[Len(Done(loads, i))] = loads[Len(loads)]
<1>1. loads \in Seq(AllLoads) /\ i \in 1..Len(loads) /\ loads[i] \in AllLoads
      /\ LateFirst(loads)
  BY Types DEF Inv, ListInv
<1>2. \A r \in AllLoads : [r EXCEPT !.late = TRUE] \in AllLoads /\ [r EXCEPT !.late = TRUE].late
  BY LateLoad
<1> QED
  BY <1>1, <1>2, DoneRequests

LEMMA LooksLeft ==
    ASSUME Inv, NEW i \in DOMAIN looks
    PROVE  /\ i \in 1..Len(looks) /\ looks[i] \in AllLooks
           /\ Done(looks, i) \in Seq(AllLooks) /\ LateFirst(Done(looks, i))
           /\ i = Len(looks) => ~Current(Done(looks, i))
           /\ i < Len(looks) =>
                /\ Done(looks, i) # <<>>
                /\ Done(looks, i)[Len(Done(looks, i))] = looks[Len(looks)]
<1>1. looks \in Seq(AllLooks) /\ i \in 1..Len(looks) /\ looks[i] \in AllLooks
      /\ LateFirst(looks)
  BY Types DEF Inv, SidebarInv
<1>2. \A r \in AllLooks : [r EXCEPT !.late = TRUE] \in AllLooks /\ [r EXCEPT !.late = TRUE].late
  BY LateLook
<1> QED
  BY <1>1, <1>2, DoneRequests

\* If the last load still counts when another is done, it counted before; if it
\* does not, the one that is done was late as well.
LEMMA LastLoad ==
    ASSUME Inv, NEW i \in DOMAIN loads, loads' = Done(loads, i)
    PROVE  /\ Current(loads') =>
                i < Len(loads) /\ Current(loads) /\ loads'[Len(loads')] = loads[Len(loads)]
           /\ ~Current(loads') => loads[i].late \/ (i = Len(loads) /\ Current(loads))
<1>1. /\ i \in 1..Len(loads) /\ Len(loads) \in Nat /\ loads # <<>>
      /\ loads \in Seq(AllLoads) /\ LateFirst(loads)
  BY Types, LenProperties, EmptySeq DEF Inv, ListInv
<1>2. CASE i = Len(loads)
  BY <1>1, <1>2, LoadsLeft DEF Current
<1>3. CASE i < Len(loads)
  <2>1. loads' # <<>> /\ loads'[Len(loads')] = loads[Len(loads)]
    BY <1>3, LoadsLeft
  <2>2. loads[Len(loads)].late => loads[i].late
    BY <1>1, <1>3 DEF LateFirst
  <2> QED
    BY <1>1, <1>3, <2>1, <2>2 DEF Current
<1> QED
  BY <1>1, <1>2, <1>3

LEMMA LastLook ==
    ASSUME Inv, NEW i \in DOMAIN looks, looks' = Done(looks, i)
    PROVE  /\ Current(looks') =>
                i < Len(looks) /\ Current(looks) /\ looks'[Len(looks')] = looks[Len(looks)]
           /\ ~Current(looks') => looks[i].late \/ (i = Len(looks) /\ Current(looks))
<1>1. /\ i \in 1..Len(looks) /\ Len(looks) \in Nat /\ looks # <<>>
      /\ looks \in Seq(AllLooks) /\ LateFirst(looks)
  BY Types, LenProperties, EmptySeq DEF Inv, SidebarInv
<1>2. CASE i = Len(looks)
  BY <1>1, <1>2, LooksLeft DEF Current
<1>3. CASE i < Len(looks)
  <2>1. looks' # <<>> /\ looks'[Len(looks')] = looks[Len(looks)]
    BY <1>3, LooksLeft
  <2>2. looks[Len(looks)].late => looks[i].late
    BY <1>1, <1>3 DEF LateFirst
  <2> QED
    BY <1>1, <1>3, <2>1, <2>2 DEF Current
<1> QED
  BY <1>1, <1>2, <1>3

LEMMA ShowListStep ==
    ASSUME Inv, NEW i \in DOMAIN loads, ShowList(i)
    PROVE  Inv'
<1>1. /\ loads[i].version # Unanswered
      /\ list' = [mailbox |-> loads[i].mailbox, version |-> loads[i].version]
      /\ loads' = Done(loads, i) /\ looks' = Append(looks, Look)
      /\ behind' = IF loads[i].late THEN behind \cup {"list"} ELSE behind \ {"list"}
      /\ UNCHANGED <<store, server, here, sidebar, heard, lost>>
  BY DEF ShowList
<1>2. loads' \in Seq(AllLoads) /\ LateFirst(loads') /\ loads[i] \in AllLoads
  BY <1>1, LoadsLeft
<1>3. /\ looks' \in Seq(AllLooks) /\ LateFirst(looks') /\ Current(looks')
      /\ looks'[Len(looks')].seen = Unseen
  <2>1. looks \in Seq(AllLooks) /\ Look \in AllLooks /\ ~Look.late /\ LateFirst(looks)
    BY Types DEF Inv, SidebarInv
  <2>2. Look.seen = Unseen
    BY DEF Look
  <2> QED
    BY <1>1, <2>1, <2>2, AppendRequest
<1>4. TypeOK'
  <2>1. list' \in [mailbox : Mailboxes, version : Versions \cup {Unanswered}]
    BY <1>1, <1>2 DEF AllLoads
  <2>2. behind' \subseteq {"list", "sidebar"}
    BY <1>1 DEF Inv, TypeOK
  <2> QED
    BY <1>1, <1>2, <1>3, <2>1, <2>2, PageTypes DEF Inv, TypeOK
<1>5. Told' /\ Announced'
  BY <1>1, ToldSame DEF Inv
<1>6. ListInv'
  <2>1. CASE Current(loads')
    BY <1>1, <1>2, <2>1, LastLoad DEF Inv, ListInv
  <2>2. CASE ~Current(loads') /\ loads[i].late
    BY <1>1, <1>2, <2>2 DEF ListInv
  <2>3. CASE ~Current(loads') /\ i = Len(loads) /\ Current(loads)
    <3>1. loads[i].mailbox = here /\ loads[i].version >= heard[here]
      BY <1>1, <2>3 DEF Inv, ListInv
    <3> QED
      BY <1>1, <1>2, <2>3, <3>1 DEF ListInv
  <2> QED
    BY <1>1, <2>1, <2>2, <2>3, LastLoad
<1>7. SidebarInv'
  BY <1>3 DEF SidebarInv
<1> QED
  BY <1>4, <1>5, <1>6, <1>7 DEF Inv

LEMMA ShowSidebarStep ==
    ASSUME Inv, NEW i \in DOMAIN looks, ShowSidebar(i)
    PROVE  Inv'
<1>1. /\ looks[i].seen # Unseen
      /\ sidebar' = looks[i].seen /\ looks' = Done(looks, i)
      /\ behind' = IF looks[i].late THEN behind \cup {"sidebar"} ELSE behind \ {"sidebar"}
      /\ UNCHANGED <<store, server, here, list, loads, heard, lost>>
  BY DEF ShowSidebar
<1>2. looks' \in Seq(AllLooks) /\ LateFirst(looks') /\ looks[i] \in AllLooks
  BY <1>1, LooksLeft
<1>3. TypeOK'
  <2>1. sidebar' \in [Mailboxes -> Versions]
    BY <1>1, <1>2 DEF AllLooks
  <2>2. behind' \subseteq {"list", "sidebar"} /\ loads \in Seq(AllLoads)
    BY <1>1, Types DEF Inv, TypeOK
  <2> QED
    BY <1>1, <1>2, <2>1, <2>2, PageTypes DEF Inv, TypeOK
<1>4. Told' /\ Announced'
  BY <1>1, ToldSame DEF Inv
<1>5. ListInv'
  BY <1>1 DEF Inv, ListInv
<1>6. SidebarInv'
  <2>1. CASE Current(looks')
    BY <1>1, <1>2, <2>1, LastLook DEF Inv, SidebarInv
  <2>2. CASE ~Current(looks') /\ looks[i].late
    BY <1>1, <1>2, <2>2 DEF SidebarInv
  <2>3. CASE ~Current(looks') /\ i = Len(looks) /\ Current(looks)
    <3>1. loads = <<>> => \A mb \in Mailboxes : looks[i].seen[mb] >= heard[mb]
      BY <1>1, <2>3 DEF Inv, SidebarInv
    <3> QED
      BY <1>1, <1>2, <2>3, <3>1 DEF SidebarInv
  <2> QED
    BY <1>1, <2>1, <2>2, <2>3, LastLook
<1> QED
  BY <1>3, <1>4, <1>5, <1>6 DEF Inv

LEMMA FailsStep ==
    ASSUME Inv,
           \/ \E i \in DOMAIN loads : LoadFails(i)
           \/ \E i \in DOMAIN looks : LookFails(i)
    PROVE  Inv'
<1>1. ASSUME NEW i \in DOMAIN loads, LoadFails(i) PROVE Inv'
  <2>1. /\ loads' = Done(loads, i) /\ looks' = Late(looks)
        /\ behind' = behind \cup {"list", "sidebar"}
        /\ UNCHANGED <<store, server, here, list, sidebar, heard, lost>>
    BY <1>1 DEF LoadFails
  <2>2. loads' \in Seq(AllLoads) /\ LateFirst(loads')
    BY <2>1, LoadsLeft
  <2>3. looks' \in Seq(AllLooks) /\ LateFirst(looks') /\ ~Current(looks')
    <3>1. looks \in Seq(AllLooks)
      BY Types DEF Inv
    <3>2. \A r \in AllLooks : [r EXCEPT !.late = TRUE] \in AllLooks /\ [r EXCEPT !.late = TRUE].late
      BY LateLook
    <3> QED
      BY <2>1, <3>1, <3>2, LateRequests
  <2>4. TypeOK'
    BY <2>1, <2>2, <2>3, PageTypes DEF Inv, TypeOK
  <2>5. Told' /\ Announced'
    BY <2>1, ToldSame DEF Inv
  <2>6. ListInv'
    BY <2>1, <2>2, LastLoad DEF Inv, ListInv
  <2>7. SidebarInv'
    BY <2>1, <2>3 DEF SidebarInv
  <2> QED
    BY <2>4, <2>5, <2>6, <2>7 DEF Inv
<1>2. ASSUME NEW i \in DOMAIN looks, LookFails(i) PROVE Inv'
  <2>1. /\ looks' = Done(looks, i) /\ behind' = behind \cup {"sidebar"}
        /\ UNCHANGED <<store, server, here, list, sidebar, loads, heard, lost>>
    BY <1>2 DEF LookFails
  <2>2. looks' \in Seq(AllLooks) /\ LateFirst(looks') /\ loads \in Seq(AllLoads)
    BY <2>1, LooksLeft, Types DEF Inv
  <2>3. TypeOK'
    BY <2>1, <2>2, PageTypes DEF Inv, TypeOK
  <2>4. Told' /\ Announced'
    BY <2>1, ToldSame DEF Inv
  <2>5. ListInv'
    BY <2>1 DEF Inv, ListInv
  <2>6. SidebarInv'
    BY <2>1, <2>2, LastLook DEF Inv, SidebarInv
  <2> QED
    BY <2>3, <2>4, <2>5, <2>6 DEF Inv
<1> QED
  BY <1>1, <1>2

LEMMA InvNext == Inv /\ [Next]_vars => Inv'
<1> SUFFICES ASSUME Inv, [Next]_vars PROVE Inv'
  OBVIOUS
<1>1. CASE UNCHANGED vars
  <2>1. UNCHANGED <<store, server, page, ghosts>>
    BY <1>1 DEF vars
  <2>2. TypeOK' /\ Told' /\ Announced'
    BY <2>1 DEF Inv, TypeOK, Told, Announced, Waiting, store, server, page, ghosts
  <2> QED
    BY <2>1, <2>2, PageSame DEF Inv, ghosts
<1>2. CASE Next
  BY <1>2, ChangeStep, PublishStep, StreamStep, HearStep, SelectStep, AnswerListStep,
     AnswerSidebarStep, ShowListStep, ShowSidebarStep, FailsStep DEF Next
<1> QED
  BY <1>1, <1>2
-----------------------------------------------------------------------------
(* Theorems                                                                *)

LEMMA InvCorrect == Spec => []Inv
BY InvInit, InvNext, PTL DEF Spec

\* Every variable keeps its type; in particular nothing is left in the channel
\* or on the wire of a stream that was cut.
THEOREM TypeCorrect == Spec => []TypeOK
<1>1. Inv => TypeOK
  BY DEF Inv
<1> QED
  BY <1>1, InvCorrect, PTL

\* A page that waits for nothing shows every change it was told of, unless the
\* last answer it used had been overtaken or lost.
THEOREM PageShowsWhatItWasTold == Spec => []ToldMeansShown
<1>1. ASSUME Inv PROVE ToldMeansShown
  <2>1. loads = <<>> => ~Current(loads)
    BY DEF Current
  <2>2. looks = <<>> => ~Current(looks)
    BY DEF Current
  <2> QED
    BY <1>1, <2>1, <2>2 DEF Inv, ListInv, SidebarInv, ToldMeansShown
<1> QED
  BY <1>1, InvCorrect, PTL

\* When nothing is under way, the page shows the store as it is, but for the
\* mailboxes whose last event was dropped, cut off or never published.
THEOREM QuietPageIsCurrent == Spec => []QuietMeansCurrent
<1>1. ASSUME Inv PROVE QuietMeansCurrent
  <2>1. ToldMeansShown
    <3>1. (loads = <<>> => ~Current(loads)) /\ (looks = <<>> => ~Current(looks))
      BY DEF Current
    <3> QED
      BY <1>1, <3>1 DEF Inv, ListInv, SidebarInv, ToldMeansShown
  <2>2. Waiting = {} => \A mb \in Mailboxes \ lost : heard[mb] = version[mb]
    BY <1>1 DEF Inv, Announced
  <2>3. here \in Mailboxes
    BY <1>1 DEF Inv, TypeOK
  <2> QED
    BY <2>1, <2>2, <2>3 DEF ToldMeansShown, QuietMeansCurrent, Quiet
<1> QED
  BY <1>1, InvCorrect, PTL
=============================================================================
