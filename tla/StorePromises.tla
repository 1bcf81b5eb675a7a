--------------------------- MODULE StorePromises ---------------------------
(***************************************************************************)
(* Theorems about what Store promises of the data directory: for any       *)
(* goroutines, messages, mailboxes and options, through any crashes and    *)
(* failures, and that Store implements MailQueue.                          *)
(***************************************************************************)
EXTENDS StoreProofs

-----------------------------------------------------------------------------
(* The invariant                                                           *)

\* The messages that t has taken out of memory and will unlink.
Unlinks(t) == IF pc[t] = "unlink" \/ op[t] = "Deliver" THEN ToSet(todo[t]) ELSE {}

\* What is removed is not in memory, and what is removed or acknowledged was
\* issued.
Books ==
    /\ removed \cap byID = {} /\ gone \subseteq removed
    /\ removed \cup acked \subseteq issued
    /\ up = "down" => byID = {}

\* What each goroutine knows of the message in its hand.
Job(t) ==
    /\ Unlinks(t) \subseteq removed
    /\ pc[t] = "idle" => op[t] = "none"
    /\ pc[t] = "insert" => op[t] = "Deliver" /\ todo[t] = <<>> /\ msg[t] \notin acked \cup removed
    /\ pc[t] = "swap" => op[t] = "MarkRead"
    /\ pc[t] \in {"insert", "swap", "stat"} => part[t] = "eml"
    /\ op[t] = "Deliver" /\ pc[t] # "insert" => msg[t] \in byID \cup removed
Jobs == \A t \in Workers : Job(t)

\* The messages that are not unsure have one writer at most, and none once
\* they have been removed.
OneWriter ==
    \A m \in Ids \ unsure : \A t, u \in Workers :
        m \in Saving(t) /\ m \in Saving(u) => t = u
NoWriter == \A m \in removed \ unsure : \A t \in Workers : m \notin Writes(t)

\* How far the writer has come: the bytes it has in hand are those it will
\* rename, and the body is on disk before the metadata.
Putting(t) == pc[t] \in {"create", "fill", "rename"}
InHand(t) ==
    /\ pc[t] = "fill" => fd[t] = "tmp" /\ tmp[part[t]][msg[t]] = "torn"
    /\ pc[t] = "rename" => tmp[part[t]][msg[t]] = buf[t]
    /\ Putting(t) /\ part[t] = "eml" => buf[t] = "raw"
    /\ Putting(t) /\ part[t] = "json" => buf[t] = Flag(read[msg[t]])
    /\ pc[t] = "marshal" \/ (Putting(t) /\ part[t] = "json") => file["eml"][msg[t]] = "raw"
InHands ==
    \A t \in Workers :
        /\ pc[t] # "fill" => fd[t] = "none"
        /\ msg[t] \notin unsure => InHand(t)

\* What a file may hold.
Whole ==
    \A m \in Ids \ unsure :
        file["eml"][m] \in {"none", "raw"} /\ file["json"][m] \in {"none"} \cup Flags

\* A delivery that has gone past its writes has written the message.
OnDisk(m) == file["eml"][m] = "raw" /\ file["json"][m] \in Flags
Finished ==
    Persist => \A t \in Workers :
        op[t] = "Deliver" /\ pc[t] \in {"unlink", "return"} /\ msg[t] \notin removed \cup unsure
        => OnDisk(msg[t])

Buried == \A m \in gone \ unsure : file["json"][m] = "none"

\* A flag is on disk, or somebody is about to put it there.
Saved ==
    Persist /\ up # "down" => \A m \in byID \ unsure :
        file["json"][m] = Flag(read[m]) \/ \E t \in Workers : m \in Saving(t)

WriterInv == OneWriter /\ NoWriter
DiskInv == InHands /\ Whole /\ Finished /\ Buried /\ Saved /\ AckedIsKept
PromiseInv == IndexInv /\ Books /\ Jobs /\ WriterInv /\ DiskInv

LEMMA PromiseInit == Init => PromiseInv
<1> SUFFICES ASSUME Init PROVE PromiseInv
  OBVIOUS
<1>1. IndexInv
  BY IndexInit
<1>2. ToSet(<<>>) = {}
  BY DEF ToSet
<1>3. Books /\ Jobs /\ WriterInv
  BY <1>2 DEF Init, Books, Jobs, Job, Unlinks, WriterInv, OneWriter, NoWriter, Saving, Writes
<1>4. DiskInv
  BY DEF Init, DiskInv, InHands, InHand, Putting, Whole, Finished, Buried, Saved, AckedIsKept,
         Kinds
<1> QED
  BY <1>1, <1>3, <1>4 DEF PromiseInv
-----------------------------------------------------------------------------
(* What a step does to the hands of the goroutine that takes it            *)

\* The other goroutines stay where they are.  (An open file of theirs may be
\* renamed or unlinked under them.)
Others(t) ==
    \A u \in Workers \ {t} :
        /\ pc'[u] = pc[u] /\ op'[u] = op[u] /\ msg'[u] = msg[u]
        /\ todo'[u] = todo[u] /\ part'[u] = part[u] /\ buf'[u] = buf[u]

LEMMA OthersHands ==
    ASSUME NEW t \in Workers, Others(t), NEW u \in Workers \ {t}
    PROVE  Writes(u)' = Writes(u) /\ Saving(u)' = Saving(u) /\ Unlinks(u)' = Unlinks(u)
<1>1. Writes(u)' = Writes(u) /\ Unlinks(u)' = Unlinks(u)
  BY DEF Others, Writes, Unlinks
<1> QED
  BY <1>1 DEF Others, Saving

LEMMA BeginFacts ==
    ASSUME TypeInv, NEW t \in Workers, NEW o, NEW m, NEW rest, NEW step,
           Begin(t, o, m, rest, step)
    PROVE  /\ pc'[t] = step /\ op'[t] = o /\ msg'[t] = m /\ todo'[t] = rest /\ part'[t] = "eml"
           /\ \A u \in Workers \ {t} :
                /\ pc'[u] = pc[u] /\ op'[u] = op[u] /\ msg'[u] = msg[u]
                /\ todo'[u] = todo[u] /\ part'[u] = part[u]
BY DEF Begin, TypeInv, TypeOK

LEMMA EndFacts ==
    ASSUME TypeInv, NEW t \in Workers, End(t)
    PROVE  /\ pc'[t] = "idle" /\ op'[t] = "none" /\ msg'[t] = NoMsg /\ todo'[t] = <<>>
           /\ part'[t] = "eml" /\ fd'[t] = "none" /\ Others(t)
           /\ \A u \in Workers \ {t} : fd'[u] = fd[u]
<1>1. Begin(t, "none", NoMsg, <<>>, "idle")
  BY DEF End
<1> QED
  BY <1>1, BeginFacts DEF End, Others, TypeInv, TypeOK

LEMMA WrittenFacts ==
    ASSUME TypeInv, NEW t \in Workers, Written(t), UNCHANGED buf
    PROVE  /\ Others(t) /\ op'[t] = op[t] /\ part'[t] = "eml"
           /\ \/ /\ op[t] = "MarkAllRead" /\ todo[t] # <<>> /\ pc'[t] = "stat"
                 /\ msg'[t] = Head(todo[t]) /\ todo'[t] = Tail(todo[t])
              \/ /\ pc'[t] \in {"unlink", "return"} /\ (pc'[t] = "unlink" => op[t] = "Deliver")
                 /\ msg'[t] = msg[t] /\ todo'[t] = todo[t]
<1>1. CASE op[t] = "MarkAllRead" /\ todo[t] # <<>>
  <2>1. Begin(t, "MarkAllRead", Head(todo[t]), Tail(todo[t]), "stat")
    BY <1>1 DEF Written
  <2> QED
    BY <1>1, <2>1, BeginFacts DEF Others
<1>2. CASE op[t] = "Deliver" /\ todo[t] # <<>>
  <2>1. Begin(t, "Deliver", msg[t], todo[t], "unlink")
    BY <1>2 DEF Written
  <2> QED
    BY <1>2, <2>1, BeginFacts DEF Others
<1>3. CASE ~(op[t] = "MarkAllRead" /\ todo[t] # <<>>) /\ ~(op[t] = "Deliver" /\ todo[t] # <<>>)
  <2>1. Begin(t, op[t], msg[t], todo[t], "return")
    BY <1>3 DEF Written
  <2> QED
    BY <1>3, <2>1, BeginFacts DEF Others
<1> QED
  BY <1>1, <1>2, <1>3

LEMMA GotoFacts ==
    ASSUME TypeInv, NEW t \in Workers, NEW step, Goto(t, step)
    PROVE  pc'[t] = step /\ \A u \in Workers \ {t} : pc'[u] = pc[u]
BY DEF Goto, TypeInv, TypeOK

LEMMA HeadAndTail ==
    ASSUME NEW s \in Seq(Ids), s # <<>>
    PROVE  Tail(s) \in Seq(Ids) /\ ToSet(s) = {Head(s)} \cup ToSet(Tail(s))
<1> DEFINE n == Len(s)
           r == Tail(s)
<1>1. /\ n \in Nat /\ n >= 1 /\ Head(s) = s[1] /\ r \in Seq(Ids) /\ Len(r) = n - 1
      /\ \A i \in 1..(n - 1) : r[i] = s[i + 1]
  <2>1. /\ n >= 1 /\ Head(s) = s[1] /\ r \in Seq(Ids) /\ Len(r) = n - 1
        /\ \A i \in 1..Len(r) : r[i] = s[i + 1]
    BY HeadTailProperties
  <2>2. n \in Nat
    BY LenProperties
  <2> QED
    BY <2>1, <2>2
<1>2. \A x : x \in ToSet(s) <=> \E i \in 1..n : s[i] = x
  BY ToSetType
<1> HIDE DEF n, r
<1>3. \A x : x \in ToSet(r) <=> \E i \in 1..(n - 1) : r[i] = x
  <2>1. \A x : x \in ToSet(r) <=> \E i \in 1..Len(r) : r[i] = x
    BY <1>1, ToSetType
  <2> QED
    BY <1>1, <2>1
<1>4. ASSUME NEW x \in ToSet(s) PROVE x = s[1] \/ x \in ToSet(r)
  <2>1. PICK i \in 1..n : s[i] = x
    BY <1>2
  <2>2. CASE i # 1
    <3>1. i - 1 \in 1..(n - 1) /\ (i - 1) + 1 = i
      BY <1>1, <2>2
    <3> QED
      BY <1>1, <1>3, <2>1, <3>1
  <2> QED
    BY <2>1, <2>2
<1>5. s[1] \in ToSet(s)
  BY <1>1, <1>2
<1>6. ASSUME NEW x \in ToSet(r) PROVE x \in ToSet(s)
  <2>1. PICK i \in 1..(n - 1) : r[i] = x
    BY <1>3
  <2>2. i + 1 \in 1..n
    BY <1>1
  <2> QED
    BY <1>1, <1>2, <2>1, <2>2
<1> QED
  BY <1>1, <1>4, <1>5, <1>6 DEF r

\* The messages evicted by a delivery come from the mailbox.
LEMMA EvictedOld ==
    ASSUME NEW s \in Seq(Ids), NEW m \in Ids
    PROVE  ToSet(Evicted(Append(s, m))) \subseteq ToSet(s)
<1> DEFINE g == Append(s, m)
           n == Len(s)
<1>1. g \in Seq(Ids) /\ Len(g) = n + 1 /\ n \in Nat /\ \A i \in 1..n : g[i] = s[i]
  BY AppendProperties, LenProperties
<1>2. Excess(g) <= n /\ Excess(g) \in Nat
  BY <1>1, OptionAssumption DEF Excess
<1>3. \A x : x \in ToSet(s) <=> \E i \in 1..n : s[i] = x
  BY ToSetType
<1> HIDE DEF g, n
<1>4. /\ Evicted(g) \in Seq(Ids) /\ Len(Evicted(g)) = Excess(g)
      /\ \A i \in 1..Len(Evicted(g)) : Evicted(g)[i] = g[i]
  BY <1>1, Eviction
<1>5. ASSUME NEW x \in ToSet(Evicted(g)) PROVE x \in ToSet(s)
  <2>1. PICK i \in 1..Len(Evicted(g)) : Evicted(g)[i] = x
    BY <1>4, ToSetType
  <2>2. i \in 1..n
    BY <1>1, <1>2, <1>4
  <2> QED
    BY <1>1, <1>3, <1>4, <2>1, <2>2
<1> QED
  BY <1>5 DEF g

\* What Insert does, in short.
LEMMA InsertBrief ==
    ASSUME IndexInv, NEW t \in Workers, Insert(t)
    PROVE  \E old \in SUBSET byID :
             /\ msg[t] \in Ids /\ msg[t] \notin byID /\ msg[t] \in issued
             /\ byID' = (byID \cup {msg[t]}) \ old
             /\ removed' = removed \cup old /\ unsure' = unsure \cup (old \cap WrittenByOthers(t))
             /\ ToSet(todo'[t]) = old /\ pc'[t] = IF Persist THEN "stat" ELSE "return"
             /\ op' = op /\ msg' = msg /\ part' = part /\ buf' = buf /\ fd' = fd /\ Others(t)
<1> DEFINE m == msg[t]
           s == box[Home[m]]
           old == Evicted(Append(s, m))
<1>1. TypeInv
  BY DEF IndexInv
<1>2. m \in Ids /\ m \in issued /\ Home[m] \in Mailboxes
  BY InsertFacts
<1>3. m \notin byID
  BY DEF IndexInv, FreshInserts, Insert
<1>4. s \in Seq(Ids) /\ ToSet(s) \subseteq byID
  BY <1>2, BoxIssued
<1>5. /\ byID' = (byID \cup {m}) \ ToSet(old)
      /\ todo' = [todo EXCEPT ![t] = old]
      /\ TakeOut(t, ToSet(old))
      /\ Goto(t, IF Persist THEN "stat" ELSE "return")
      /\ UNCHANGED <<op, msg, part, buf, fd>>
  BY DEF Insert
<1>6. ToSet(old) \subseteq ToSet(s)
  <2> HIDE DEF m, s
  <2> QED
    BY <1>2, <1>4, EvictedOld
<1> HIDE DEF old, s
<1>7. todo'[t] = old /\ \A u \in Workers \ {t} : todo'[u] = todo[u]
  BY <1>1, <1>5 DEF TypeInv, TypeOK
<1>8. /\ pc'[t] = IF Persist THEN "stat" ELSE "return"
      /\ Others(t)
  BY <1>1, <1>5, <1>7, GotoFacts DEF Others
<1> QED
  BY <1>2, <1>3, <1>4, <1>5, <1>6, <1>7, <1>8 DEF TakeOut, m

\* A goroutine that is at work writes no more than before; what Swap makes it
\* save is unsure if somebody else saves it.
Calms(t) ==
    /\ Others(t) /\ unsure \subseteq unsure'
    /\ Writes(t)' \subseteq Writes(t)
    /\ \A m \in Saving(t)' : m \in Saving(t) \/ m \notin SavedByOthers(t) \/ m \in unsure'

LEMMA StepHands ==
    ASSUME TypeInv, IndexInv, Jobs, NEW t \in Workers, Step(t)
    PROVE  Calms(t)
<1>0. todo[t] \in Seq(Ids)
  BY DEF TypeInv, TypeOK
<1>1. CASE Insert(t)
  BY <1>1, InsertBrief DEF Insert, Jobs, Job, Calms, Writes, Saving
<1>2. CASE Swap(t)
  <2>1. /\ pc[t] = "swap" /\ op[t] = "MarkRead" /\ Others(t)
        /\ op' = op /\ msg' = msg /\ todo' = todo
        /\ pc'[t] = "return" \/ (pc'[t] = "stat" /\ unsure' = unsure \cup ({msg[t]} \cap SavedByOthers(t)))
        /\ unsure \subseteq unsure'
    BY <1>2, GotoFacts DEF Swap, Jobs, Job, Others
  <2> QED
    BY <2>1 DEF Calms, Writes, Saving
<1>3. CASE Stat(t) \/ Marshal(t) \/ Create(t) \/ Fill(t)
  <2>1. /\ pc[t] \in {"stat", "marshal", "create", "fill"} /\ unsure' = unsure
        /\ pc'[t] \in {"create", "marshal", "fill", "rename"}
        /\ op' = op /\ msg' = msg /\ todo' = todo
        /\ \A u \in Workers \ {t} : pc'[u] = pc[u] /\ part'[u] = part[u] /\ buf'[u] = buf[u]
    BY <1>3, GotoFacts DEF Stat, Marshal, Create, Fill, TypeInv, TypeOK, ghosts
  <2> QED
    BY <2>1 DEF Calms, Others, Writes, Saving
<1>4. ASSUME Written(t), UNCHANGED buf, pc[t] \in {"create", "fill", "rename"},
             unsure \subseteq unsure'
      PROVE  Calms(t)
  <2>1. Writes(t)' \subseteq Writes(t) /\ Saving(t)' \subseteq Saving(t)
    <3>1. CASE pc'[t] \in {"unlink", "return"}
      BY <3>1 DEF Writes, Saving
    <3>2. CASE /\ op[t] = "MarkAllRead" /\ todo[t] # <<>> /\ pc'[t] = "stat"
               /\ msg'[t] = Head(todo[t]) /\ todo'[t] = Tail(todo[t]) /\ op'[t] = op[t]
      <4>1. ToSet(todo[t]) = {msg'[t]} \cup ToSet(todo'[t])
        BY <1>0, <3>2, HeadAndTail
      <4> QED
        BY <1>4, <3>2, <4>1 DEF Writes, Saving
    <3> QED
      BY <1>4, <3>1, <3>2, WrittenFacts
  <2>2. Others(t)
    BY <1>4, WrittenFacts
  <2> QED
    BY <1>4, <2>1, <2>2 DEF Calms
<1>5. CASE Rename(t)
  <2>1. pc[t] = "rename" /\ unsure' = unsure /\ buf' = buf
    BY <1>5 DEF Rename, ghosts
  <2>2. CASE part[t] = "eml"
    <3>1. Begin(t, op[t], msg[t], todo[t], "marshal")
      BY <1>5, <2>2 DEF Rename
    <3>2. /\ pc'[t] = "marshal" /\ op'[t] = op[t] /\ msg'[t] = msg[t] /\ todo'[t] = todo[t]
          /\ Others(t)
      BY <2>1, <3>1, BeginFacts DEF Others
    <3> QED
      BY <2>1, <3>2 DEF Calms, Writes, Saving
  <2>3. CASE part[t] # "eml"
    BY <1>4, <1>5, <2>1, <2>3 DEF Rename
  <2> QED
    BY <2>2, <2>3
<1>6. CASE WriteFails(t)
  <2>1. pc[t] \in {"create", "fill", "rename"} /\ unsure \subseteq unsure'
    BY <1>6 DEF WriteFails
  <2>2. CASE op[t] = "Deliver"
    <3>1. pc'[t] = "idle" /\ Others(t)
      BY <1>6, <2>2, EndFacts DEF WriteFails
    <3> QED
      BY <2>1, <3>1 DEF Calms, Writes, Saving
  <2>3. CASE op[t] # "Deliver"
    BY <1>4, <1>6, <2>1, <2>3 DEF WriteFails
  <2> QED
    BY <2>2, <2>3
<1>7. CASE Unlink(t)
  <2>1. unsure \subseteq unsure' /\ buf' = buf
    BY <1>7 DEF Unlink
  <2>2. CASE part[t] = "eml"
    BY <1>7, <2>1, <2>2 DEF Unlink, Calms, Others, Writes, Saving, TypeInv, TypeOK
  <2>3. CASE part[t] # "eml"
    <3>1. PICK step \in {"return", "unlink"} : Begin(t, op[t], msg[t], Tail(todo[t]), step)
      BY <1>7, <2>3 DEF Unlink
    <3>2. pc'[t] = step /\ Others(t)
      BY <2>1, <3>1, BeginFacts DEF Others
    <3> QED
      BY <2>1, <3>2 DEF Calms, Writes, Saving
  <2> QED
    BY <2>2, <2>3
<1>8. CASE Return(t)
  <2>1. pc'[t] = "idle" /\ Others(t) /\ unsure' = unsure
    BY <1>8, EndFacts DEF Return
  <2> QED
    BY <2>1 DEF Calms, Writes, Saving
<1> QED
  BY <1>1, <1>2, <1>3, <1>5, <1>6, <1>7, <1>8 DEF Step, Write

\* What the calls do, in short.
LEMMA DeliverBrief ==
    ASSUME TypeInv, NEW t \in Threads, Deliver(t)
    PROVE  \E m \in Ids \ issued :
             /\ issued' = issued \cup {m} /\ msg'[t] = m /\ todo'[t] = <<>>
             /\ pc'[t] = "insert" /\ op'[t] = "Deliver" /\ part'[t] = "eml"
             /\ t \in Workers /\ Others(t) /\ pc[t] = "idle" /\ up = "up" /\ up' = up
             /\ UNCHANGED <<memory, disk, fd, acked, removed, gone, unsure>>
<1>1. PICK m \in Ids \ issued :
        issued' = issued \cup {m} /\ Begin(t, "Deliver", m, <<>>, "insert")
  BY DEF Deliver
<1>2. /\ t \in Workers /\ pc[t] = "idle" /\ up = "up"
      /\ UNCHANGED <<memory, disk, up, buf, fd, acked, removed, gone, unsure>>
  BY DEF Deliver, Ready, Workers
<1> QED
  BY <1>1, <1>2, BeginFacts DEF Others

LEMMA MarkReadBrief ==
    ASSUME TypeInv, NEW t \in Threads, MarkRead(t)
    PROVE  /\ msg'[t] \in byID /\ todo'[t] = <<>>
           /\ pc'[t] = "swap" /\ op'[t] = "MarkRead" /\ part'[t] = "eml"
           /\ t \in Workers /\ Others(t) /\ pc[t] = "idle" /\ up = "up" /\ up' = up
           /\ UNCHANGED <<memory, disk, fd, ghosts>>
<1>1. PICK m \in byID, isRead \in BOOLEAN :
        Begin(t, "MarkRead", m, <<>>, "swap") /\ buf' = [buf EXCEPT ![t] = Flag(isRead)]
  BY DEF MarkRead
<1>2. /\ t \in Workers /\ pc[t] = "idle" /\ up = "up" /\ UNCHANGED <<memory, disk, up, fd, ghosts>>
  BY DEF MarkRead, Ready, Workers
<1> QED
  BY <1>1, <1>2, BeginFacts DEF Others, TypeInv, TypeOK

LEMMA MarkAllReadBrief ==
    ASSUME TypeInv, IndexInv, NEW t \in Threads, MarkAllRead(t)
    PROVE  \E changed \in SUBSET byID :
             /\ read' = [m \in Ids |-> read[m] \/ m \in changed]
             /\ unsure' = unsure \cup (changed \cap SavedByOthers(t))
             /\ \/ /\ pc'[t] = "stat" /\ {msg'[t]} \cup ToSet(todo'[t]) = changed
                   /\ msg'[t] \in changed
                \/ pc'[t] = "return" /\ (~ Persist \/ changed = {})
             /\ op'[t] = "MarkAllRead" /\ part'[t] = "eml"
             /\ t \in Workers /\ Others(t) /\ pc[t] = "idle" /\ up = "up" /\ up' = up
             /\ UNCHANGED <<box, byID, disk, fd, issued, acked, removed, gone>>
<1>1. /\ t \in Workers /\ pc[t] = "idle" /\ up = "up"
      /\ UNCHANGED <<box, byID, disk, up, buf, fd, issued, acked, removed, gone>>
  BY DEF MarkAllRead, Ready, Workers
<1>2. PICK mb \in Mailboxes :
        LET changed == {m \in ToSet(box[mb]) : ~read[m]}
        IN  \E list \in Listings(changed, OrderIn(box[mb])) :
            /\ read' = [m \in Ids |-> read[m] \/ m \in changed]
            /\ unsure' = unsure \cup (changed \cap SavedByOthers(t))
            /\ IF Persist /\ list # <<>>
               THEN Begin(t, "MarkAllRead", Head(list), Tail(list), "stat")
               ELSE Begin(t, "MarkAllRead", NoMsg, <<>>, "return")
  BY DEF MarkAllRead
<1> DEFINE changed == {m \in ToSet(box[mb]) : ~read[m]}
<1>3. changed \in SUBSET byID /\ changed \in SUBSET Ids
  BY BoxIssued
<1>4. PICK list \in Listings(changed, OrderIn(box[mb])) :
            /\ read' = [m \in Ids |-> read[m] \/ m \in changed]
            /\ unsure' = unsure \cup (changed \cap SavedByOthers(t))
            /\ IF Persist /\ list # <<>>
               THEN Begin(t, "MarkAllRead", Head(list), Tail(list), "stat")
               ELSE Begin(t, "MarkAllRead", NoMsg, <<>>, "return")
  BY <1>2
<1> HIDE DEF changed
<1>5. list \in Seq(Ids) /\ ToSet(list) = changed
  BY <1>3, ListingType
<1>6. CASE Persist /\ list # <<>>
  <2>1. {Head(list)} \cup ToSet(Tail(list)) = changed
    BY <1>5, <1>6, HeadAndTail
  <2>2. Begin(t, "MarkAllRead", Head(list), Tail(list), "stat")
    BY <1>4, <1>6
  <2>3. /\ pc'[t] = "stat" /\ msg'[t] = Head(list) /\ todo'[t] = Tail(list)
        /\ op'[t] = "MarkAllRead" /\ part'[t] = "eml" /\ Others(t)
    BY <1>1, <2>2, BeginFacts DEF Others
  <2> QED
    BY <1>1, <1>3, <1>4, <2>1, <2>3
<1>7. CASE ~ (Persist /\ list # <<>>)
  <2>1. list = <<>> => changed = {}
    BY <1>5 DEF ToSet
  <2>2. Begin(t, "MarkAllRead", NoMsg, <<>>, "return")
    BY <1>4, <1>7
  <2>3. /\ pc'[t] = "return" /\ op'[t] = "MarkAllRead" /\ part'[t] = "eml" /\ Others(t)
    BY <1>1, <2>2, BeginFacts DEF Others
  <2> QED
    BY <1>1, <1>3, <1>4, <1>7, <2>1, <2>3
<1> QED
  BY <1>6, <1>7

\* Delete and Clear.
LEMMA RemovalBrief ==
    ASSUME TypeInv, IndexInv, NEW t \in Threads, Delete(t) \/ Clear(t)
    PROVE  \E S \in SUBSET byID :
             /\ byID' = byID \ S /\ removed' = removed \cup S
             /\ unsure' = unsure \cup (S \cap WrittenByOthers(t))
             /\ ToSet(todo'[t]) = S /\ pc'[t] \in {"unlink", "return"}
             /\ op'[t] \in {"Delete", "Clear"} /\ part'[t] = "eml" /\ msg'[t] = NoMsg
             /\ t \in Workers /\ Others(t) /\ pc[t] = "idle" /\ up = "up" /\ up' = up
             /\ UNCHANGED <<read, disk, fd, issued, acked, gone>>
<1>1. /\ t \in Workers /\ pc[t] = "idle" /\ up = "up"
      /\ UNCHANGED <<read, disk, up, buf, fd, issued, acked, gone>>
  BY DEF Delete, Clear, Ready, Workers
<1>2. CASE Delete(t)
  <2>1. PICK m \in byID, step \in {"unlink", "return"} :
          /\ byID' = byID \ {m} /\ TakeOut(t, {m})
          /\ Begin(t, "Delete", NoMsg, <<m>>, step)
    BY <1>2 DEF Delete
  <2>2. ToSet(<<m>>) = {m}
    BY DEF ToSet
  <2>3. /\ pc'[t] = step /\ todo'[t] = <<m>> /\ op'[t] = "Delete" /\ part'[t] = "eml"
        /\ msg'[t] = NoMsg /\ Others(t)
    BY <1>1, <2>1, BeginFacts DEF Others
  <2> QED
    BY <1>1, <2>1, <2>2, <2>3 DEF TakeOut
<1>3. CASE Clear(t)
  <2>1. PICK mb \in Mailboxes, step \in {"unlink", "return"} :
          /\ byID' = byID \ ToSet(box[mb]) /\ TakeOut(t, ToSet(box[mb]))
          /\ Begin(t, "Clear", NoMsg, box[mb], step)
    BY <1>3 DEF Clear
  <2>2. ToSet(box[mb]) \in SUBSET byID
    BY BoxIssued
  <2>3. /\ pc'[t] = step /\ todo'[t] = box[mb] /\ op'[t] = "Clear" /\ part'[t] = "eml"
        /\ msg'[t] = NoMsg /\ Others(t)
    BY <1>1, <2>1, BeginFacts DEF Others
  <2> QED
    BY <1>1, <2>1, <2>2, <2>3 DEF TakeOut
<1> QED
  BY <1>2, <1>3

\* What a call makes a goroutine write is in memory, or new.
LEMMA CallHands ==
    ASSUME TypeInv, IndexInv, Books, NEW t \in Threads, Call(t)
    PROVE  /\ Others(t) /\ unsure \subseteq unsure' /\ t \in Workers
           /\ \A m \in Writes(t)' : m \notin removed'
           /\ \A m \in Saving(t)' : m \notin SavedByOthers(t) \/ m \in unsure'
           /\ \A m \in removed' \ removed : m \notin WrittenByOthers(t) \/ m \in unsure'
<1>1. CASE Deliver(t)
  <2>1. PICK m \in Ids \ issued :
             /\ msg'[t] = m /\ pc'[t] = "insert" /\ op'[t] = "Deliver"
             /\ t \in Workers /\ Others(t) /\ UNCHANGED <<removed, unsure>>
    BY <1>1, DeliverBrief
  <2>2. Writes(t)' = {m} /\ Saving(t)' = {m}
    BY <2>1 DEF Writes, Saving
  <2>3. m \notin removed
    BY DEF Books
  <2>4. m \notin SavedByOthers(t)
    <3>1. ASSUME NEW u \in Workers PROVE m \notin Saving(u)
      BY DEF Saving, Writes, IndexInv, WorkersIssued, Writing
    <3> QED
      BY <3>1 DEF SavedByOthers
  <2> QED
    BY <2>1, <2>2, <2>3, <2>4
<1>2. CASE MarkRead(t)
  <2>1. /\ msg'[t] \in byID /\ pc'[t] = "swap" /\ op'[t] = "MarkRead"
        /\ t \in Workers /\ Others(t) /\ UNCHANGED <<removed, unsure>>
    BY <1>2, MarkReadBrief DEF ghosts
  <2> QED
    BY <2>1 DEF Writes, Saving, Books
<1>3. CASE MarkAllRead(t)
  <2>1. PICK changed \in SUBSET byID :
             /\ unsure' = unsure \cup (changed \cap SavedByOthers(t))
             /\ \/ pc'[t] = "stat" /\ {msg'[t]} \cup ToSet(todo'[t]) = changed
                \/ pc'[t] = "return"
             /\ op'[t] = "MarkAllRead" /\ t \in Workers /\ Others(t) /\ UNCHANGED removed
    BY <1>3, MarkAllReadBrief
  <2>2. Writes(t)' \subseteq changed /\ Saving(t)' \subseteq changed
    BY <2>1 DEF Writes, Saving
  <2> QED
    BY <2>1, <2>2 DEF Books
<1>4. CASE Delete(t) \/ Clear(t)
  <2>1. PICK S \in SUBSET byID :
             /\ removed' = removed \cup S
             /\ unsure' = unsure \cup (S \cap WrittenByOthers(t))
             /\ pc'[t] \in {"unlink", "return"} /\ t \in Workers /\ Others(t)
    BY <1>4, RemovalBrief
  <2>2. Writes(t)' = {} /\ Saving(t)' = {}
    BY <2>1 DEF Writes, Saving
  <2> QED
    BY <2>1, <2>2
<1> QED
  BY <1>1, <1>2, <1>3, <1>4 DEF Call

\* A start and a crash leave nobody with anything to write.
LEMMA NobodyWrites ==
    ASSUME IndexInv, Crash \/ \E found \in SUBSET Loadables : Restore(found)
    PROVE  \A t \in Workers : Writes(t)' = {} /\ Saving(t)' = {}
<1>1. \A t \in Workers : pc'[t] \in {"idle", "unlink"}
  <2>1. CASE Crash
    BY <2>1 DEF Crash
  <2>2. ASSUME NEW found \in SUBSET Loadables, Restore(found) PROVE \A t \in Workers : pc'[t] \in {"idle", "unlink"}
    <3>1. \A t \in Workers : pc[t] = "idle"
      BY <2>2 DEF Restore, IndexInv, DownIsIdle
    <3>2. Main \in Workers /\ TypeInv
      BY DEF Workers, IndexInv
    <3>3. \/ pc' = pc
          \/ \E o, m, rest : Begin(Main, o, m, rest, "unlink")
      BY <2>2, LoadFacts DEF Restored
    <3> QED
      BY <3>1, <3>2, <3>3, BeginFacts
  <2> QED
    BY <2>1, <2>2
<1> QED
  BY <1>1 DEF Writes, Saving

LEMMA WriterStep ==
    ASSUME WriterInv, NEW t \in Workers, Others(t), unsure \subseteq unsure',
           \A m \in Saving(t)' : m \in Saving(t) \/ m \notin SavedByOthers(t) \/ m \in unsure',
           \A m \in Writes(t)' : m \notin removed' \/ m \in unsure',
           \A m \in removed' \ removed : m \notin WrittenByOthers(t) \/ m \in unsure'
    PROVE  WriterInv'
<1>1. \A u \in Workers \ {t} : Writes(u)' = Writes(u) /\ Saving(u)' = Saving(u)
  BY OthersHands
<1>2. OneWriter'
  <2> SUFFICES ASSUME NEW m \in Ids \ unsure', NEW u \in Workers, NEW v \in Workers,
                      m \in Saving(u)', m \in Saving(v)'
               PROVE  u = v
    BY DEF OneWriter
  <2>1. ASSUME NEW w \in Workers, w # t, m \in Saving(t)', m \in Saving(w) PROVE FALSE
    <3>1. m \in SavedByOthers(t)
      BY <2>1 DEF SavedByOthers
    <3> QED
      BY <2>1, <3>1 DEF WriterInv, OneWriter
  <2> QED
    BY <1>1, <2>1 DEF WriterInv, OneWriter
<1>3. NoWriter'
  <2> SUFFICES ASSUME NEW m \in removed' \ unsure', NEW u \in Workers, m \in Writes(u)'
               PROVE  FALSE
    BY DEF NoWriter
  <2>1. CASE u = t
    BY <2>1
  <2>2. CASE u # t
    <3>1. m \in Writes(u) /\ m \in WrittenByOthers(t)
      BY <1>1, <2>2 DEF WrittenByOthers
    <3> QED
      BY <3>1 DEF WriterInv, NoWriter
  <2> QED
    BY <2>1, <2>2
<1> QED
  BY <1>2, <1>3 DEF WriterInv

LEMMA WriterNext ==
    ASSUME IndexInv, Books, Jobs, WriterInv, Next
    PROVE  WriterInv'
<1>0. TypeInv
  BY DEF IndexInv
<1>1. ASSUME NEW t \in Threads, Call(t) PROVE WriterInv'
  BY <1>0, <1>1, CallHands, WriterStep
<1>2. ASSUME NEW t \in Workers, Step(t) PROVE WriterInv'
  <2>1. Calms(t)
    BY <1>0, <1>2, StepHands
  <2>2. CASE Insert(t)
    <3>1. PICK old \in SUBSET byID :
             /\ msg[t] \notin byID /\ removed' = removed \cup old
             /\ unsure' = unsure \cup (old \cap WrittenByOthers(t))
      BY <2>2, InsertBrief
    <3>2. Writes(t) = {msg[t]} /\ msg[t] \notin removed
      BY <2>2 DEF Insert, Writes, Jobs, Job
    <3> QED
      BY <2>1, <3>1, <3>2, WriterStep DEF Calms
  <2>3. CASE ~ Insert(t)
    <3>1. removed' = removed
      BY <1>2, <2>3 DEF Step, Write, Swap, Stat, Marshal, Create, Fill, Rename,
                        WriteFails, Unlink, Return, ghosts
    <3>2. \A m \in Writes(t)' : m \notin removed' \/ m \in unsure'
      BY <2>1, <3>1 DEF Calms, WriterInv, NoWriter
    <3> QED
      BY <2>1, <3>1, <3>2, WriterStep DEF Calms
  <2> QED
    BY <2>2, <2>3
<1>3. ASSUME Load \/ Crash PROVE WriterInv'
  BY <1>3, NobodyWrites DEF WriterInv, OneWriter, NoWriter, Load
<1>4. ASSUME NEW x \in Ids, Decay(x) PROVE WriterInv'
  BY <1>4 DEF Decay, threads, WriterInv, OneWriter, NoWriter, Saving, Writes
<1> QED
  BY <1>1, <1>2, <1>3, <1>4 DEF Next
-----------------------------------------------------------------------------
(* Books and jobs                                                          *)

LEMMA UnlinkBrief ==
    ASSUME TypeInv, Jobs, NEW t \in Workers, Unlink(t)
    PROVE  LET m == Head(todo[t]) IN
             /\ m \in removed /\ m \in Ids /\ ToSet(todo'[t]) \subseteq removed
             /\ \/ part[t] = "eml" /\ pc'[t] = "unlink" /\ gone' = gone
                \/ part[t] = "json" /\ pc'[t] \in {"unlink", "return"} /\ gone' = gone \cup {m}
             /\ \/ file' = Unlinked(part[t], m) /\ unsure' = unsure
                \/ unsure' = unsure \cup {m} /\ file' = file /\ fd' = fd
             /\ \A u \in Workers : fd'[u] = fd[u] \/ (fd[u] = "final" /\ msg[u] = m)
             /\ op'[t] = op[t] /\ msg'[t] = msg[t] /\ pc[t] = "unlink" /\ Others(t)
             /\ UNCHANGED <<memory, tmp, up, issued, acked, removed>>
<1> DEFINE m == Head(todo[t])
<1>1. /\ pc[t] = "unlink" /\ UNCHANGED <<memory, tmp, up, buf, issued, acked, removed>>
      /\ part[t] \in Kinds
  BY DEF Unlink, TypeInv, TypeOK
<1>2. todo[t] \in Seq(Ids) /\ todo[t] # <<>> /\ ToSet(todo[t]) \subseteq removed
  BY <1>1 DEF TypeInv, TypeOK, WorkerOK, Jobs, Job, Unlinks
<1>3. ToSet(todo[t]) = {m} \cup ToSet(Tail(todo[t]))
  BY <1>2, HeadAndTail
<1>4. m \in removed /\ m \in Ids
  BY <1>2, <1>3 DEF TypeInv, TypeOK
<1>5. /\ \/ file' = Unlinked(part[t], m) /\ unsure' = unsure
         \/ unsure' = unsure \cup {m} /\ file' = file /\ fd' = fd
      /\ \A u \in Workers : fd'[u] = fd[u] \/ (fd[u] = "final" /\ msg[u] = m)
  BY DEF Unlink
<1> HIDE DEF m
<1>6. CASE part[t] = "eml"
  <2>1. /\ part' = [part EXCEPT ![t] = "json"] /\ UNCHANGED <<pc, op, msg, todo, gone>>
    BY <1>6 DEF Unlink
  <2>2. Others(t)
    BY <1>1, <2>1 DEF Others, TypeInv, TypeOK
  <2> QED
    BY <1>1, <1>2, <1>3, <1>4, <1>5, <1>6, <2>1, <2>2 DEF m
<1>7. CASE part[t] = "json"
  <2>1. PICK step \in {"return", "unlink"} :
          Begin(t, op[t], msg[t], Tail(todo[t]), step) /\ gone' = gone \cup {m}
    BY <1>7 DEF Unlink, m
  <2>2. /\ pc'[t] = step /\ op'[t] = op[t] /\ msg'[t] = msg[t] /\ todo'[t] = Tail(todo[t])
        /\ Others(t)
    BY <1>1, <2>1, BeginFacts DEF Others
  <2> QED
    BY <1>1, <1>2, <1>3, <1>4, <1>5, <1>7, <2>1, <2>2 DEF m
<1> QED
  BY <1>1, <1>6, <1>7 DEF Kinds

\* What a start does, in short.
Started(found, old) ==
    /\ found \subseteq issued /\ byID' = found \ old
    /\ removed' = (removed \ found) \cup old /\ gone' = gone \ found
    /\ acked' = acked \cup found
    /\ unsure' = {m \in unsure : m \notin found \/ file["eml"][m] # "raw"}
    /\ read' = [m \in Ids |-> m \in found /\ file["json"][m] = "read"]
    /\ up = "down" /\ up' # "down" /\ UNCHANGED <<disk, fd, issued>>
    /\ \A t \in Workers :
         /\ pc[t] = "idle" /\ op'[t] # "Deliver"
         /\ \/ pc'[t] = "idle" /\ op'[t] = "none"
            \/ pc'[t] = "unlink" /\ ToSet(todo'[t]) = old

LEMMA LoadBrief ==
    ASSUME IndexInv, Jobs, NEW found \in SUBSET Loadables, Restore(found)
    PROVE  \E old \in SUBSET found : Started(found, old)
<1>1. /\ up = "down" /\ UNCHANGED <<disk, fd, issued>>
      /\ acked' = acked \cup found /\ gone' = gone \ found
      /\ unsure' = {m \in unsure : m \notin found \/ file["eml"][m] # "raw"}
      /\ read' = [m \in Ids |-> m \in found /\ file["json"][m] = "read"]
  BY DEF Restore
<1>2. /\ \A t \in Workers : pc[t] = "idle" /\ op[t] = "none"
      /\ Main \in Workers /\ TypeInv
  BY <1>1 DEF IndexInv, DownIsIdle, Jobs, Job, Workers
<1>3. found \subseteq issued
  <2>1. \A m \in found : m \in Ids /\ file["eml"][m] # "none"
    BY DEF Loadables, Loadable
  <2> QED
    BY <2>1 DEF IndexInv, FilesIssued, Kinds
<1>4. PICK old \in SUBSET found :
        /\ byID' = found \ old /\ removed' = (removed \ found) \cup old
        /\ IF old = {}
           THEN up' = "up" /\ UNCHANGED <<pc, op, msg, todo, part>>
           ELSE /\ up' = "loading"
                /\ \E order \in Listings(old, ByID) : Begin(Main, "load", NoMsg, order, "unlink")
  <2> DEFINE foundIn(mb) == {m \in found : Home[m] = mb}
             byMailbox == UNION {Listings(foundIn(mb), ByID) : mb \in Mailboxes}
  <2>1. PICK list \in [Mailboxes -> byMailbox] :
          /\ \A mb \in Mailboxes : list[mb] \in Listings(foundIn(mb), ByID)
          /\ LET old == UNION {ToSet(Evicted(list[mb])) : mb \in Mailboxes}
             IN  /\ byID' = found \ old /\ removed' = (removed \ found) \cup old
                 /\ IF old = {}
                    THEN up' = "up" /\ UNCHANGED <<pc, op, msg, todo, part>>
                    ELSE /\ up' = "loading"
                         /\ \E order \in Listings(old, ByID) :
                              Begin(Main, "load", NoMsg, order, "unlink")
    BY DEF Restore
  <2>2. ASSUME NEW mb \in Mailboxes PROVE ToSet(Evicted(list[mb])) \subseteq found
    <3> DEFINE S == {m \in found : Home[m] = mb}
               s == list[mb]
    <3>1. S \in SUBSET {m \in Ids : Home[m] = mb} /\ S \subseteq found
      BY DEF Loadables
    <3>2. s \in Listings(S, ByID)
      BY <2>1
    <3> HIDE DEF S, s
    <3>3. s \in Seq(Ids) /\ ToSet(s) = S /\ IsInjective(s)
      BY <3>1, <3>2, ListingInjective
    <3>4. ToSet(Evicted(s)) \subseteq S
      BY <3>3, EvictionSplits
    <3> QED
      BY <3>1, <3>4 DEF s
  <2> DEFINE old == UNION {ToSet(Evicted(list[mb])) : mb \in Mailboxes}
  <2>3. old \in SUBSET found
    BY <2>2
  <2> QED
    BY <2>1, <2>3
<1>5. CASE old = {}
  BY <1>1, <1>2, <1>3, <1>4, <1>5 DEF Started
<1>6. CASE old # {}
  <2>1. PICK order \in Listings(old, ByID) : Begin(Main, "load", NoMsg, order, "unlink")
    BY <1>4, <1>6
  <2>2. old \in SUBSET Ids
    BY <1>4 DEF Loadables
  <2>3. ToSet(order) = old
    BY <2>2, ListingType
  <2>4. /\ pc'[Main] = "unlink" /\ op'[Main] = "load" /\ ToSet(todo'[Main]) = old
        /\ \A u \in Workers \ {Main} : pc'[u] = pc[u] /\ op'[u] = op[u]
    BY <1>2, <2>1, <2>3, BeginFacts
  <2> QED
    BY <1>1, <1>2, <1>3, <1>4, <1>6, <2>4 DEF Started
<1> QED
  BY <1>5, <1>6

\* The jobs of the goroutines that do not move.
LEMMA BooksStep ==
    ASSUME IndexInv, Jobs, NEW t \in Workers, Others(t), Job(t)',
           removed \subseteq removed', removed' \subseteq removed \cup byID,
           byID \subseteq byID' \cup removed', acked' \subseteq acked \cup byID \cup removed,
           removed' \cap byID' = {}, gone' \subseteq removed', removed' \cup acked' \subseteq issued',
           up' # "down"
    PROVE  Books' /\ Jobs'
<1>1. ASSUME NEW u \in Workers, u # t PROVE Job(u)'
  <2>1. Unlinks(u)' = Unlinks(u)
    BY <1>1, OthersHands
  <2>2. pc[u] = "insert" => msg[u] \notin byID
    BY DEF IndexInv, FreshInserts
  <2>3. /\ pc'[u] = pc[u] /\ op'[u] = op[u] /\ msg'[u] = msg[u]
        /\ todo'[u] = todo[u] /\ part'[u] = part[u]
    BY <1>1 DEF Others
  <2>4. Job(u)
    BY DEF Jobs
  <2> QED
    BY <2>1, <2>2, <2>3, <2>4 DEF Job
<1> QED
  BY <1>1 DEF Books, Jobs

LEMMA BooksCall ==
    ASSUME IndexInv, Books, Jobs, NEW t \in Threads, Call(t)
    PROVE  Books' /\ Jobs'
<1>0. TypeInv /\ byID \subseteq issued
  BY DEF IndexInv
<1>e. ToSet(<<>>) = {}
  BY DEF ToSet
<1>1. CASE Deliver(t)
  <2>1. PICK m \in Ids \ issued :
             /\ issued' = issued \cup {m} /\ msg'[t] = m /\ todo'[t] = <<>>
             /\ pc'[t] = "insert" /\ op'[t] = "Deliver" /\ part'[t] = "eml"
             /\ t \in Workers /\ Others(t) /\ up' = "up"
             /\ UNCHANGED <<memory, acked, removed, gone>>
    BY <1>0, <1>1, DeliverBrief
  <2>2. m \notin acked \cup removed
    BY DEF Books
  <2>3. Job(t)'
    BY <1>e, <2>1, <2>2 DEF Job, Unlinks
  <2> QED
    BY <2>1, <2>3, BooksStep DEF Books, memory
<1>2. CASE MarkRead(t)
  <2>1. /\ todo'[t] = <<>> /\ pc'[t] = "swap" /\ op'[t] = "MarkRead" /\ part'[t] = "eml"
        /\ t \in Workers /\ Others(t) /\ up' = "up"
        /\ UNCHANGED <<byID, issued, acked, removed, gone>>
    BY <1>0, <1>2, MarkReadBrief DEF memory, ghosts
  <2>2. Job(t)'
    BY <2>1 DEF Job, Unlinks
  <2> QED
    BY <2>1, <2>2, BooksStep DEF Books
<1>3. CASE MarkAllRead(t)
  <2>1. /\ pc'[t] \in {"stat", "return"} /\ op'[t] = "MarkAllRead" /\ part'[t] = "eml"
        /\ t \in Workers /\ Others(t) /\ up' = "up"
        /\ UNCHANGED <<byID, issued, acked, removed, gone>>
    BY <1>0, <1>3, MarkAllReadBrief
  <2>2. Job(t)'
    BY <2>1 DEF Job, Unlinks
  <2> QED
    BY <2>1, <2>2, BooksStep DEF Books
<1>4. CASE Delete(t) \/ Clear(t)
  <2>1. PICK S \in SUBSET byID :
             /\ byID' = byID \ S /\ removed' = removed \cup S
             /\ ToSet(todo'[t]) = S /\ pc'[t] \in {"unlink", "return"}
             /\ op'[t] \in {"Delete", "Clear"} /\ part'[t] = "eml"
             /\ t \in Workers /\ Others(t) /\ up' = "up"
             /\ UNCHANGED <<issued, acked, gone>>
    BY <1>0, <1>4, RemovalBrief
  <2>2. Job(t)'
    BY <2>1 DEF Job, Unlinks
  <2> QED
    BY <1>0, <2>1, <2>2, BooksStep DEF Books
<1> QED
  BY <1>1, <1>2, <1>3, <1>4 DEF Call

LEMMA BooksOfStep ==
    ASSUME IndexInv, Books, Jobs, NEW t \in Workers, Step(t)
    PROVE  Books' /\ Jobs'
<1>0. TypeInv /\ byID \subseteq issued /\ Job(t)
  BY DEF IndexInv, Jobs
<1>e. ToSet(<<>>) = {}
  BY DEF ToSet
<1>u. up # "down"
  <2>1. pc[t] # "idle"
    BY DEF Step, Write, Insert, Swap, Stat, Marshal, Create, Fill, Rename, WriteFails,
           Unlink, Return
  <2> QED
    BY <2>1 DEF IndexInv, DownIsIdle
<1>1. CASE Insert(t)
  <2>1. PICK old \in SUBSET byID :
             /\ msg[t] \notin byID /\ msg[t] \in issued
             /\ byID' = (byID \cup {msg[t]}) \ old
             /\ removed' = removed \cup old
             /\ ToSet(todo'[t]) = old /\ pc'[t] = IF Persist THEN "stat" ELSE "return"
             /\ op' = op /\ msg' = msg /\ part' = part /\ Others(t)
    BY <1>1, InsertBrief
  <2>2. /\ pc[t] = "insert" /\ up' = up /\ UNCHANGED <<issued, acked, gone>>
    BY <1>1 DEF Insert
  <2>3. op[t] = "Deliver" /\ part[t] = "eml" /\ msg[t] \notin removed
    BY <1>0, <2>2 DEF Job
  <2>4. Job(t)'
    BY <2>1, <2>3 DEF Job, Unlinks
  <2> QED
    BY <1>0, <1>u, <2>1, <2>2, <2>3, <2>4, BooksStep DEF Books
<1>2. ASSUME Others(t), UNCHANGED <<byID, issued, acked, removed, gone, up>>, Job(t)'
      PROVE  Books' /\ Jobs'
  BY <1>0, <1>u, <1>2, BooksStep DEF Books
<1>3. CASE Swap(t)
  <2>1. /\ pc[t] = "swap" /\ UNCHANGED <<op, msg, todo, part, buf>>
        /\ UNCHANGED <<byID, issued, acked, removed, gone, up>>
        /\ pc'[t] \in {"return", "stat"} /\ \A u \in Workers \ {t} : pc'[u] = pc[u]
    BY <1>0, <1>3, GotoFacts DEF Swap
  <2>2. Others(t) /\ Job(t)'
    BY <1>0, <2>1 DEF Others, Job, Unlinks
  <2> QED
    BY <1>2, <2>1, <2>2
<1>4. CASE Stat(t) \/ Marshal(t) \/ Create(t) \/ Fill(t)
  <2>1. /\ pc[t] \in {"stat", "marshal", "create", "fill"}
        /\ pc'[t] \in {"create", "marshal", "fill", "rename"}
        /\ op' = op /\ msg' = msg /\ todo' = todo
        /\ UNCHANGED <<byID, issued, acked, removed, gone, up>>
        /\ \A u \in Workers \ {t} : pc'[u] = pc[u] /\ part'[u] = part[u] /\ buf'[u] = buf[u]
    BY <1>0, <1>4, GotoFacts DEF Stat, Marshal, Create, Fill, TypeInv, TypeOK, memory, ghosts
  <2>2. Others(t) /\ Job(t)'
    BY <1>0, <2>1 DEF Others, Job, Unlinks
  <2> QED
    BY <1>2, <2>1, <2>2
<1>5. ASSUME Written(t), UNCHANGED buf, pc[t] \in {"create", "fill", "rename"},
             UNCHANGED <<byID, issued, acked, removed, gone, up>>
      PROVE  Books' /\ Jobs'
  <2>1. Others(t) /\ op'[t] = op[t] /\ part'[t] = "eml"
    BY <1>0, <1>5, WrittenFacts
  <2>2. Job(t)'
    BY <1>0, <1>5, <2>1, WrittenFacts DEF Job, Unlinks
  <2> QED
    BY <1>2, <1>5, <2>1, <2>2
<1>6. ASSUME End(t), UNCHANGED <<byID, issued, removed, gone>>, up' # "down",
             acked' \subseteq acked \cup byID \cup removed
      PROVE  Books' /\ Jobs'
  <2>1. Others(t) /\ Job(t)'
    BY <1>0, <1>6, <1>e, EndFacts DEF Job, Unlinks
  <2> QED
    BY <1>0, <1>6, <2>1, BooksStep DEF Books
<1>7. CASE Rename(t)
  <2>1. /\ pc[t] = "rename" /\ buf' = buf /\ UNCHANGED <<byID, issued, acked, removed, gone, up>>
    BY <1>7 DEF Rename, memory, ghosts
  <2>2. CASE part[t] = "eml"
    <3>1. Begin(t, op[t], msg[t], todo[t], "marshal")
      BY <1>7, <2>2 DEF Rename
    <3>2. /\ pc'[t] = "marshal" /\ op'[t] = op[t] /\ msg'[t] = msg[t] /\ todo'[t] = todo[t]
          /\ Others(t)
      BY <1>0, <2>1, <3>1, BeginFacts DEF Others
    <3>3. Job(t)'
      BY <1>0, <2>1, <3>2 DEF Job, Unlinks
    <3> QED
      BY <1>2, <2>1, <3>2, <3>3
  <2>3. CASE part[t] # "eml"
    BY <1>5, <1>7, <2>1, <2>3 DEF Rename
  <2> QED
    BY <2>2, <2>3
<1>8. CASE WriteFails(t)
  <2>1. /\ pc[t] \in {"create", "fill", "rename"}
        /\ UNCHANGED <<byID, issued, acked, removed, gone, up>>
    BY <1>8 DEF WriteFails, memory
  <2> QED
    BY <1>5, <1>6, <1>8, <1>u, <2>1 DEF WriteFails
<1>9. CASE Unlink(t)
  <2>1. /\ ToSet(todo'[t]) \subseteq removed /\ Head(todo[t]) \in removed
        /\ gone' \subseteq gone \cup {Head(todo[t])}
        /\ pc'[t] \in {"unlink", "return"} /\ pc[t] = "unlink"
        /\ op'[t] = op[t] /\ msg'[t] = msg[t] /\ Others(t)
        /\ UNCHANGED <<byID, up, issued, acked, removed>>
    BY <1>0, <1>9, UnlinkBrief DEF memory
  <2>2. Job(t)'
    BY <1>0, <2>1 DEF Job, Unlinks
  <2> QED
    BY <1>0, <1>u, <2>1, <2>2, BooksStep DEF Books
<1>10. CASE Return(t)
  <2>1. /\ pc[t] = "return" /\ End(t) /\ UNCHANGED <<byID, issued, removed, gone>>
        /\ acked' = IF op[t] = "Deliver" THEN acked \cup {msg[t]} ELSE acked
        /\ up' \in {"up", up}
    BY <1>10 DEF Return, memory
  <2>2. op[t] = "Deliver" => msg[t] \in byID \cup removed
    BY <1>0, <2>1 DEF Job
  <2> QED
    BY <1>6, <1>u, <2>1, <2>2
<1> QED
  BY <1>1, <1>3, <1>4, <1>7, <1>8, <1>9, <1>10 DEF Step, Write

LEMMA BooksNext ==
    ASSUME IndexInv, Books, Jobs, Next
    PROVE  Books' /\ Jobs'
<1>1. ASSUME NEW found \in SUBSET Loadables, Restore(found) PROVE Books' /\ Jobs'
  <2>0. PICK old \in SUBSET found : Started(found, old)
    BY <1>1, LoadBrief
  <2>1. /\ found \subseteq issued /\ byID' = found \ old
        /\ removed' = (removed \ found) \cup old /\ gone' = gone \ found
        /\ acked' = acked \cup found /\ up' # "down" /\ issued' = issued
        /\ \A t \in Workers :
             /\ op'[t] # "Deliver"
             /\ \/ pc'[t] = "idle" /\ op'[t] = "none"
                \/ pc'[t] = "unlink" /\ ToSet(todo'[t]) = old
    BY <2>0 DEF Started
  <2>2. Jobs'
    BY <2>1 DEF Jobs, Job, Unlinks
  <2> QED
    BY <2>1, <2>2 DEF Books
<1>2. CASE Crash
  <2>1. Jobs'
    BY <1>2 DEF Crash, Jobs, Job, Unlinks
  <2>2. Books'
    BY <1>2 DEF Crash, Books, ghosts
  <2> QED
    BY <2>1, <2>2
<1>3. ASSUME NEW x \in Ids, Decay(x) PROVE Books' /\ Jobs'
  BY <1>3 DEF Decay, memory, threads, Books, Jobs, Job, Unlinks
<1> QED
  BY <1>1, <1>2, <1>3, BooksCall, BooksOfStep DEF Next, Load
-----------------------------------------------------------------------------
(* What a step does to the files                                           *)

\* Whoever is in the middle of a write is alone with the message, unless it is
\* unsure.
Busy(u) == pc[u] = "marshal" \/ Putting(u) \/ pc[u] = "fill"

LEMMA BusyAlone ==
    ASSUME WriterInv, TypeInv, NEW t \in Workers, NEW u \in Workers \ {t}, Busy(u),
           msg[u] \notin unsure
    PROVE  msg[u] \in Ids /\ msg[u] \in Saving(u) /\ msg[u] \notin Saving(t) \cup removed
<1>1. msg[u] \in Ids /\ msg[u] \in Saving(u) /\ msg[u] \in Writes(u)
  BY DEF Busy, Putting, Saving, Writes, TypeInv, WorkerOK, Writing
<1> QED
  BY <1>1 DEF WriterInv, OneWriter, NoWriter

\* One file changes, the others do not.
LEMMA OneFile ==
    ASSUME NEW f \in [Kinds -> [Ids -> Contents]], NEW k \in Kinds, NEW m \in Ids, NEW v
    PROVE  LET g == [f EXCEPT ![k][m] = v] IN
             /\ g[k][m] = v
             /\ \A j \in Kinds, x \in Ids : j # k \/ x # m => g[j][x] = f[j][x]
OBVIOUS

\* A step writes only to what its goroutine saves or has removed, and moves no
\* other open file.
LEMMA StepSpares ==
    ASSUME TypeInv, Jobs, InHands, NEW t \in Workers, Step(t)
    PROVE  /\ unsure \subseteq unsure'
           /\ \A x \in Ids \ (Saving(t) \cup removed) :
                \A k \in Kinds : file'[k][x] = file[k][x] /\ tmp'[k][x] = tmp[k][x]
           /\ \A u \in Workers \ {t} :
                /\ msg[u] \notin Saving(t) \cup removed => fd'[u] = fd[u]
                /\ fd[u] = "none" => fd'[u] = "none"
           /\ \A x \in Ids : read'[x] = read[x] \/ x \in unsure' \/ x \notin SavedByOthers(t)
<1>1. CASE Insert(t)
  BY <1>1 DEF Insert, TakeOut, disk
<1>2. CASE Swap(t)
  BY <1>2 DEF Swap, disk, TypeInv, TypeOK
<1>3. CASE Stat(t) \/ Marshal(t)
  BY <1>3 DEF Stat, Marshal, disk, memory, ghosts
<1>4. CASE Create(t) \/ Fill(t) \/ Rename(t)
  <2>1. /\ pc[t] \in {"create", "fill", "rename"} /\ read' = read /\ unsure' = unsure
    BY <1>4 DEF Create, Fill, Rename, memory, ghosts
  <2>2. msg[t] \in Saving(t)
    BY <2>1 DEF Saving, Writes
  <2>3. /\ \A x \in Ids : x # msg[t] =>
                \A k \in Kinds : file'[k][x] = file[k][x] /\ tmp'[k][x] = tmp[k][x]
        /\ \A u \in Workers \ {t} :
                /\ msg[u] # msg[t] => fd'[u] = fd[u]
                /\ fd[u] = "none" => fd'[u] = "none"
    <3> DEFINE k == part[t]
               m == msg[t]
    <3>1. k \in Kinds /\ m \in Ids /\ \A j \in Kinds : file[j] \in [Ids -> Contents]
      BY <2>1 DEF TypeInv, TypeOK, WorkerOK, Writing
    <3>2. /\ file' = file \/ \E v : file' = [file EXCEPT ![k][m] = v]
          /\ tmp' = tmp \/ \E v : tmp' = [tmp EXCEPT ![k][m] = v]
      <4>1. CASE Create(t)
        <5>1. file' = file /\ tmp' = [tmp EXCEPT ![k][m] = "torn"]
          BY <4>1 DEF Create
        <5> QED
          BY <5>1
      <4>2. CASE Fill(t)
        <5>1. /\ file' = file \/ file' = [file EXCEPT ![k][m] = Overlay(file[k][m], buf[t])]
              /\ tmp' = tmp \/ tmp' = [tmp EXCEPT ![k][m] = Overlay(tmp[k][m], buf[t])]
          BY <4>2 DEF Fill
        <5> HIDE DEF k, m
        <5> QED
          BY <5>1
      <4>3. CASE Rename(t)
        <5>1. file' = [file EXCEPT ![k][m] = tmp[k][m]] /\ tmp' = [tmp EXCEPT ![k][m] = "none"]
          BY <4>3 DEF Rename
        <5> HIDE DEF k, m
        <5> QED
          BY <5>1
      <4> QED
        BY <1>4, <4>1, <4>2, <4>3
    <3>3. \A u \in Workers \ {t} :
                /\ msg[u] # m => fd'[u] = fd[u]
                /\ fd[u] = "none" => fd'[u] = "none"
      <4>1. CASE Create(t) \/ Fill(t)
        BY <4>1 DEF Create, Fill, TypeInv, TypeOK
      <4>2. CASE Rename(t)
        BY <4>2 DEF Rename, Moved
      <4> QED
        BY <1>4, <4>1, <4>2
    <3>4. file \in [Kinds -> [Ids -> Contents]] /\ tmp \in [Kinds -> [Ids -> Contents]]
      BY DEF TypeInv, TypeOK
    <3> HIDE DEF k, m
    <3>5. \A x \in Ids : x # m =>
                \A j \in Kinds : file'[j][x] = file[j][x] /\ tmp'[j][x] = tmp[j][x]
      BY <3>1, <3>2, <3>4, OneFile
    <3> QED
      BY <3>3, <3>5 DEF m
  <2> QED
    BY <2>1, <2>2, <2>3
<1>5. CASE WriteFails(t)
  <2>1. read' = read /\ unsure' = unsure \cup {msg[t]} /\ UNCHANGED disk
    BY <1>5 DEF WriteFails, memory
  <2>2. \A u \in Workers \ {t} : fd'[u] = fd[u]
    BY <1>5 DEF WriteFails, End, TypeInv, TypeOK
  <2> QED
    BY <2>1, <2>2 DEF disk
<1>6. CASE Unlink(t)
  <2> DEFINE m == Head(todo[t])
  <2>1. /\ m \in removed /\ m \in Ids /\ read' = read /\ tmp' = tmp
        /\ \/ file' = Unlinked(part[t], m) /\ unsure' = unsure
           \/ unsure' = unsure \cup {m} /\ file' = file /\ fd' = fd
        /\ \A u \in Workers : fd'[u] = fd[u] \/ (fd[u] = "final" /\ msg[u] = m)
    BY <1>6, UnlinkBrief DEF memory
  <2> HIDE DEF m
  <2>2. \A x \in Ids : x # m => \A k \in Kinds : file'[k][x] = file[k][x]
    <3>1. part[t] \in Kinds /\ file \in [Kinds -> [Ids -> Contents]]
      BY DEF TypeInv, TypeOK
    <3> QED
      BY <2>1, <3>1, OneFile DEF Unlinked
  <2> QED
    BY <2>1, <2>2
<1>7. CASE Return(t)
  <2>1. UNCHANGED <<read, disk, unsure>> /\ \A u \in Workers \ {t} : fd'[u] = fd[u]
    BY <1>7, EndFacts DEF Return, memory
  <2> QED
    BY <2>1 DEF disk
<1> QED
  BY <1>1, <1>2, <1>3, <1>4, <1>5, <1>6, <1>7 DEF Step, Write

\* What the goroutine itself has in hand after its step.
LEMMA OwnHand ==
    ASSUME TypeInv, Jobs, InHands, Whole, NEW t \in Workers, Step(t)
    PROVE  (pc'[t] # "fill" => fd'[t] = "none") /\ (msg'[t] \notin unsure' => InHand(t)')
<1>0. Job(t) /\ (pc[t] # "fill" => fd[t] = "none") /\ (msg[t] \notin unsure => InHand(t))
  BY DEF Jobs, InHands
<1>1. ASSUME pc'[t] \in {"idle", "stat", "unlink", "return"}, fd'[t] = "none"
      PROVE  (pc'[t] # "fill" => fd'[t] = "none") /\ (msg'[t] \notin unsure' => InHand(t)')
  BY <1>1 DEF InHand, Putting
<1>2. CASE Insert(t)
  <2>1. pc[t] = "insert" /\ fd' = fd /\ pc'[t] \in {"stat", "return"}
    BY <1>2 DEF Insert, Goto, TypeInv, TypeOK
  <2> QED
    BY <1>0, <1>1, <2>1
<1>3. CASE Swap(t)
  <2>1. pc[t] = "swap" /\ fd' = fd /\ pc'[t] \in {"stat", "return"}
    BY <1>3 DEF Swap, Goto, TypeInv, TypeOK
  <2> QED
    BY <1>0, <1>1, <2>1
<1>4. CASE Stat(t)
  <2>1. /\ pc[t] = "stat" /\ fd' = fd /\ UNCHANGED <<file, tmp, msg, part, unsure>>
        /\ msg[t] \in Ids
        /\ \/ pc'[t] = "create" /\ buf'[t] = "raw"
           \/ pc'[t] = "marshal" /\ file["eml"][msg[t]] # "none"
    BY <1>4 DEF Stat, Goto, TypeInv, TypeOK, WorkerOK, Writing, disk, ghosts
  <2>2. part[t] = "eml"
    BY <1>0, <2>1 DEF Job
  <2>3. msg[t] \notin unsure /\ pc'[t] = "marshal" => file["eml"][msg[t]] = "raw"
    BY <2>1 DEF Whole
  <2> QED
    BY <1>0, <2>1, <2>2, <2>3 DEF InHand, Putting
<1>5. CASE Marshal(t)
  <2>1. /\ pc[t] = "marshal" /\ fd' = fd /\ UNCHANGED <<file, msg, unsure, read>>
        /\ pc'[t] = "create" /\ buf'[t] = Flag(read[msg[t]]) /\ part'[t] = "json"
    BY <1>5 DEF Marshal, Goto, TypeInv, TypeOK, memory, disk, ghosts
  <2> QED
    BY <1>0, <2>1 DEF InHand, Putting
<1>6. CASE Create(t)
  <2>1. /\ pc[t] = "create" /\ pc'[t] = "fill" /\ UNCHANGED <<file, msg, part, buf, unsure, read>>
        /\ fd'[t] = "tmp" /\ tmp'[part[t]][msg[t]] = "torn"
    BY <1>6 DEF Create, Goto, TypeInv, TypeOK, WorkerOK, Writing, memory, ghosts
  <2> QED
    BY <1>0, <2>1 DEF InHand, Putting
<1>7. CASE Fill(t)
  <2>1. /\ pc[t] = "fill" /\ pc'[t] = "rename" /\ UNCHANGED <<msg, part, buf, unsure, read>>
        /\ fd'[t] = "none" /\ part[t] \in Kinds /\ msg[t] \in Ids
        /\ (fd[t] = "tmp" =>
              file' = file /\ tmp'[part[t]][msg[t]] = Overlay(tmp[part[t]][msg[t]], buf[t]))
    BY <1>7 DEF Fill, Goto, TypeInv, TypeOK, WorkerOK, Writing, memory, ghosts
  <2>2. Overlay("torn", buf[t]) = buf[t]
    BY DEF Overlay
  <2> QED
    BY <1>0, <2>1, <2>2 DEF InHand, Putting
<1>8. ASSUME Written(t), UNCHANGED buf, fd'[t] = "none"
      PROVE  (pc'[t] # "fill" => fd'[t] = "none") /\ (msg'[t] \notin unsure' => InHand(t)')
  BY <1>1, <1>8, WrittenFacts
<1>9. CASE Rename(t)
  <2>1. /\ pc[t] = "rename" /\ UNCHANGED <<buf, unsure, read>>
        /\ file' = [file EXCEPT ![part[t]][msg[t]] = tmp[part[t]][msg[t]]]
        /\ part[t] \in Kinds /\ msg[t] \in Ids /\ fd' = Moved(part[t], msg[t])
    BY <1>9 DEF Rename, TypeInv, TypeOK, WorkerOK, Writing, memory, ghosts
  <2>2. fd'[t] = "none"
    BY <1>0, <2>1 DEF Moved
  <2>3. CASE part[t] = "eml"
    <3>1. Begin(t, op[t], msg[t], todo[t], "marshal")
      BY <1>9, <2>3 DEF Rename
    <3>2. pc'[t] = "marshal" /\ msg'[t] = msg[t]
      BY <3>1, BeginFacts
    <3>3. file'["eml"][msg[t]] = tmp["eml"][msg[t]]
      BY <2>1, <2>3 DEF TypeInv, TypeOK
    <3> QED
      BY <1>0, <2>1, <2>2, <2>3, <3>2, <3>3 DEF InHand, Putting
  <2>4. CASE part[t] # "eml"
    BY <1>8, <1>9, <2>1, <2>2, <2>4 DEF Rename
  <2> QED
    BY <2>3, <2>4
<1>10. CASE WriteFails(t)
  <2>1. CASE op[t] = "Deliver"
    BY <1>1, <1>10, <2>1, EndFacts DEF WriteFails
  <2>2. CASE op[t] # "Deliver"
    BY <1>8, <1>10, <2>2 DEF WriteFails, TypeInv, TypeOK
  <2> QED
    BY <2>1, <2>2
<1>11. CASE Unlink(t)
  <2>1. pc[t] = "unlink" /\ pc'[t] \in {"unlink", "return"} /\ (fd'[t] = fd[t] \/ fd[t] = "final")
    BY <1>11, UnlinkBrief
  <2> QED
    BY <1>0, <1>1, <2>1
<1>12. CASE Return(t)
  BY <1>1, <1>12, EndFacts DEF Return
<1> QED
  BY <1>2, <1>3, <1>4, <1>5, <1>6, <1>7, <1>9, <1>10, <1>11, <1>12 DEF Step, Write

\* What the others have in hand.
LEMMA OtherHand ==
    ASSUME TypeInv, InHands, NEW t \in Workers, Others(t), NEW u \in Workers \ {t},
           unsure \subseteq unsure', fd[u] = "none" => fd'[u] = "none",
           Busy(u) /\ msg[u] \notin unsure' =>
             /\ \A k \in Kinds : file'[k][msg[u]] = file[k][msg[u]]
                              /\ tmp'[k][msg[u]] = tmp[k][msg[u]]
             /\ read'[msg[u]] = read[msg[u]] /\ fd'[u] = fd[u]
    PROVE  (pc'[u] # "fill" => fd'[u] = "none") /\ (msg'[u] \notin unsure' => InHand(u)')
<1>1. /\ pc'[u] = pc[u] /\ msg'[u] = msg[u] /\ part'[u] = part[u] /\ buf'[u] = buf[u]
      /\ part[u] \in Kinds
  BY DEF Others, TypeInv, TypeOK
<1>2. (pc[u] # "fill" => fd[u] = "none") /\ (msg[u] \notin unsure => InHand(u))
  BY DEF InHands
<1>3. CASE Busy(u)
  BY <1>1, <1>2, <1>3 DEF InHand, Putting, Busy, Kinds
<1>4. CASE ~ Busy(u)
  BY <1>1, <1>2, <1>4 DEF InHand, Putting, Busy
<1> QED
  BY <1>3, <1>4

LEMMA InHandsStep ==
    ASSUME IndexInv, Jobs, WriterInv, InHands, Whole, NEW t \in Workers, Step(t)
    PROVE  InHands'
<1>0. TypeInv /\ Calms(t)
  BY StepHands DEF IndexInv
<1>1. (pc'[t] # "fill" => fd'[t] = "none") /\ (msg'[t] \notin unsure' => InHand(t)')
  BY <1>0, OwnHand
<1>2. ASSUME NEW u \in Workers \ {t}
      PROVE  (pc'[u] # "fill" => fd'[u] = "none") /\ (msg'[u] \notin unsure' => InHand(u)')
  <2>1. /\ unsure \subseteq unsure' /\ (fd[u] = "none" => fd'[u] = "none")
    BY <1>0, StepSpares
  <2>2. ASSUME Busy(u), msg[u] \notin unsure'
        PROVE  /\ \A k \in Kinds : file'[k][msg[u]] = file[k][msg[u]]
                                /\ tmp'[k][msg[u]] = tmp[k][msg[u]]
               /\ read'[msg[u]] = read[msg[u]] /\ fd'[u] = fd[u]
    <3>1. msg[u] \in Ids /\ msg[u] \in Saving(u) /\ msg[u] \notin Saving(t) \cup removed
      BY <1>0, <2>1, <2>2, BusyAlone
    <3>2. msg[u] \in SavedByOthers(t)
      BY <3>1 DEF SavedByOthers
    <3> QED
      BY <1>0, <2>2, <3>1, <3>2, StepSpares
  <2> QED
    BY <1>0, <2>1, <2>2, OtherHand DEF Calms
<1> QED
  BY <1>1, <1>2 DEF InHands

LEMMA InHandsCall ==
    ASSUME IndexInv, Books, Jobs, InHands, NEW t \in Threads, Call(t)
    PROVE  InHands'
<1>0. TypeInv /\ t \in Workers
  BY DEF IndexInv, Workers
<1>1. /\ Others(t) /\ unsure \subseteq unsure' /\ fd' = fd /\ UNCHANGED disk
      /\ pc[t] = "idle" /\ pc'[t] \in {"insert", "swap", "stat", "return", "unlink"}
      /\ \A x \in Ids : read'[x] = read[x] \/ x \in unsure' \/ x \notin SavedByOthers(t)
  <2>1. CASE Deliver(t)
    BY <1>0, <2>1, DeliverBrief DEF memory
  <2>2. CASE MarkRead(t)
    BY <1>0, <2>2, MarkReadBrief DEF memory, ghosts
  <2>3. CASE MarkAllRead(t)
    <3>1. PICK changed \in SUBSET byID :
             /\ read' = [m \in Ids |-> read[m] \/ m \in changed]
             /\ unsure' = unsure \cup (changed \cap SavedByOthers(t))
             /\ pc'[t] \in {"stat", "return"} /\ Others(t) /\ pc[t] = "idle"
             /\ UNCHANGED <<disk, fd>>
      BY <1>0, <2>3, MarkAllReadBrief
    <3>2. \A x \in Ids : x \notin changed => read'[x] = read[x]
      BY <1>0, <3>1 DEF TypeInv, TypeOK
    <3> QED
      BY <3>1, <3>2
  <2>4. CASE Delete(t) \/ Clear(t)
    BY <1>0, <2>4, RemovalBrief
  <2> QED
    BY <2>1, <2>2, <2>3, <2>4 DEF Call
<1>2. (pc'[t] # "fill" => fd'[t] = "none") /\ (msg'[t] \notin unsure' => InHand(t)')
  BY <1>0, <1>1 DEF InHands, InHand, Putting
<1>3. ASSUME NEW u \in Workers \ {t}
      PROVE  (pc'[u] # "fill" => fd'[u] = "none") /\ (msg'[u] \notin unsure' => InHand(u)')
  <2>1. Busy(u) => msg[u] \in Ids /\ msg[u] \in SavedByOthers(t)
    BY <1>0 DEF Busy, Putting, SavedByOthers, Saving, Writes, TypeInv, WorkerOK, Writing
  <2> QED
    BY <1>0, <1>1, <2>1, OtherHand DEF disk
<1> QED
  BY <1>2, <1>3 DEF InHands

LEMMA InHandsNext ==
    ASSUME IndexInv, Books, Jobs, WriterInv, InHands, Whole, Next
    PROVE  InHands'
<1>1. ASSUME NEW found \in SUBSET Loadables, Restore(found) PROVE InHands'
  <2>1. fd' = fd /\ \A t \in Workers : pc[t] = "idle" /\ pc'[t] \in {"idle", "unlink"}
    BY <1>1, LoadBrief DEF Started
  <2> QED
    BY <2>1 DEF InHands, InHand, Putting
<1>2. CASE Crash
  BY <1>2 DEF Crash, InHands, InHand, Putting
<1>3. ASSUME NEW x \in Ids, Decay(x) PROVE InHands'
  BY <1>3 DEF Decay, memory, disk, threads, InHands, InHand, Putting
<1> QED
  BY <1>1, <1>2, <1>3, InHandsStep, InHandsCall DEF Next, Load
-----------------------------------------------------------------------------
(* What is on disk                                                         *)

\* A file that no race has touched changes when its one writer renames the
\* right bytes onto it, and when a message that was removed is unlinked.
Bytes(k, m) == IF k = "eml" THEN "raw" ELSE Flag(read[m])

LEMMA FileStep ==
    ASSUME TypeInv, Jobs, InHands, NEW t \in Workers, Step(t),
           NEW k \in Kinds, NEW m \in Ids \ unsure'
    PROVE  \/ file'[k][m] = file[k][m] /\ ~(Unlink(t) /\ part[t] = k /\ m = Head(todo[t]))
           \/ /\ Rename(t) /\ part[t] = k /\ msg[t] = m /\ m \in Writes(t)
              /\ file'[k][m] = Bytes(k, m) /\ (k = "json" => file["eml"][m] = "raw")
           \/ /\ Unlink(t) /\ part[t] = k /\ m = Head(todo[t]) /\ m \in removed
              /\ file'[k][m] = "none"
<1>0. m \notin unsure
  BY StepSpares
<1>t. file \in [Kinds -> [Ids -> Contents]] /\ part[t] \in Kinds
  BY DEF TypeInv, TypeOK
<1>1. CASE Insert(t) \/ Swap(t) \/ Stat(t) \/ Marshal(t) \/ WriteFails(t) \/ Return(t)
  BY <1>1 DEF Insert, Swap, Stat, Marshal, WriteFails, Return, Unlink, disk
<1>2. CASE Create(t)
  BY <1>2 DEF Create, Unlink
<1>3. CASE Fill(t)
  <2>1. /\ pc[t] = "fill" /\ msg[t] \in Ids
        /\ \/ file' = file
           \/ /\ fd[t] # "tmp"
              /\ file' = [file EXCEPT ![part[t]][msg[t]] = Overlay(file[part[t]][msg[t]], buf[t])]
    BY <1>3 DEF Fill, TypeInv, WorkerOK, Writing
  <2>2. msg[t] # m \/ file' = file
    BY <1>0, <2>1 DEF InHands, InHand
  <2>3. file'[k][m] = file[k][m]
    BY <1>t, <2>1, <2>2, OneFile
  <2> QED
    BY <2>1, <2>3 DEF Unlink
<1>4. CASE Rename(t)
  <2>1. /\ pc[t] = "rename" /\ msg[t] \in Ids
        /\ file' = [file EXCEPT ![part[t]][msg[t]] = tmp[part[t]][msg[t]]]
    BY <1>4 DEF Rename, TypeInv, WorkerOK, Writing
  <2>2. CASE part[t] = k /\ msg[t] = m
    <3>1. file'[k][m] = tmp[k][m]
      BY <1>t, <2>1, <2>2, OneFile
    <3>2. tmp[k][m] = Bytes(k, m) /\ (k = "json" => file["eml"][m] = "raw")
      BY <1>0, <2>1, <2>2 DEF InHands, InHand, Putting, Bytes, Kinds
    <3>3. m \in Writes(t)
      BY <2>1, <2>2 DEF Writes
    <3> QED
      BY <1>4, <2>2, <3>1, <3>2, <3>3
  <2>3. CASE ~(part[t] = k /\ msg[t] = m)
    <3>1. file'[k][m] = file[k][m]
      BY <1>t, <2>1, <2>3, OneFile
    <3> QED
      BY <2>1, <3>1 DEF Unlink
  <2> QED
    BY <2>2, <2>3
<1>5. CASE Unlink(t)
  <2> DEFINE h == Head(todo[t])
  <2>1. /\ h \in removed /\ h \in Ids
        /\ \/ file' = [file EXCEPT ![part[t]][h] = "none"]
           \/ unsure' = unsure \cup {h} /\ file' = file
    BY <1>5, UnlinkBrief DEF Unlinked
  <2> HIDE DEF h
  <2>2. CASE part[t] = k /\ h = m
    <3>1. file'[k][m] = "none"
      BY <1>t, <2>1, <2>2, OneFile
    <3> QED
      BY <1>5, <2>1, <2>2, <3>1 DEF h
  <2>3. CASE ~(part[t] = k /\ h = m)
    <3>1. file'[k][m] = file[k][m]
      BY <1>t, <2>1, <2>3, OneFile
    <3> QED
      BY <2>3, <3>1 DEF h
  <2> QED
    BY <2>2, <2>3
<1> QED
  BY <1>1, <1>2, <1>3, <1>4, <1>5 DEF Step, Write

\* The calls leave the files and the promises alone.
LEMMA CallSpares ==
    ASSUME IndexInv, Books, NEW t \in Threads, Call(t)
    PROVE  /\ UNCHANGED <<disk, acked, gone, up>> /\ unsure \subseteq unsure'
           /\ removed \subseteq removed' /\ byID' \subseteq byID /\ byID \subseteq byID' \cup removed'
           /\ up = "up" /\ t \in Workers /\ Others(t) /\ Saving(t) = {}
           /\ ~(op'[t] = "Deliver" /\ pc'[t] \in {"unlink", "return"})
           /\ Persist => \A m \in Ids : read'[m] = read[m] \/ m \in Saving(t)'
<1>0. TypeInv
  BY DEF IndexInv
<1>s. pc[t] = "idle" => Saving(t) = {}
  BY DEF Saving, Writes
<1>1. CASE Deliver(t)
  BY <1>0, <1>1, <1>s, DeliverBrief DEF memory
<1>2. CASE MarkRead(t)
  BY <1>0, <1>2, <1>s, MarkReadBrief DEF memory, ghosts
<1>3. CASE MarkAllRead(t)
  <2>1. PICK changed \in SUBSET byID :
             /\ read' = [m \in Ids |-> read[m] \/ m \in changed]
             /\ \/ pc'[t] = "stat" /\ {msg'[t]} \cup ToSet(todo'[t]) = changed
                \/ pc'[t] = "return" /\ (~ Persist \/ changed = {})
             /\ op'[t] = "MarkAllRead"
    BY <1>0, <1>3, MarkAllReadBrief
  <2>2. Persist => changed \subseteq Saving(t)'
    BY <2>1 DEF Saving, Writes
  <2>3. \A m \in Ids : m \notin changed => read'[m] = read[m]
    BY <1>0, <2>1 DEF TypeInv, TypeOK
  <2>4. Persist => \A m \in Ids : read'[m] = read[m] \/ m \in Saving(t)'
    BY <2>2, <2>3
  <2>5. /\ UNCHANGED <<disk, acked, gone, up, byID, removed>> /\ unsure \subseteq unsure'
        /\ up = "up" /\ t \in Workers /\ Others(t) /\ pc[t] = "idle"
    BY <1>0, <1>3, MarkAllReadBrief DEF MarkAllRead
  <2> QED
    BY <1>s, <2>1, <2>4, <2>5
<1>4. CASE Delete(t) \/ Clear(t)
  BY <1>0, <1>4, <1>s, RemovalBrief
<1> QED
  BY <1>1, <1>2, <1>3, <1>4 DEF Call

LEMMA WholeNext ==
    ASSUME IndexInv, Books, Jobs, InHands, Whole, Next
    PROVE  Whole'
<1>0. TypeInv
  BY DEF IndexInv
<1>1. ASSUME NEW t \in Threads, Call(t) PROVE Whole'
  BY <1>1, CallSpares DEF Whole, disk
<1>2. ASSUME NEW t \in Workers, Step(t) PROVE Whole'
  <2> SUFFICES ASSUME NEW m \in Ids \ unsure'
               PROVE  /\ file'["eml"][m] \in {"none", "raw"}
                      /\ file'["json"][m] \in {"none"} \cup Flags
    BY DEF Whole
  <2>1. m \notin unsure
    BY <1>0, <1>2, StepSpares
  <2>2. \A k \in Kinds : file'[k][m] \in {file[k][m], Bytes(k, m), "none"}
    BY <1>0, <1>2, FileStep
  <2>3. Bytes("eml", m) = "raw" /\ Bytes("json", m) \in Flags
    BY DEF Bytes, Flag, Flags
  <2> QED
    BY <2>1, <2>2, <2>3 DEF Whole, Kinds
<1>3. ASSUME NEW found \in SUBSET Loadables, Restore(found) PROVE Whole'
  <2>0. PICK old \in SUBSET found : Started(found, old)
    BY <1>3, LoadBrief
  <2> SUFFICES ASSUME NEW m \in Ids \ unsure'
               PROVE  /\ file["eml"][m] \in {"none", "raw"}
                      /\ file["json"][m] \in {"none"} \cup Flags
    BY <2>0 DEF Started, Whole, disk
  <2>1. m \notin unsure \/ (Loadable(m) /\ file["eml"][m] = "raw")
    BY <2>0 DEF Started, Loadables
  <2> QED
    BY <2>1 DEF Whole, Loadable
<1>4. CASE Crash
  BY <1>4 DEF Crash, Whole, disk, ghosts
<1>5. ASSUME NEW x \in Ids, Decay(x) PROVE Whole'
  BY <1>5 DEF Decay, disk, Whole
<1> QED
  BY <1>1, <1>2, <1>3, <1>4, <1>5 DEF Next, Load

LEMMA BuriedNext ==
    ASSUME IndexInv, Books, Jobs, WriterInv, InHands, Buried, Next
    PROVE  Buried'
<1>0. TypeInv
  BY DEF IndexInv
<1>1. ASSUME NEW t \in Threads, Call(t) PROVE Buried'
  BY <1>1, CallSpares DEF Buried, disk
<1>2. ASSUME NEW t \in Workers, Step(t) PROVE Buried'
  <2> SUFFICES ASSUME NEW m \in gone' \ unsure' PROVE file'["json"][m] = "none"
    BY DEF Buried
  <2>1. m \notin unsure
    BY <1>0, <1>2, StepSpares
  <2>2. m \in gone \/ (Unlink(t) /\ part[t] = "json" /\ m = Head(todo[t]))
    <3>1. CASE Unlink(t)
      BY <1>0, <3>1, UnlinkBrief
    <3>2. CASE ~ Unlink(t)
      BY <1>2, <3>2 DEF Step, Write, Insert, Swap, Stat, Marshal, Create, Fill, Rename,
                        WriteFails, Return, ghosts
    <3> QED
      BY <3>1, <3>2
  <2>3. m \in Ids /\ m \in removed
    <3>1. m \in gone => m \in removed
      BY DEF Books
    <3>2. Unlink(t) => Head(todo[t]) \in removed
      BY <1>0, UnlinkBrief
    <3> QED
      BY <1>0, <2>2, <3>1, <3>2 DEF TypeInv, TypeOK
  <2>4. m \notin Writes(t)
    BY <2>1, <2>3 DEF WriterInv, NoWriter
  <2>5. \/ file'["json"][m] = file["json"][m] /\ ~(Unlink(t) /\ part[t] = "json" /\ m = Head(todo[t]))
        \/ file'["json"][m] = "none"
    BY <1>0, <1>2, <2>3, <2>4, FileStep DEF Kinds
  <2> QED
    BY <2>1, <2>2, <2>5 DEF Buried
<1>3. ASSUME NEW found \in SUBSET Loadables, Restore(found) PROVE Buried'
  <2>0. PICK old \in SUBSET found : Started(found, old)
    BY <1>3, LoadBrief
  <2> SUFFICES ASSUME NEW m \in gone' \ unsure' PROVE file["json"][m] = "none"
    BY <2>0 DEF Started, Buried, disk
  <2>1. m \in gone \ unsure
    BY <2>0 DEF Started
  <2> QED
    BY <2>1 DEF Buried
<1>4. CASE Crash
  BY <1>4 DEF Crash, Buried, disk, ghosts
<1>5. ASSUME NEW x \in Ids, Decay(x) PROVE Buried'
  BY <1>5 DEF Decay, disk, Buried
<1> QED
  BY <1>1, <1>2, <1>3, <1>4, <1>5 DEF Next, Load

\* What is on disk stays there, whatever a step of anybody does.
LEMMA OnDiskStays ==
    ASSUME TypeInv, Jobs, InHands, NEW t \in Workers, Step(t),
           NEW m \in Ids \ (unsure' \cup removed), OnDisk(m)
    PROVE  file'["eml"][m] = "raw" /\ file'["json"][m] \in Flags
<1>1. \A k \in Kinds : file'[k][m] = file[k][m] \/ file'[k][m] = Bytes(k, m)
  BY FileStep
<1> QED
  BY <1>1 DEF OnDisk, Bytes, Flag, Flags, Kinds

LEMMA RemovedGrows ==
    ASSUME IndexInv, NEW t \in Workers, Step(t)
    PROVE  removed \subseteq removed'
<1>1. CASE Insert(t)
  BY <1>1, InsertBrief
<1>2. CASE ~ Insert(t)
  BY <1>2 DEF Step, Write, Swap, Stat, Marshal, Create, Fill, Rename, WriteFails, Unlink,
              Return, ghosts
<1> QED
  BY <1>1, <1>2

LEMMA FinishedStep ==
    ASSUME IndexInv, Books, Jobs, InHands, Whole, Finished, NEW t \in Workers, Step(t)
    PROVE  Finished'
<1>0. TypeInv /\ unsure \subseteq unsure' /\ Calms(t) /\ removed \subseteq removed'
  BY StepSpares, StepHands, RemovedGrows DEF IndexInv
<1> SUFFICES ASSUME Persist, NEW u \in Workers,
                    op'[u] = "Deliver", pc'[u] \in {"unlink", "return"},
                    msg'[u] \notin removed' \cup unsure'
             PROVE  file'["eml"][msg'[u]] = "raw" /\ file'["json"][msg'[u]] \in Flags
  BY DEF Finished, OnDisk
<1>1. TypeInv'
  BY TypeNext DEF Next, IndexInv
<1>2. msg'[u] \in Ids
  BY <1>1 DEF TypeInv, WorkerOK
<1>3. ASSUME op[u] = "Deliver", pc[u] \in {"unlink", "return"}, msg'[u] = msg[u]
      PROVE  file'["eml"][msg'[u]] = "raw" /\ file'["json"][msg'[u]] \in Flags
  <2>1. msg[u] \in Ids \ (unsure' \cup removed) /\ OnDisk(msg[u])
    BY <1>0, <1>2, <1>3 DEF Finished
  <2> QED
    BY <1>0, <1>3, <2>1, OnDiskStays
<1>4. CASE u # t
  BY <1>0, <1>3, <1>4 DEF Calms, Others
<1>5. CASE u = t
  <2>1. CASE Insert(t)
    BY <1>5, <2>1, InsertBrief
  <2>2. CASE Swap(t)
    <3>1. op[t] = "MarkRead" /\ op' = op
      BY <2>2 DEF Swap, Jobs, Job
    <3> QED
      BY <1>5, <3>1
  <2>3. CASE Stat(t) \/ Marshal(t) \/ Create(t) \/ Fill(t)
    BY <1>5, <2>3 DEF Stat, Marshal, Create, Fill, Goto, IndexInv, TypeInv, TypeOK
  <2>4. CASE Rename(t)
    <3>1. CASE part[t] = "eml"
      <4>1. Begin(t, op[t], msg[t], todo[t], "marshal")
        BY <2>4, <3>1 DEF Rename
      <4> QED
        BY <1>0, <1>5, <4>1, BeginFacts
    <3>2. CASE part[t] # "eml"
      <4> DEFINE m == msg[t]
      <4>1. Written(t) /\ UNCHANGED buf /\ pc[t] = "rename" /\ part[t] = "json"
        BY <1>0, <2>4, <3>2 DEF Rename, TypeInv, TypeOK, Kinds
      <4>2. msg'[t] = m
        BY <1>0, <1>5, <4>1, WrittenFacts
      <4>3. ~ Unlink(t)
        BY <4>1 DEF Unlink
      <4>4. m \in Ids \ unsure'
        BY <1>2, <1>5, <4>2
      <4>5. m \notin unsure /\ InHand(t)
        BY <1>0, <4>4 DEF InHands
      <4>6. tmp["json"][m] = Flag(read[m]) /\ file["eml"][m] = "raw"
        BY <4>1, <4>5 DEF InHand, Putting
      <4>7. file' = [file EXCEPT !["json"][m] = tmp["json"][m]]
        BY <2>4, <4>1 DEF Rename
      <4> HIDE DEF m
      <4>8. file'["json"][m] = tmp["json"][m] /\ file'["eml"][m] = file["eml"][m]
        <5>1. "json" \in Kinds /\ "eml" \in Kinds /\ m \in Ids
          BY <4>4 DEF Kinds
        <5>2. file \in [Kinds -> [Ids -> Contents]]
          BY <1>0 DEF TypeInv, TypeOK
        <5> QED
          BY <4>7, <5>1, <5>2, OneFile
      <4> QED
        BY <1>5, <4>2, <4>6, <4>8 DEF OnDisk, Flag, Flags
    <3> QED
      BY <3>1, <3>2
  <2>5. CASE WriteFails(t)
    <3>1. CASE op[t] = "Deliver"
      BY <1>0, <1>5, <2>5, <3>1, EndFacts DEF WriteFails
    <3>2. CASE op[t] # "Deliver"
      BY <1>0, <1>5, <2>5, <3>2, WrittenFacts DEF WriteFails
    <3> QED
      BY <3>1, <3>2
  <2>6. CASE Unlink(t)
    <3>1. op'[t] = op[t] /\ msg'[t] = msg[t] /\ pc[t] = "unlink"
      BY <1>0, <2>6, UnlinkBrief
    <3> QED
      BY <1>3, <1>5, <3>1
  <2>7. CASE Return(t)
    BY <1>0, <1>5, <2>7, EndFacts DEF Return
  <2> QED
    BY <2>1, <2>2, <2>3, <2>4, <2>5, <2>6, <2>7 DEF Step, Write
<1> QED
  BY <1>4, <1>5

LEMMA FinishedNext ==
    ASSUME IndexInv, Books, Jobs, InHands, Whole, Finished, Next
    PROVE  Finished'
<1>1. ASSUME NEW t \in Threads, Call(t) PROVE Finished'
  <2> SUFFICES ASSUME Persist, NEW u \in Workers,
                      op'[u] = "Deliver", pc'[u] \in {"unlink", "return"},
                      msg'[u] \notin removed' \cup unsure'
               PROVE  file'["eml"][msg'[u]] = "raw" /\ file'["json"][msg'[u]] \in Flags
    BY DEF Finished, OnDisk
  <2>1. u # t
    BY <1>1, CallSpares
  <2>2. op'[u] = op[u] /\ pc'[u] = pc[u] /\ msg'[u] = msg[u]
    BY <1>1, <2>1, CallSpares DEF Others
  <2>3. OnDisk(msg[u]) /\ UNCHANGED disk
    BY <1>1, <2>2, CallSpares DEF Finished
  <2> QED
    BY <2>2, <2>3 DEF OnDisk, disk
<1>2. ASSUME NEW found \in SUBSET Loadables, Restore(found) PROVE Finished'
  BY <1>2, LoadBrief DEF Started, Finished
<1>3. CASE Crash
  BY <1>3 DEF Crash, Finished
<1>4. ASSUME NEW x \in Ids, Decay(x) PROVE Finished'
  BY <1>4 DEF Decay, disk, threads, Finished, OnDisk
<1> QED
  BY <1>1, <1>2, <1>3, <1>4, FinishedStep DEF Next, Load

\* A goroutine that is done with saving a message has saved its flag.
LEMMA DoneSaving ==
    ASSUME IndexInv, Jobs, InHands, Persist, NEW t \in Workers, Step(t),
           NEW m \in Saving(t), m \notin Saving(t)', m \notin unsure'
    PROVE  file'["json"][m] = Flag(read'[m])
<1>0. /\ TypeInv /\ Job(t) /\ todo[t] \in Seq(Ids)
      /\ (msg[t] \notin unsure => InHand(t)) /\ unsure \subseteq unsure'
      /\ file \in [Kinds -> [Ids -> Contents]] /\ part[t] \in Kinds
  BY StepSpares DEF IndexInv, Jobs, InHands, TypeInv, TypeOK
<1>1. CASE Insert(t)
  <2>1. pc[t] = "insert" /\ op[t] = "Deliver" /\ pc'[t] = "stat" /\ op' = op /\ msg' = msg
    BY <1>0, <1>1, InsertBrief DEF Insert, Job
  <2> QED
    BY <2>1 DEF Saving, Writes
<1>2. CASE Swap(t) \/ Unlink(t) \/ Return(t)
  BY <1>2 DEF Swap, Unlink, Return, Saving, Writes
<1>3. CASE Stat(t) \/ Marshal(t) \/ Create(t) \/ Fill(t)
  <2>1. /\ pc[t] \in {"stat", "marshal", "create", "fill"}
        /\ pc'[t] \in {"create", "marshal", "fill", "rename"}
        /\ op' = op /\ msg' = msg /\ todo' = todo
    BY <1>0, <1>3, GotoFacts DEF Stat, Marshal, Create, Fill
  <2> QED
    BY <2>1 DEF Saving, Writes
<1>4. ASSUME Written(t), UNCHANGED buf, pc[t] \in {"create", "fill", "rename"}
      PROVE  m = msg[t]
  <2>1. CASE op[t] = "MarkAllRead" /\ todo[t] # <<>>
    <3>1. /\ pc'[t] = "stat" /\ msg'[t] = Head(todo[t]) /\ todo'[t] = Tail(todo[t])
          /\ op'[t] = op[t]
      BY <1>0, <1>4, <2>1, WrittenFacts DEF Written, Begin, TypeInv, TypeOK
    <3>2. ToSet(todo[t]) = {msg'[t]} \cup ToSet(todo'[t])
      BY <1>0, <2>1, <3>1, HeadAndTail
    <3> QED
      BY <1>4, <2>1, <3>1, <3>2 DEF Saving, Writes
  <2>2. CASE ~(op[t] = "MarkAllRead" /\ todo[t] # <<>>)
    <3>1. ToSet(<<>>) = {}
      BY DEF ToSet
    <3> QED
      BY <1>4, <2>2, <3>1 DEF Saving, Writes
  <2> QED
    BY <2>1, <2>2
<1>5. CASE Rename(t)
  <2>1. pc[t] = "rename" /\ UNCHANGED <<buf, read>>
    BY <1>5 DEF Rename, memory
  <2>2. CASE part[t] = "eml"
    <3>1. Begin(t, op[t], msg[t], todo[t], "marshal")
      BY <1>5, <2>2 DEF Rename
    <3>2. pc'[t] = "marshal" /\ op'[t] = op[t] /\ msg'[t] = msg[t] /\ todo'[t] = todo[t]
      BY <1>0, <3>1, BeginFacts
    <3> QED
      BY <2>1, <3>2 DEF Saving, Writes
  <2>3. CASE part[t] # "eml"
    <3>1. part[t] = "json" /\ Written(t)
      BY <1>0, <1>5, <2>3 DEF Rename, Kinds
    <3>2. m = msg[t] /\ m \in Ids
      BY <1>0, <1>4, <2>1, <3>1 DEF TypeInv, WorkerOK, Writing
    <3>3. tmp["json"][m] = Flag(read[m])
      BY <1>0, <2>1, <3>1, <3>2 DEF InHand, Putting
    <3>4. file' = [file EXCEPT !["json"][m] = tmp["json"][m]] /\ "json" \in Kinds
      BY <1>5, <3>1, <3>2 DEF Rename, Kinds
    <3> QED
      BY <1>0, <2>1, <3>2, <3>3, <3>4, OneFile
  <2> QED
    BY <2>2, <2>3
<1>6. CASE WriteFails(t)
  <2>1. pc[t] \in {"create", "fill", "rename"} /\ unsure' = unsure \cup {msg[t]}
    BY <1>6 DEF WriteFails
  <2>2. CASE op[t] = "Deliver"
    BY <2>1, <2>2 DEF Saving, Writes
  <2>3. CASE op[t] # "Deliver"
    BY <1>4, <1>6, <2>1, <2>3 DEF WriteFails
  <2> QED
    BY <2>2, <2>3
<1> QED
  BY <1>1, <1>2, <1>3, <1>5, <1>6 DEF Step, Write

\* A flag that a step sets, and a message it adds, is saved by the same goroutine.
LEMMA StepSaves ==
    ASSUME IndexInv, Jobs, Persist, NEW t \in Workers, Step(t), NEW m \in Ids
    PROVE  /\ read'[m] = read[m] \/ m \in Saving(t)'
           /\ m \in byID' => m \in byID \/ m \in Saving(t)'
<1>0. TypeInv
  BY DEF IndexInv
<1>1. CASE Insert(t)
  <2>1. /\ pc'[t] = "stat" /\ msg' = msg /\ byID' \subseteq byID \cup {msg[t]} /\ read' = read
    BY <1>1, InsertBrief DEF Insert
  <2> QED
    BY <2>1 DEF Saving, Writes
<1>2. CASE Swap(t)
  <2>1. /\ byID' = byID /\ msg' = msg
        /\ pc'[t] = IF read'[msg[t]] # read[msg[t]] THEN "stat" ELSE "return"
        /\ \A x \in Ids : x # msg[t] => read'[x] = read[x]
    BY <1>0, <1>2 DEF Swap, Goto, TypeInv, TypeOK, WorkerOK, Writing
  <2> QED
    BY <2>1 DEF Saving, Writes
<1>3. CASE ~ Insert(t) /\ ~ Swap(t)
  BY <1>3 DEF Step, Write, Stat, Marshal, Create, Fill, Rename, WriteFails, Unlink, Return,
              memory
<1> QED
  BY <1>1, <1>2, <1>3

LEMMA SavedNext ==
    ASSUME IndexInv, Books, Jobs, InHands, Saved, Next
    PROVE  Saved'
<1>0. TypeInv
  BY DEF IndexInv
<1>1. ASSUME NEW t \in Threads, Call(t) PROVE Saved'
  <2> SUFFICES ASSUME Persist, NEW m \in byID' \ unsure'
               PROVE  file'["json"][m] = Flag(read'[m]) \/ \E u \in Workers : m \in Saving(u)'
    BY DEF Saved
  <2>1. /\ m \in byID \ unsure /\ UNCHANGED disk /\ t \in Workers /\ up = "up"
        /\ Others(t) /\ Saving(t) = {}
    BY <1>1, CallSpares
  <2>2. read'[m] = read[m] \/ m \in Saving(t)'
    BY <1>0, <1>1, <2>1, CallSpares DEF TypeInv, TypeOK
  <2>3. file["json"][m] = Flag(read[m]) \/ \E u \in Workers \ {t} : m \in Saving(u)
    BY <2>1 DEF Saved
  <2> QED
    BY <2>1, <2>2, <2>3, OthersHands DEF disk
<1>2. ASSUME NEW t \in Workers, Step(t) PROVE Saved'
  <2> SUFFICES ASSUME Persist, NEW m \in byID' \ unsure'
               PROVE  file'["json"][m] = Flag(read'[m]) \/ \E u \in Workers : m \in Saving(u)'
    BY DEF Saved
  <2>1. m \in Ids /\ m \notin unsure /\ Others(t)
    <3>1. TypeInv'
      BY <1>0, <1>2, TypeNext DEF Next
    <3> QED
      BY <1>0, <1>2, <3>1, StepSpares, StepHands DEF TypeInv, TypeOK, Calms
  <2>2. up # "down"
    <3>1. pc[t] # "idle"
      BY <1>2 DEF Step, Write, Insert, Swap, Stat, Marshal, Create, Fill, Rename, WriteFails,
                  Unlink, Return
    <3> QED
      BY <3>1 DEF IndexInv, DownIsIdle
  <2>3. CASE m \in Saving(t)'
    BY <2>3
  <2>4. CASE m \notin Saving(t)'
    <3>1. m \in byID /\ read'[m] = read[m] /\ m \notin removed
      BY <1>2, <2>1, <2>4, StepSaves DEF Books
    <3>2. CASE m \in Saving(t)
      BY <1>2, <2>4, <3>2, DoneSaving
    <3>3. CASE \E u \in Workers \ {t} : m \in Saving(u)
      BY <2>1, <3>3, OthersHands
    <3>4. CASE file["json"][m] = Flag(read[m])
      <4>1. file'["json"][m] = file["json"][m] \/ file'["json"][m] = Bytes("json", m)
        BY <1>0, <1>2, <2>1, <3>1, FileStep DEF Kinds
      <4> QED
        BY <3>1, <3>4, <4>1 DEF Bytes
    <3> QED
      BY <2>1, <2>2, <3>1, <3>2, <3>3, <3>4 DEF Saved
  <2> QED
    BY <2>3, <2>4
<1>3. ASSUME NEW found \in SUBSET Loadables, Restore(found) PROVE Saved'
  <2>0. PICK old \in SUBSET found : Started(found, old)
    BY <1>3, LoadBrief
  <2> SUFFICES ASSUME NEW m \in byID' \ unsure' PROVE file'["json"][m] = Flag(read'[m])
    BY DEF Saved
  <2>1. /\ Loadable(m) /\ m \in Ids /\ file' = file
        /\ read'[m] = (file["json"][m] = "read")
    BY <2>0 DEF Started, Loadables, disk
  <2> QED
    BY <2>1 DEF Loadable, Flag, Flags
<1>4. CASE Crash
  BY <1>4 DEF Crash, Saved
<1>5. ASSUME NEW x \in Ids, Decay(x) PROVE Saved'
  BY <1>5 DEF Decay, Saved
<1> QED
  BY <1>1, <1>2, <1>3, <1>4, <1>5 DEF Next, Load

LEMMA AckedNext ==
    ASSUME IndexInv, Books, Jobs, InHands, Whole, Finished, AckedIsKept, Next
    PROVE  AckedIsKept'
<1>0. TypeInv
  BY DEF IndexInv
<1>1. ASSUME NEW t \in Threads, Call(t) PROVE AckedIsKept'
  <2> SUFFICES ASSUME Persist, NEW m \in acked' \ (removed' \cup unsure')
               PROVE  /\ file'["eml"][m] = "raw" /\ file'["json"][m] \in Flags
                      /\ m \in byID'
    BY DEF AckedIsKept
  <2>1. /\ m \in acked \ (removed \cup unsure) /\ UNCHANGED disk /\ up = "up"
        /\ byID \subseteq byID' \cup removed'
    BY <1>1, CallSpares
  <2> QED
    BY <2>1 DEF AckedIsKept, disk
<1>2. ASSUME NEW t \in Workers, Step(t) PROVE AckedIsKept'
  <2> SUFFICES ASSUME Persist, NEW m \in acked' \ (removed' \cup unsure')
               PROVE  /\ file'["eml"][m] = "raw" /\ file'["json"][m] \in Flags
                      /\ m \in byID'
    BY DEF AckedIsKept
  <2>1. /\ m \notin removed /\ m \notin unsure
    BY <1>0, <1>2, StepSpares, RemovedGrows
  <2>2. up # "down" /\ pc[t] # "idle"
    <3>1. pc[t] # "idle"
      BY <1>2 DEF Step, Write, Insert, Swap, Stat, Marshal, Create, Fill, Rename, WriteFails,
                  Unlink, Return
    <3> QED
      BY <3>1 DEF IndexInv, DownIsIdle
  <2>3. m \in byID' \/ m \notin byID
    <3>1. CASE Insert(t)
      BY <3>1, InsertBrief
    <3>2. CASE ~ Insert(t)
      BY <1>2, <3>2 DEF Step, Write, Swap, Stat, Marshal, Create, Fill, Rename, WriteFails,
                        Unlink, Return, memory
    <3> QED
      BY <3>1, <3>2
  <2>4. m \in Ids /\ OnDisk(m) /\ m \in byID
    <3>1. CASE m \in acked
      BY <1>0, <2>1, <2>2, <3>1 DEF AckedIsKept, OnDisk, TypeInv, TypeOK
    <3>2. CASE m \notin acked
      <4>1. Return(t) /\ op[t] = "Deliver" /\ m = msg[t]
        BY <1>2, <3>2 DEF Step, Write, Insert, Swap, Stat, Marshal, Create, Fill, Rename,
                          WriteFails, Unlink, Return, ghosts
      <4>2. pc[t] = "return" /\ msg[t] \in Ids
        BY <1>0, <4>1 DEF Return, TypeInv, WorkerOK
      <4> QED
        BY <2>1, <4>1, <4>2 DEF Finished, Jobs, Job
    <3> QED
      BY <3>1, <3>2
  <2> QED
    BY <1>0, <1>2, <2>1, <2>3, <2>4, OnDiskStays
<1>3. ASSUME NEW found \in SUBSET Loadables, Restore(found), Loadables \ found \subseteq unsure
      PROVE  AckedIsKept'
  <2> SUFFICES ASSUME Persist, NEW m \in acked' \ (removed' \cup unsure')
               PROVE  /\ file'["eml"][m] = "raw" /\ file'["json"][m] \in Flags
                      /\ m \in byID'
    BY DEF AckedIsKept
  <2>0. PICK old \in SUBSET found : Started(found, old)
    BY <1>3, LoadBrief
  <2>1. /\ byID' = found \ old /\ removed' = (removed \ found) \cup old
        /\ acked' = acked \cup found /\ UNCHANGED disk
        /\ unsure' = {x \in unsure : x \notin found \/ file["eml"][x] # "raw"}
    BY <2>0 DEF Started
  <2>2. CASE m \in found
    <3>1. m \in Ids /\ Loadable(m) /\ (m \notin unsure \/ file["eml"][m] = "raw")
      BY <2>1, <2>2 DEF Loadables
    <3> QED
      BY <2>1, <2>2, <3>1 DEF Loadable, Whole, disk
  <2>3. CASE m \notin found
    <3>1. m \in acked \ (removed \cup unsure) /\ m \in Ids
      BY <1>0, <2>1, <2>3 DEF TypeInv, TypeOK
    <3> QED
      BY <1>3, <2>3, <3>1 DEF AckedIsKept, Loadable, Loadables
  <2> QED
    BY <2>2, <2>3
<1>4. CASE Crash
  BY <1>4 DEF Crash, AckedIsKept, disk, ghosts
<1>5. ASSUME NEW x \in Ids, Decay(x) PROVE AckedIsKept'
  BY <1>5 DEF Decay, AckedIsKept, memory, disk
<1> QED
  BY <1>1, <1>2, <1>3, <1>4, <1>5 DEF Next, Load

LEMMA PromiseNext == PromiseInv /\ [Next]_vars => PromiseInv'
<1> SUFFICES ASSUME PromiseInv, [Next]_vars PROVE PromiseInv'
  OBVIOUS
<1>1. IndexInv'
  BY IndexNext DEF PromiseInv
<1>2. CASE Next
  BY <1>1, <1>2, BooksNext, WriterNext, InHandsNext, WholeNext, FinishedNext, BuriedNext,
     SavedNext, AckedNext DEF PromiseInv, DiskInv
<1>3. CASE UNCHANGED vars
  <2>1. Books' /\ Jobs' /\ WriterInv'
    BY <1>3 DEF PromiseInv, vars, memory, disk, threads, ghosts, Books, Jobs, Job, Unlinks,
                WriterInv, OneWriter, NoWriter, Saving, Writes
  <2>2. InHands' /\ Whole' /\ Finished' /\ Buried'
    BY <1>3 DEF PromiseInv, DiskInv, vars, memory, disk, threads, ghosts, InHands, InHand,
                Putting, Whole, Finished, OnDisk, Buried
  <2>3. Saved' /\ AckedIsKept'
    BY <1>3 DEF PromiseInv, DiskInv, vars, memory, disk, threads, ghosts, Saved, Saving, Writes,
                AckedIsKept
  <2> QED
    BY <1>1, <2>1, <2>2, <2>3 DEF PromiseInv, DiskInv
<1> QED
  BY <1>2, <1>3

\* A message that was reported as stored survives every crash, whichever
\* goroutines, starts and evictions come between.
THEOREM AckedSurvives == Spec => []AckedIsKept
<1>1. PromiseInv => AckedIsKept
  BY DEF PromiseInv, DiskInv
<1> QED
  BY <1>1, PromiseInit, PromiseNext, PTL DEF Spec

\* A message whose removal has finished never comes back.
THEOREM NoResurrection == Spec => []DeletedStaysDeleted
<1>1. PromiseInv => DeletedStaysDeleted
  BY DEF PromiseInv, DiskInv, Buried, DeletedStaysDeleted, Loadable, Flags
<1> QED
  BY <1>1, PromiseInit, PromiseNext, PTL DEF Spec

\* Between operations, the read flags on disk are those in memory.
THEOREM FlagsOnDisk == Spec => []FlagIsSaved
<1>1. PromiseInv => FlagIsSaved
  <2>1. \A t \in Workers : pc[t] = "idle" => Saving(t) = {}
    BY DEF Saving, Writes
  <2> QED
    BY <2>1 DEF PromiseInv, DiskInv, Saved, FlagIsSaved
<1> QED
  BY <1>1, PromiseInit, PromiseNext, PTL DEF Spec

\* As long as a message has one writer, none of its files is ever half-written,
\* wherever the program is killed.
THEOREM NeverHalfWritten == Spec => []WholeFiles
<1>1. PromiseInv => WholeFiles
  BY DEF PromiseInv, DiskInv, Whole, WholeFiles, Flags, Kinds
<1> QED
  BY <1>1, PromiseInit, PromiseNext, PTL DEF Spec
-----------------------------------------------------------------------------
(* Store implements MailQueue                                              *)

\* What MailQueue sees of the store.
Running == up # "down"
KeptNow == acked \ (removed \cup unsure)
DeadNow == gone \ unsure
RefInv == PromiseInv /\ Capacity

LEMMA ShownIsIndex ==
    ASSUME IndexAgrees
    PROVE  Queue!Shown = byID
BY DEF IndexAgrees, Queue!Shown, ToSet, Queue!ToSet

\* A full mailbox loses its oldest message, another none.
LEMMA FullQueue ==
    ASSUME NEW s \in Seq(Ids), NEW m \in Ids, MaxMessages > 0 => Len(s) <= MaxMessages
    PROVE  LET g == Append(s, m) IN
             IF Queue!Full(s)
             THEN Kept(g) = Append(Tail(s), m) /\ ToSet(Evicted(g)) = {Head(s)}
             ELSE Kept(g) = g /\ ToSet(Evicted(g)) = {}
<1> DEFINE g == Append(s, m)
           n == Len(s)
<1>1. /\ g \in Seq(Ids) /\ Len(g) = n + 1 /\ n \in Nat /\ n = Len(s) /\ g[n + 1] = m
      /\ \A i \in 1..n : g[i] = s[i]
  BY AppendProperties, LenProperties
<1>2. MaxMessages \in Nat
  BY OptionAssumption
<1>3. Queue!Full(s) <=> MaxMessages > 0 /\ n = MaxMessages
  BY DEF Queue!Full
<1>4. Excess(g) = IF Queue!Full(s) THEN 1 ELSE 0
  BY <1>1, <1>2, <1>3 DEF Excess
<1> HIDE DEF g, n
<1> DEFINE k == Kept(g)
           e == Evicted(g)
<1>5. /\ e \in Seq(Ids) /\ k \in Seq(Ids) /\ Len(e) = Excess(g) /\ Len(k) = n + 1 - Excess(g)
      /\ \A i \in 1..Len(e) : e[i] = g[i]
      /\ \A i \in 1..Len(k) : k[i] = g[Excess(g) + i]
  BY <1>1, Eviction
<1>6. \A x : x \in ToSet(e) <=> \E i \in 1..Len(e) : e[i] = x
  BY <1>5, ToSetType
<1>7. CASE ~ Queue!Full(s)
  <2>1. Len(k) = Len(g) /\ \A i \in 1..Len(k) : k[i] = g[i]
    BY <1>1, <1>4, <1>5, <1>7
  <2> HIDE DEF k, g, e
  <2>2. k = g
    BY <1>1, <1>5, <2>1, SeqEqual
  <2>3. ToSet(e) = {}
    BY <1>4, <1>5, <1>6, <1>7
  <2> QED
    BY <1>7, <2>2, <2>3 DEF k, g, e
<1>8. CASE Queue!Full(s)
  <2> DEFINE r == Tail(s)
             a == Append(r, m)
  <2>1. n >= 1 /\ s # <<>>
    <3>1. Len(s) >= 1
      BY <1>1, <1>2, <1>3, <1>8
    <3> QED
      BY <1>1, <3>1
  <2>2. /\ r \in Seq(Ids) /\ Len(r) = n - 1 /\ \A i \in 1..(n - 1) : r[i] = s[i + 1]
        /\ Head(s) = s[1]
    <3>1. r \in Seq(Ids) /\ Len(r) = n - 1 /\ \A i \in 1..Len(r) : r[i] = s[i + 1]
      BY <1>1, <2>1, HeadTailProperties
    <3> QED
      BY <1>1, <2>1, <3>1
  <2> HIDE DEF r
  <2>3. /\ a \in Seq(Ids) /\ Len(a) = n /\ a[n] = m
        /\ \A i \in 1..(n - 1) : a[i] = r[i]
    <3>1. /\ a \in Seq(Ids) /\ Len(a) = Len(r) + 1 /\ a[Len(r) + 1] = m
          /\ \A i \in 1..Len(r) : a[i] = r[i]
      BY <2>2, AppendProperties
    <3>2. Len(r) + 1 = n
      BY <1>1, <2>2
    <3> QED
      BY <2>2, <3>1, <3>2
  <2> HIDE DEF a
  <2>4. Len(k) = n /\ \A i \in 1..n : k[i] = g[1 + i]
    BY <1>1, <1>4, <1>5, <1>8
  <2> HIDE DEF k, g, e
  <2>5. ASSUME NEW i \in 1..n PROVE k[i] = a[i]
    <3>1. CASE i = n
      BY <1>1, <2>3, <2>4, <3>1
    <3>2. CASE i # n
      <4>1. i \in 1..(n - 1) /\ i + 1 \in 1..n /\ 1 + i = i + 1
        BY <1>1, <3>2
      <4>2. k[i] = g[i + 1] /\ g[i + 1] = s[i + 1]
        BY <1>1, <2>4, <4>1
      <4>3. a[i] = r[i] /\ r[i] = s[i + 1]
        BY <2>2, <2>3, <4>1
      <4> QED
        BY <4>2, <4>3
    <3> QED
      BY <3>1, <3>2
  <2>6. k = a
    BY <1>5, <2>3, <2>4, <2>5, SeqEqual
  <2>7. ToSet(e) = {Head(s)}
    <3>1. Len(e) = 1 /\ 1 \in 1..n
      BY <1>1, <1>4, <1>5, <1>8, <2>1
    <3>2. e[1] = s[1]
      BY <1>1, <1>5, <3>1
    <3>3. \A x : x \in ToSet(e) <=> x = e[1]
      BY <1>6, <3>1
    <3> QED
      BY <2>2, <3>2, <3>3
  <2> QED
    BY <1>8, <2>6, <2>7 DEF k, g, e, a, r
<1> QED
  BY <1>7, <1>8

\* The steps that MailQueue does not see, or sees only as a promise given up.
LEMMA Quiet ==
    ASSUME UNCHANGED <<box, acked, removed, gone>>, Running' = Running, unsure \subseteq unsure'
    PROVE  Queue!Renounce
BY DEF Queue!Renounce, Running

LEMMA CallRefines ==
    ASSUME RefInv, NEW t \in Threads, Call(t)
    PROVE  Queue!Next
<1>0. /\ TypeInv /\ IndexInv /\ Books /\ box \in [Mailboxes -> Seq(Ids)]
      /\ byID \subseteq Ids
  BY DEF RefInv, PromiseInv, IndexInv, TypeInv, TypeOK
<1>1. CASE Deliver(t) \/ MarkRead(t) \/ MarkAllRead(t)
  <2>1. UNCHANGED <<box, acked, removed, gone, up>> /\ unsure \subseteq unsure'
    BY <1>1 DEF Deliver, MarkRead, MarkAllRead, memory, ghosts
  <2> QED
    BY <2>1, Quiet DEF Queue!Next, Running
<1>2. CASE Delete(t)
  <2>1. PICK m \in byID :
          /\ box' = [box EXCEPT ![Home[m]] = Without(@, m)]
          /\ TakeOut(t, {m})
    BY <1>2 DEF Delete
  <2>2. UNCHANGED <<acked, gone, up>> /\ up = "up"
    BY <1>2 DEF Delete, Ready
  <2> DEFINE mb == Home[m]
             i == CHOOSE j \in DOMAIN box[mb] : box[mb][j] = m
  <2>3. mb \in Mailboxes /\ m \in Ids /\ m \in ToSet(box[mb])
    BY <1>0, IdAssumption DEF IndexInv, IndexAgrees
  <2>4. i \in DOMAIN box[mb] /\ box[mb][i] = m
    BY <2>3 DEF ToSet
  <2>5. box' = [box EXCEPT ![mb] = RemoveAt(@, i)]
    BY <2>1, <2>3 DEF Without
  <2> HIDE DEF i
  <2>6. \E j \in DOMAIN box[mb] :
            box[mb][j] = m /\ box' = [box EXCEPT ![mb] = Queue!RemoveAt(@, j)]
    BY <2>4, <2>5 DEF RemoveAt, Queue!RemoveAt
  <2>7. m \notin gone
    BY <1>0 DEF Books
  <2>8. Queue!Take(mb, m)
    BY <2>1, <2>2, <2>6, <2>7 DEF Queue!Take, TakeOut
  <2> QED
    BY <2>3, <2>8 DEF Queue!Next
<1>3. CASE Clear(t)
  <2>1. PICK mb \in Mailboxes :
          /\ box' = [box EXCEPT ![mb] = <<>>]
          /\ TakeOut(t, ToSet(box[mb]))
    BY <1>3 DEF Clear
  <2>2. UNCHANGED <<acked, gone, up>> /\ up = "up"
    BY <1>3 DEF Clear, Ready
  <2>3. ToSet(box[mb]) \cap gone = {}
    BY <1>0, BoxIssued DEF Books
  <2>4. Queue!ToSet(box[mb]) = ToSet(box[mb])
    BY DEF ToSet, Queue!ToSet
  <2>5. Queue!Empty(mb)
    BY <2>1, <2>2, <2>3, <2>4 DEF Queue!Empty, TakeOut
  <2> QED
    BY <2>5 DEF Queue!Next
<1> QED
  BY <1>1, <1>2, <1>3 DEF Call

LEMMA StepRefines ==
    ASSUME RefInv, NEW t \in Workers, Step(t)
    PROVE  Queue!Next
<1>0. /\ TypeInv /\ IndexInv /\ Books /\ Jobs /\ Job(t) /\ IndexAgrees
      /\ box \in [Mailboxes -> Seq(Ids)] /\ byID \subseteq Ids
  BY DEF RefInv, PromiseInv, IndexInv, TypeInv, TypeOK, Jobs
<1>u. up # "down"
  <2>1. pc[t] # "idle"
    BY DEF Step, Write, Insert, Swap, Stat, Marshal, Create, Fill, Rename, WriteFails,
           Unlink, Return
  <2> QED
    BY <1>0, <2>1 DEF IndexInv, DownIsIdle
<1>1. CASE Insert(t)
  <2> DEFINE m == msg[t]
             mb == Home[m]
             s == box[mb]
             old == ToSet(Evicted(Append(s, m)))
             drop == IF Queue!Full(s) THEN {Head(s)} ELSE {}
             rest == IF Queue!Full(s) THEN Tail(s) ELSE s
  <2>1. m \in Ids /\ mb \in Mailboxes /\ m \notin byID /\ pc[t] = "insert"
    BY <1>0, <1>1, InsertFacts, InsertBrief DEF Insert
  <2>2. s \in Seq(Ids) /\ (MaxMessages > 0 => Len(s) <= MaxMessages) /\ ToSet(s) \subseteq byID
    BY <1>0, <2>1, BoxIssued DEF RefInv, Capacity
  <2>3. /\ box' = [box EXCEPT ![mb] = Kept(Append(s, m))]
        /\ TakeOut(t, old) /\ UNCHANGED <<acked, gone, up>>
    BY <1>1 DEF Insert
  <2>4. Kept(Append(s, m)) = Append(rest, m) /\ old = drop
    <3> HIDE DEF m, s
    <3> QED
      BY <2>1, <2>2, FullQueue
  <2>5. drop \subseteq byID
    <3>1. old \subseteq byID
      <4> HIDE DEF m, s
      <4> QED
        BY <2>1, <2>2, EvictedOld
    <3> QED
      BY <2>4, <3>1
  <2>6. m \notin acked \cup removed \cup gone
    BY <1>0, <2>1 DEF Job, Books
  <2>7. Queue!Shown = byID
    BY <1>0, ShownIsIndex
  <2>8. drop \cap gone = {}
    BY <1>0, <2>5 DEF Books
  <2> HIDE DEF drop, old
  <2>9. Queue!Enqueue(m)
    <3>1. box' = [box EXCEPT ![mb] = Append(rest, m)]
      BY <2>3, <2>4
    <3>2. (acked \ (removed \cup unsure))' = (acked \ (removed \cup unsure)) \ drop
      BY <2>3, <2>4 DEF TakeOut
    <3>3. (gone \ unsure)' = gone \ unsure
      BY <2>3, <2>4, <2>8 DEF TakeOut
    <3> QED
      BY <1>u, <2>1, <2>3, <2>6, <2>7, <3>1, <3>2, <3>3 DEF Queue!Enqueue, drop
  <2> QED
    BY <2>1, <2>9 DEF Queue!Next
<1>2. CASE Swap(t) \/ Write(t)
  <2>1. UNCHANGED <<box, acked, removed, gone, up>> /\ unsure \subseteq unsure'
    BY <1>2 DEF Swap, Write, Stat, Marshal, Create, Fill, Rename, WriteFails, memory, ghosts
  <2> QED
    BY <2>1, Quiet DEF Queue!Next, Running
<1>3. CASE Unlink(t)
  <2> DEFINE m == Head(todo[t])
  <2>1. /\ m \in removed /\ m \in Ids /\ UNCHANGED <<box, up, acked, removed>>
        /\ gone' = gone \/ gone' = gone \cup {m}
        /\ unsure' = unsure \/ unsure' = unsure \cup {m}
    BY <1>0, <1>3, UnlinkBrief DEF memory
  <2> HIDE DEF m
  <2>2. CASE gone' = gone
    BY <2>1, <2>2, Quiet DEF Queue!Next, Running
  <2>3. CASE gone' = gone \cup {m} /\ m \in unsure'
    BY <2>1, <2>3 DEF Queue!Next, Queue!Renounce
  <2>4. CASE gone' = gone \cup {m} /\ m \notin unsure'
    <3>1. unsure' = unsure /\ m \notin byID
      BY <1>0, <2>1, <2>4 DEF Books
    <3>2. Queue!Shown = byID
      BY <1>0, ShownIsIndex
    <3>3. Queue!Bury(m)
      BY <2>1, <2>4, <3>1, <3>2 DEF Queue!Bury
    <3> QED
      BY <2>1, <3>3 DEF Queue!Next
  <2> QED
    BY <2>1, <2>2, <2>3, <2>4
<1>4. CASE Return(t)
  <2>1. /\ pc[t] = "return" /\ UNCHANGED <<box, removed, gone, unsure>> /\ up' # "down"
        /\ acked' = IF op[t] = "Deliver" THEN acked \cup {msg[t]} ELSE acked
    BY <1>4, <1>u DEF Return, memory
  <2>2. CASE op[t] = "Deliver" /\ msg[t] \notin removed \cup unsure
    <3>1. msg[t] \in byID /\ msg[t] \in Ids
      BY <1>0, <2>1, <2>2 DEF Job
    <3>2. Queue!Shown = byID
      BY <1>0, ShownIsIndex
    <3>3. Queue!Promise(msg[t])
      BY <1>u, <2>1, <2>2, <3>1, <3>2 DEF Queue!Promise
    <3> QED
      BY <3>1, <3>3 DEF Queue!Next
  <2>3. CASE ~(op[t] = "Deliver" /\ msg[t] \notin removed \cup unsure)
    <3>1. Queue!Renounce
      BY <1>u, <2>1, <2>3 DEF Queue!Renounce
    <3> QED
      BY <3>1 DEF Queue!Next
  <2> QED
    BY <2>2, <2>3
<1> QED
  BY <1>1, <1>2, <1>3, <1>4 DEF Step

\* The mailboxes of a start are in the order of the IDs; what does not fit is
\* older than what does.
LEMMA LoadSorted ==
    ASSUME NEW S \in SUBSET Ids, NEW mb, \A m \in S : Home[m] = mb,
           NEW s \in Seq(Ids), s \in Listings(S, ByID)
    PROVE  /\ \A i, j \in DOMAIN Kept(s) : i < j => Kept(s)[i] < Kept(s)[j]
           /\ ToSet(Kept(s)) \subseteq S
           /\ \A m \in S : \/ m \in ToSet(Kept(s))
                           \/ Queue!Full(Kept(s)) /\ \A n \in ToSet(Kept(s)) : m < n
<1> DEFINE k == Kept(s)
           e == Excess(s)
<1>1. /\ e \in 0..Len(s) /\ k \in Seq(Ids) /\ Len(k) = Len(s) - e /\ Len(s) \in Nat
      /\ \A i \in 1..Len(k) : k[i] = s[e + i]
  BY Eviction, LenProperties
<1>2. ToSet(s) = S
  BY DEF Listings
<1>3. \A i \in 1..Len(s) : s[i] \in S
  BY <1>2, ToSetType
<1>4. \A i, j \in 1..Len(s) : i < j => s[i] < s[j]
  <2>1. \A i, j \in DOMAIN s : i < j => <<s[i], s[j]>> \in ByID
    BY DEF Listings
  <2>2. DOMAIN s = 1..Len(s)
    OBVIOUS
  <2> QED
    BY <1>3, <2>1, <2>2 DEF ByID
<1>5. e > 0 => MaxMessages > 0 /\ Len(s) - e = MaxMessages
  BY OptionAssumption DEF Excess
<1>6. \A x : x \in ToSet(k) <=> \E i \in 1..Len(k) : k[i] = x
  BY <1>1, ToSetType
<1> HIDE DEF k, e
<1>7. \A i \in 1..Len(k) : e + i \in 1..Len(s)
  BY <1>1
<1>8. \A i, j \in 1..Len(k) : i < j => k[i] < k[j]
  BY <1>1, <1>4, <1>7
<1>9. DOMAIN k = 1..Len(k)
  BY <1>1
<1>10. ToSet(k) \subseteq S
  BY <1>1, <1>3, <1>6, <1>7
<1>11. ASSUME NEW m \in S, m \notin ToSet(k)
       PROVE  Queue!Full(k) /\ \A n \in ToSet(k) : m < n
  <2>1. PICK i \in 1..Len(s) : s[i] = m
    BY <1>2, ToSetType
  <2>2. i <= e
    <3>1. CASE i > e
      <4>1. i - e \in 1..Len(k) /\ e + (i - e) = i
        BY <1>1, <3>1
      <4>2. k[i - e] = m
        BY <1>1, <2>1, <4>1
      <4> QED
        BY <1>6, <1>11, <4>1, <4>2
    <3> QED
      BY <1>1, <3>1
  <2>3. Queue!Full(k)
    BY <1>1, <1>5, <2>2 DEF Queue!Full
  <2>4. ASSUME NEW n \in ToSet(k) PROVE m < n
    <3>1. PICK j \in 1..Len(k) : k[j] = n
      BY <1>6, <2>4
    <3>2. n = s[e + j] /\ e + j \in 1..Len(s) /\ i < e + j
      BY <1>1, <1>7, <2>2, <3>1
    <3> QED
      BY <1>4, <2>1, <3>2
  <2> QED
    BY <2>3, <2>4
<1> QED
  BY <1>8, <1>9, <1>10, <1>11 DEF k

LEMMA LoadRefines ==
    ASSUME Persist, RefInv, RefInv', NEW found \in SUBSET Loadables, Restore(found),
           Loadables \ found \subseteq unsure
    PROVE  Queue!Start
<1>0. TypeInv /\ IndexInv /\ Jobs /\ IndexAgrees' /\ AckedIsKept /\ AckedIsKept' /\ TypeInv'
  BY DEF RefInv, PromiseInv, DiskInv, IndexInv
<1>a. PICK list \in [Mailboxes -> Seq(Ids)] : Listed(found, list)
  BY <1>0, LoadLists
<1>1. /\ \A mb \in Mailboxes : list[mb] \in Listings({m \in found : Home[m] = mb}, ByID)
      /\ box' = [mb \in Mailboxes |-> Kept(list[mb])]
  BY <1>a DEF Listed
<1>b. PICK old \in SUBSET found : Started(found, old)
  BY <1>0, LoadBrief
<1>2. /\ byID' = found \ old /\ removed' = (removed \ found) \cup old
      /\ acked' = acked \cup found /\ gone' = gone \ found
      /\ unsure' = {m \in unsure : m \notin found \/ file["eml"][m] # "raw"}
      /\ up = "down" /\ up' # "down"
  BY <1>b DEF Started
<1>3. \A m \in DeadNow : m \notin found
  BY DEF DeadNow, RefInv, PromiseInv, DiskInv, Buried, Loadables, Loadable, Flags
<1>4. \A m \in KeptNow : m \in found
  BY <1>0 DEF KeptNow, AckedIsKept, Loadables, Loadable, TypeInv, TypeOK
<1>5. Queue!Shown' = byID'
  BY <1>0 DEF IndexAgrees, Queue!Shown, ToSet, Queue!ToSet
<1>6. DeadNow' = DeadNow
  BY <1>2, <1>3 DEF DeadNow
<1>7. KeptNow \cap byID' \subseteq KeptNow'
  BY <1>2 DEF KeptNow
<1>8. KeptNow' \subseteq byID'
  BY <1>0, <1>2 DEF KeptNow, AckedIsKept
<1>9. ASSUME NEW mb \in Mailboxes
      PROVE  /\ box'[mb] \in Seq({m \in Ids \ DeadNow : Home[m] = mb})
             /\ \A i, j \in DOMAIN box'[mb] : i < j => box'[mb][i] < box'[mb][j]
             /\ MaxMessages > 0 => Len(box'[mb]) <= MaxMessages
             /\ \A m \in KeptNow : Home[m] = mb =>
                  \/ m \in ToSet(box'[mb])
                  \/ Queue!Full(box'[mb]) /\ \A n \in ToSet(box'[mb]) : m < n
  <2> DEFINE S == {m \in found : Home[m] = mb}
             s == list[mb]
             q == Kept(s)
  <2>1. box'[mb] = q
    BY <1>1
  <2>2. S \in SUBSET Ids /\ (\A m \in S : Home[m] = mb) /\ s \in Seq(Ids) /\ s \in Listings(S, ByID)
    BY <1>1 DEF Loadables
  <2>3. S \subseteq {m \in Ids \ DeadNow : Home[m] = mb}
    BY <1>3 DEF Loadables
  <2>4. \A m \in KeptNow : Home[m] = mb => m \in S
    BY <1>4
  <2> HIDE DEF S, s
  <2>5. /\ \A i, j \in DOMAIN q : i < j => q[i] < q[j]
        /\ ToSet(q) \subseteq S
        /\ \A m \in S : m \in ToSet(q) \/ (Queue!Full(q) /\ \A n \in ToSet(q) : m < n)
    BY <2>2, LoadSorted
  <2>6. q \in Seq(Ids)
    BY <2>2, Eviction
  <2> HIDE DEF q
  <2>7. q \in Seq({m \in Ids \ DeadNow : Home[m] = mb})
    <3> DEFINE T == {m \in Ids \ DeadNow : Home[m] = mb}
    <3>1. \A i \in 1..Len(q) : q[i] \in T
      BY <2>3, <2>5, <2>6, ToSetType
    <3> HIDE DEF T
    <3> QED
      BY <2>6, <3>1 DEF T
  <2>8. MaxMessages > 0 => Len(box'[mb]) <= MaxMessages
    BY DEF RefInv, Capacity
  <2> QED
    BY <2>1, <2>4, <2>5, <2>7, <2>8
<1>10. \A mb \in Mailboxes : Queue!ToSet(box'[mb]) = ToSet(box'[mb])
  BY DEF ToSet, Queue!ToSet
<1>11. \A mb \in Mailboxes : \A m \in KeptNow : Home[m] = mb =>
         \/ m \in Queue!ToSet(box'[mb])
         \/ Queue!Full(box'[mb]) /\ \A n \in Queue!ToSet(box'[mb]) : m < n
  BY <1>9, <1>10
<1>12. \A mb \in Mailboxes :
         /\ box'[mb] \in Seq({m \in Ids \ DeadNow : Home[m] = mb})
         /\ \A i, j \in DOMAIN box'[mb] : i < j => box'[mb][i] < box'[mb][j]
         /\ MaxMessages > 0 => Len(box'[mb]) <= MaxMessages
  BY <1>9
<1>13. (~Running /\ Running' = TRUE) /\ DeadNow' = DeadNow
  BY <1>2, <1>6 DEF Running
<1>14. KeptNow \cap Queue!Shown' \subseteq KeptNow' /\ KeptNow' \subseteq Queue!Shown'
  BY <1>5, <1>7, <1>8
<1> QED
  BY <1>11, <1>12, <1>13, <1>14 DEF Queue!Start, Running, KeptNow, DeadNow

LEMMA RefInit == Init => Queue!Init
BY DEF Init, Queue!Init

LEMMA RefNext == ASSUME Persist PROVE RefInv /\ RefInv' /\ [Next]_vars => [Queue!Next]_(Queue!vars)
<1> SUFFICES ASSUME RefInv, RefInv', [Next]_vars PROVE [Queue!Next]_(Queue!vars)
  OBVIOUS
<1>1. CASE Load
  <2>1. PICK found \in SUBSET Loadables : Loadables \ found \subseteq unsure /\ Restore(found)
    BY <1>1 DEF Load
  <2> QED
    BY <2>1, LoadRefines DEF Queue!Next
<1>2. CASE Crash
  <2>1. Queue!Stop
    BY <1>2 DEF Crash, Queue!Stop, ghosts
  <2> QED
    BY <2>1 DEF Queue!Next
<1>3. CASE UNCHANGED vars
  BY <1>3 DEF vars, memory, ghosts, Queue!vars
<1>4. ASSUME NEW x \in Ids, Decay(x) PROVE Queue!Next
  <2>1. Queue!Renounce
    BY <1>4 DEF Decay, Queue!Renounce, memory
  <2> QED
    BY <2>1 DEF Queue!Next
<1> QED
  BY <1>1, <1>2, <1>3, <1>4, CallRefines, StepRefines DEF Next

\* With a data directory, the store implements the bounded queues of MailQueue:
\* it keeps each promise it gives, unless a race or the disk takes it back.
THEOREM StoreKeepsPromises == ASSUME Persist PROVE Spec => KeepsPromises
<1>1. Init => Queue!Init
  BY RefInit
<1>2. RefInv /\ RefInv' /\ [Next]_vars => [Queue!Next]_(Queue!vars)
  BY RefNext
<1>3. Spec => []RefInv
  <2>1. Spec => []PromiseInv
    BY PromiseInit, PromiseNext, PTL DEF Spec
  <2> QED
    BY <2>1, CapacityCorrect, PTL DEF RefInv
<1> QED
  BY <1>1, <1>2, <1>3, PTL DEF Spec, KeepsPromises, Queue!Spec
=============================================================================
