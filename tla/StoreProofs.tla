---------------------------- MODULE StoreProofs ----------------------------
(***************************************************************************)
(* Theorems about Store, for any number of mailboxes, goroutines and       *)
(* messages.                                                               *)
(***************************************************************************)
EXTENDS Store, SequenceTheorems, FiniteSetTheorems, TLAPS

(* Sequences                                                               *)

LEMMA ToSetType ==
    ASSUME NEW S, NEW s \in Seq(S)
    PROVE  /\ ToSet(s) \subseteq S
           /\ \A x : x \in ToSet(s) <=> \E i \in 1..Len(s) : s[i] = x
BY DEF ToSet

\* Evicting cuts a listing in two; what is kept fits into the mailbox.
LEMMA Eviction ==
    ASSUME NEW s \in Seq(Ids)
    PROVE  /\ Excess(s) \in 0..Len(s)
           /\ Evicted(s) \in Seq(Ids) /\ Kept(s) \in Seq(Ids)
           /\ Len(Evicted(s)) = Excess(s) /\ Len(Kept(s)) = Len(s) - Excess(s)
           /\ MaxMessages > 0 => Len(Kept(s)) <= MaxMessages
           /\ \A i \in 1..Len(Evicted(s)) : Evicted(s)[i] = s[i]
           /\ \A i \in 1..Len(Kept(s)) : Kept(s)[i] = s[Excess(s) + i]
<1>1. Excess(s) \in 0..Len(s)
  BY OptionAssumption DEF Excess
<1>2. MaxMessages > 0 => Len(s) - Excess(s) <= MaxMessages
  BY OptionAssumption DEF Excess
<1> QED
  BY <1>1, <1>2, SubSeqProperties DEF Evicted, Kept

LEMMA WithoutType ==
    ASSUME NEW s \in Seq(Ids), NEW m
    PROVE  Without(s, m) \in Seq(Ids)
<1>1. CASE m \in ToSet(s)
  <2> DEFINE i == CHOOSE j \in DOMAIN s : s[j] = m
  <2>1. i \in 1..Len(s)
    BY <1>1 DEF ToSet
  <2> HIDE DEF i
  <2>2. i \in 1..Len(s)+1 /\ i-1 \in 0..Len(s) /\ i+1 \in 1..Len(s)+1 /\ Len(s) \in i..Len(s)
    BY <2>1
  <2>3. SubSeq(s, 1, i-1) \in Seq(Ids)
    BY <2>2, SubSeqProperties
  <2>4. SubSeq(s, i+1, Len(s)) \in Seq(Ids)
    BY <2>2, SubSeqProperties
  <2>5. Without(s, m) = SubSeq(s, 1, i-1) \o SubSeq(s, i+1, Len(s))
    BY <1>1 DEF Without, RemoveAt, i
  <2> QED
    BY <2>3, <2>4, <2>5, ConcatProperties
<1>2. CASE m \notin ToSet(s)
  BY <1>2 DEF Without
<1> QED
  BY <1>1, <1>2

LEMMA ListingType ==
    ASSUME NEW S \in SUBSET Ids, NEW before, NEW s \in Listings(S, before)
    PROVE  s \in Seq(Ids) /\ ToSet(s) = S
<1>1. IsFiniteSet(S)
  BY IdAssumption, FS_Subset
<1>2. Cardinality(S) \in Nat
  BY <1>1, FS_CardinalityType
<1> QED
  BY <1>2 DEF Listings
-----------------------------------------------------------------------------
(* Type correctness                                                        *)

Writing == {"insert", "swap", "stat", "create", "fill", "rename", "marshal"}

\* What TypeOK needs to be inductive: a goroutine that works on a message has
\* one, and one that unlinks has something to unlink.
WorkerOK ==
    \A t \in Workers :
        /\ pc[t] \in Writing \/ op[t] = "Deliver" => msg[t] \in Ids
        /\ pc[t] = "unlink" => todo[t] # <<>>

TypeInv == TypeOK /\ WorkerOK

LEMMA TypeInit == Init => TypeInv
BY EmptySeq DEF Init, TypeInv, TypeOK, WorkerOK, Kinds, Contents, Steps, Ops, Writing

\* Beginning, ending and continuing an operation keep the goroutines in order.
LEMMA BeginType ==
    ASSUME TypeInv, NEW t \in Workers, NEW o \in Ops, NEW m \in Ids \cup {NoMsg},
           NEW rest \in Seq(Ids), NEW step \in Steps,
           Begin(t, o, m, rest, step),
           step \in Writing \/ o = "Deliver" => m \in Ids,
           step = "unlink" => rest # <<>>
    PROVE  /\ pc' \in [Workers -> Steps] /\ op' \in [Workers -> Ops]
           /\ msg' \in [Workers -> Ids \cup {NoMsg}]
           /\ todo' \in [Workers -> Seq(Ids)] /\ part' \in [Workers -> Kinds]
           /\ WorkerOK'
BY DEF TypeInv, TypeOK, WorkerOK, Begin, Kinds

LEMMA EndType ==
    ASSUME TypeInv, NEW t \in Workers, End(t)
    PROVE  /\ pc' \in [Workers -> Steps] /\ op' \in [Workers -> Ops]
           /\ msg' \in [Workers -> Ids \cup {NoMsg}]
           /\ todo' \in [Workers -> Seq(Ids)] /\ part' \in [Workers -> Kinds]
           /\ buf' \in [Workers -> Contents]
           /\ fd' \in [Workers -> {"none", "tmp", "final", "lost"}]
           /\ WorkerOK'
<1>1. <<>> \in Seq(Ids) /\ "none" \in Ops /\ "idle" \in Steps \ Writing
  BY EmptySeq DEF Ops, Steps, Writing
<1>2. Begin(t, "none", NoMsg, <<>>, "idle")
  BY DEF End
<1> QED
  BY <1>1, <1>2, BeginType DEF End, TypeInv, TypeOK, Contents

LEMMA GotoType ==
    ASSUME TypeInv, NEW t \in Workers, NEW step \in Steps \ {"unlink"}, Goto(t, step),
           msg[t] \in Ids, UNCHANGED <<op, msg>>,
           todo' = todo \/ (pc[t] # "unlink" /\ \E s : todo' = [todo EXCEPT ![t] = s])
    PROVE  pc' \in [Workers -> Steps] /\ WorkerOK'
BY DEF TypeInv, TypeOK, WorkerOK, Goto

LEMMA WrittenType ==
    ASSUME TypeInv, NEW t \in Workers, msg[t] \in Ids, Written(t)
    PROVE  /\ pc' \in [Workers -> Steps] /\ op' \in [Workers -> Ops]
           /\ msg' \in [Workers -> Ids \cup {NoMsg}]
           /\ todo' \in [Workers -> Seq(Ids)] /\ part' \in [Workers -> Kinds]
           /\ WorkerOK'
<1>1. op[t] \in Ops /\ todo[t] \in Seq(Ids)
  BY DEF TypeInv, TypeOK
<1>2. CASE op[t] = "MarkAllRead" /\ todo[t] # <<>>
  <2>1. Head(todo[t]) \in Ids /\ Tail(todo[t]) \in Seq(Ids)
    BY <1>1, <1>2, HeadTailProperties
  <2>2. Begin(t, "MarkAllRead", Head(todo[t]), Tail(todo[t]), "stat")
    BY <1>2 DEF Written
  <2>3. "MarkAllRead" \in Ops /\ "stat" \in Steps \ {"unlink"}
    BY DEF Ops, Steps
  <2> QED
    BY <2>1, <2>2, <2>3, BeginType
<1>3. CASE op[t] = "Deliver" /\ todo[t] # <<>>
  <2>1. Begin(t, "Deliver", msg[t], todo[t], "unlink")
    BY <1>3 DEF Written
  <2>2. "Deliver" \in Ops /\ "unlink" \in Steps \ Writing
    BY DEF Ops, Steps, Writing
  <2> QED
    BY <1>1, <1>3, <2>1, <2>2, BeginType
<1>4. CASE ~(op[t] = "MarkAllRead" /\ todo[t] # <<>>) /\ ~(op[t] = "Deliver" /\ todo[t] # <<>>)
  <2>1. Begin(t, op[t], msg[t], todo[t], "return")
    BY <1>4 DEF Written
  <2>2. "return" \in Steps \ {"unlink"}
    BY DEF Steps
  <2> QED
    BY <1>1, <2>1, <2>2, BeginType
<1> QED
  BY <1>2, <1>3, <1>4

\* The calls.
LEMMA TypeCall ==
    ASSUME TypeInv, NEW t \in Threads, Call(t)
    PROVE  TypeInv'
<1> USE DEF memory, disk, threads, ghosts, Workers
<1>0. t \in Workers
  OBVIOUS
<1>1. CASE Deliver(t)
  <2>1. PICK m \in Ids \ issued : Begin(t, "Deliver", m, <<>>, "insert")
                                /\ issued' = issued \cup {m}
    BY <1>1 DEF Deliver
  <2>2. "Deliver" \in Ops /\ "insert" \in Steps \ {"unlink"} /\ <<>> \in Seq(Ids)
    BY EmptySeq DEF Ops, Steps
  <2> QED
    BY <1>1, <2>1, <2>2, BeginType DEF Deliver, TypeInv, TypeOK
<1>2. CASE MarkRead(t)
  <2>1. PICK m \in byID, isRead \in BOOLEAN :
            /\ Begin(t, "MarkRead", m, <<>>, "swap")
            /\ buf' = [buf EXCEPT ![t] = Flag(isRead)]
    BY <1>2 DEF MarkRead
  <2>2. /\ "MarkRead" \in Ops /\ "swap" \in Steps \ {"unlink"} /\ <<>> \in Seq(Ids)
        /\ Flag(isRead) \in Contents /\ m \in Ids
    BY EmptySeq DEF Ops, Steps, Flag, Contents, TypeInv, TypeOK
  <2> QED
    BY <1>2, <2>1, <2>2, BeginType DEF MarkRead, TypeInv, TypeOK
<1>3. CASE MarkAllRead(t)
  <2>1. PICK mb \in Mailboxes :
            LET changed == {m \in ToSet(box[mb]) : ~read[m]}
            IN  \E list \in Listings(changed, OrderIn(box[mb])) :
                /\ read' = [m \in Ids |-> read[m] \/ m \in changed]
                /\ unsure' = unsure \cup (changed \cap SavedByOthers(t))
                /\ IF Persist /\ list # <<>>
                   THEN Begin(t, "MarkAllRead", Head(list), Tail(list), "stat")
                   ELSE Begin(t, "MarkAllRead", NoMsg, <<>>, "return")
    BY <1>3 DEF MarkAllRead
  <2> DEFINE changed == {m \in ToSet(box[mb]) : ~read[m]}
  <2>2. changed \in SUBSET Ids
    BY ToSetType DEF TypeInv, TypeOK
  <2> HIDE DEF changed
  <2>3. PICK list \in Listings(changed, OrderIn(box[mb])) :
            /\ read' = [m \in Ids |-> read[m] \/ m \in changed]
            /\ unsure' = unsure \cup (changed \cap SavedByOthers(t))
            /\ IF Persist /\ list # <<>>
               THEN Begin(t, "MarkAllRead", Head(list), Tail(list), "stat")
               ELSE Begin(t, "MarkAllRead", NoMsg, <<>>, "return")
    BY <2>1 DEF changed
  <2>4. list \in Seq(Ids)
    BY <2>2, ListingType
  <2>5. /\ "MarkAllRead" \in Ops /\ "stat" \in Steps \ {"unlink"} /\ <<>> \in Seq(Ids)
        /\ "return" \in Steps \ (Writing \cup {"unlink"})
    BY EmptySeq DEF Ops, Steps, Writing
  <2>6. /\ pc' \in [Workers -> Steps] /\ op' \in [Workers -> Ops]
        /\ msg' \in [Workers -> Ids \cup {NoMsg}]
        /\ todo' \in [Workers -> Seq(Ids)] /\ part' \in [Workers -> Kinds]
        /\ WorkerOK'
    <3>1. CASE Persist /\ list # <<>>
      <4>1. Head(list) \in Ids /\ Tail(list) \in Seq(Ids)
        BY <2>4, <3>1, HeadTailProperties
      <4> QED
        BY <2>3, <2>5, <3>1, <4>1, BeginType
    <3>2. CASE ~(Persist /\ list # <<>>)
      BY <2>3, <2>5, <3>2, BeginType
    <3> QED
      BY <3>1, <3>2
  <2>7. read' \in [Ids -> BOOLEAN] /\ unsure' \subseteq Ids
    BY <2>2, <2>3 DEF TypeInv, TypeOK
  <2> QED
    BY <1>3, <2>6, <2>7 DEF MarkAllRead, TypeInv, TypeOK
<1>4. CASE Delete(t)
  <2>1. PICK m \in byID :
            /\ byID' = byID \ {m}
            /\ box' = [box EXCEPT ![Home[m]] = Without(@, m)]
            /\ TakeOut(t, {m})
            /\ Begin(t, "Delete", NoMsg, <<m>>, IF Persist THEN "unlink" ELSE "return")
    BY <1>4 DEF Delete
  <2>2. m \in Ids /\ <<m>> \in Seq(Ids) /\ <<m>> # <<>>
    BY DEF TypeInv, TypeOK
  <2>3. /\ "Delete" \in Ops /\ "unlink" \in Steps \ Writing
        /\ "return" \in Steps \ (Writing \cup {"unlink"})
    BY DEF Ops, Steps, Writing
  <2>4. /\ pc' \in [Workers -> Steps] /\ op' \in [Workers -> Ops]
        /\ msg' \in [Workers -> Ids \cup {NoMsg}]
        /\ todo' \in [Workers -> Seq(Ids)] /\ part' \in [Workers -> Kinds]
        /\ WorkerOK'
    <3>1. CASE Persist
      BY <2>1, <2>2, <2>3, <3>1, BeginType
    <3>2. CASE ~Persist
      BY <2>1, <2>2, <2>3, <3>2, BeginType
    <3> QED
      BY <3>1, <3>2
  <2>5. box' \in [Mailboxes -> Seq(Ids)]
    BY <2>1, <2>2, WithoutType DEF TypeInv, TypeOK
  <2>6. byID' \subseteq Ids /\ removed' \subseteq Ids /\ unsure' \subseteq Ids
    BY <2>1, <2>2 DEF TakeOut, TypeInv, TypeOK
  <2> QED
    BY <1>4, <2>4, <2>5, <2>6 DEF Delete, TypeInv, TypeOK
<1>5. CASE Clear(t)
  <2>1. PICK mb \in Mailboxes :
            /\ box' = [box EXCEPT ![mb] = <<>>]
            /\ byID' = byID \ ToSet(box[mb])
            /\ TakeOut(t, ToSet(box[mb]))
            /\ Begin(t, "Clear", NoMsg, box[mb],
                     IF Persist /\ box[mb] # <<>> THEN "unlink" ELSE "return")
    BY <1>5 DEF Clear
  <2>2. box[mb] \in Seq(Ids) /\ ToSet(box[mb]) \subseteq Ids
    BY ToSetType DEF TypeInv, TypeOK
  <2>3. /\ "Clear" \in Ops /\ "unlink" \in Steps \ Writing /\ <<>> \in Seq(Ids)
        /\ "return" \in Steps \ (Writing \cup {"unlink"})
    BY EmptySeq DEF Ops, Steps, Writing
  <2>4. /\ pc' \in [Workers -> Steps] /\ op' \in [Workers -> Ops]
        /\ msg' \in [Workers -> Ids \cup {NoMsg}]
        /\ todo' \in [Workers -> Seq(Ids)] /\ part' \in [Workers -> Kinds]
        /\ WorkerOK'
    <3>1. CASE Persist /\ box[mb] # <<>>
      BY <2>1, <2>2, <2>3, <3>1, BeginType
    <3>2. CASE ~(Persist /\ box[mb] # <<>>)
      BY <2>1, <2>2, <2>3, <3>2, BeginType
    <3> QED
      BY <3>1, <3>2
  <2>5. /\ box' \in [Mailboxes -> Seq(Ids)] /\ byID' \subseteq Ids
        /\ removed' \subseteq Ids /\ unsure' \subseteq Ids
    BY <2>1, <2>2, <2>3 DEF TakeOut, TypeInv, TypeOK
  <2> QED
    BY <1>5, <2>4, <2>5 DEF Clear, TypeInv, TypeOK
<1> QED
  BY <1>1, <1>2, <1>3, <1>4, <1>5 DEF Call

\* The steps of a goroutine that is in an operation.
LEMMA TypeStep ==
    ASSUME TypeInv, NEW t \in Workers, Step(t)
    PROVE  TypeInv'
<1> USE DEF memory, disk, threads, ghosts
<1>1. CASE Insert(t)
  <2> DEFINE m == msg[t]
             grown == Append(box[Home[m]], m)
  <2>1. m \in Ids /\ Home[m] \in Mailboxes /\ grown \in Seq(Ids)
    <3>1. pc[t] = "insert"
      BY <1>1 DEF Insert
    <3>2. m \in Ids
      BY <3>1 DEF TypeInv, WorkerOK, Writing
    <3>3. Home[m] \in Mailboxes
      BY <3>2, IdAssumption
    <3>4. box[Home[m]] \in Seq(Ids)
      BY <3>3 DEF TypeInv, TypeOK
    <3> QED
      BY <3>2, <3>3, <3>4, AppendProperties
  <2>2. /\ Kept(grown) \in Seq(Ids) /\ Evicted(grown) \in Seq(Ids)
        /\ ToSet(Evicted(grown)) \subseteq Ids
    BY <2>1, Eviction, ToSetType
  <2>3. /\ box' = [box EXCEPT ![Home[m]] = Kept(grown)]
        /\ byID' = (byID \cup {m}) \ ToSet(Evicted(grown))
        /\ todo' = [todo EXCEPT ![t] = Evicted(grown)]
        /\ TakeOut(t, ToSet(Evicted(grown)))
        /\ Goto(t, IF Persist THEN "stat" ELSE "return")
        /\ pc[t] = "insert"
    BY <1>1 DEF Insert
  <2> HIDE DEF m, grown
  <2>4. /\ box' \in [Mailboxes -> Seq(Ids)] /\ byID' \subseteq Ids
        /\ todo' \in [Workers -> Seq(Ids)]
        /\ removed' \subseteq Ids /\ unsure' \subseteq Ids
    BY <2>1, <2>2, <2>3 DEF TakeOut, TypeInv, TypeOK
  <2>5. pc' \in [Workers -> Steps] /\ WorkerOK'
    <3>1. (IF Persist THEN "stat" ELSE "return") \in Steps \ {"unlink"}
      BY DEF Steps
    <3> QED
      BY <1>1, <2>1, <2>3, <3>1, GotoType DEF Insert, m
  <2> QED
    BY <1>1, <2>4, <2>5 DEF Insert, TypeInv, TypeOK
<1>2. CASE Swap(t)
  <2>1. msg[t] \in Ids
    BY <1>2 DEF Swap, TypeInv, WorkerOK, Writing
  <2>2. PICK step \in {"stat", "return"} : Goto(t, step)
    BY <1>2 DEF Swap
  <2>3. step \in Steps \ {"unlink"}
    BY DEF Steps
  <2>4. pc' \in [Workers -> Steps] /\ WorkerOK'
    BY <1>2, <2>1, <2>2, <2>3, GotoType DEF Swap
  <2>5. read' \in [Ids -> BOOLEAN] /\ unsure' \subseteq Ids
    BY <1>2, <2>1 DEF Swap, TypeInv, TypeOK
  <2> QED
    BY <1>2, <2>4, <2>5 DEF Swap, TypeInv, TypeOK
<1>3. CASE Stat(t)
  <2>1. msg[t] \in Ids
    BY <1>3 DEF Stat, TypeInv, WorkerOK, Writing
  <2>2. PICK step \in {"create", "marshal"} : Goto(t, step)
    BY <1>3 DEF Stat
  <2>3. step \in Steps \ {"unlink"}
    BY DEF Steps
  <2>4. pc' \in [Workers -> Steps] /\ WorkerOK'
    BY <1>3, <2>1, <2>2, <2>3, GotoType DEF Stat
  <2>5. buf' \in [Workers -> Contents]
    BY <1>3 DEF Stat, TypeInv, TypeOK, Contents
  <2> QED
    BY <1>3, <2>4, <2>5 DEF Stat, TypeInv, TypeOK
<1>4. CASE Marshal(t)
  <2>1. msg[t] \in Ids /\ "create" \in Steps \ {"unlink"}
    BY <1>4 DEF Marshal, TypeInv, WorkerOK, Writing, Steps
  <2>2. pc' \in [Workers -> Steps] /\ WorkerOK'
    BY <1>4, <2>1, GotoType DEF Marshal
  <2>3. buf' \in [Workers -> Contents] /\ part' \in [Workers -> Kinds]
    BY <1>4 DEF Marshal, TypeInv, TypeOK, Contents, Kinds, Flag
  <2> QED
    BY <1>4, <2>2, <2>3 DEF Marshal, TypeInv, TypeOK
<1>5. CASE Create(t)
  <2>1. msg[t] \in Ids /\ "fill" \in Steps \ {"unlink"}
    BY <1>5 DEF Create, TypeInv, WorkerOK, Writing, Steps
  <2>2. pc' \in [Workers -> Steps] /\ WorkerOK'
    BY <1>5, <2>1, GotoType DEF Create
  <2>3. /\ tmp' \in [Kinds -> [Ids -> Contents]]
        /\ fd' \in [Workers -> {"none", "tmp", "final", "lost"}]
    BY <1>5, <2>1 DEF Create, TypeInv, TypeOK, Contents
  <2> QED
    BY <1>5, <2>2, <2>3 DEF Create, TypeInv, TypeOK
<1>6. CASE Fill(t)
  <2>1. msg[t] \in Ids /\ "rename" \in Steps \ {"unlink"} /\ part[t] \in Kinds
    BY <1>6 DEF Fill, TypeInv, TypeOK, WorkerOK, Writing, Steps
  <2>2. pc' \in [Workers -> Steps] /\ WorkerOK'
    BY <1>6, <2>1, GotoType DEF Fill
  <2>3. \A old : Overlay(old, buf[t]) \in Contents
    BY DEF Overlay, Contents, TypeInv, TypeOK
  <2>4. /\ tmp' \in [Kinds -> [Ids -> Contents]] /\ file' \in [Kinds -> [Ids -> Contents]]
        /\ fd' \in [Workers -> {"none", "tmp", "final", "lost"}]
    BY <1>6, <2>1, <2>3 DEF Fill, TypeInv, TypeOK
  <2> QED
    BY <1>6, <2>2, <2>4 DEF Fill, TypeInv, TypeOK
<1>7. CASE Rename(t)
  <2>1. msg[t] \in Ids /\ part[t] \in Kinds /\ op[t] \in Ops /\ todo[t] \in Seq(Ids)
    BY <1>7 DEF Rename, TypeInv, TypeOK, WorkerOK, Writing
  <2>2. /\ pc' \in [Workers -> Steps] /\ op' \in [Workers -> Ops]
        /\ msg' \in [Workers -> Ids \cup {NoMsg}]
        /\ todo' \in [Workers -> Seq(Ids)] /\ part' \in [Workers -> Kinds]
        /\ WorkerOK'
    <3>1. CASE part[t] = "eml"
      <4>1. Begin(t, op[t], msg[t], todo[t], "marshal") /\ "marshal" \in Steps \ {"unlink"}
        BY <1>7, <3>1 DEF Rename, Steps
      <4> QED
        BY <2>1, <4>1, BeginType
    <3>2. CASE part[t] # "eml"
      BY <1>7, <2>1, <3>2, WrittenType DEF Rename
    <3> QED
      BY <3>1, <3>2
  <2>3. /\ tmp' \in [Kinds -> [Ids -> Contents]] /\ file' \in [Kinds -> [Ids -> Contents]]
    BY <1>7, <2>1 DEF Rename, TypeInv, TypeOK, Contents
  <2>4. fd' \in [Workers -> {"none", "tmp", "final", "lost"}]
    BY <1>7, <2>1 DEF Rename, Moved, TypeInv, TypeOK
  <2> QED
    BY <1>7, <2>2, <2>3, <2>4 DEF Rename, TypeInv, TypeOK
<1>8. CASE WriteFails(t)
  <2>1. msg[t] \in Ids
    BY <1>8 DEF WriteFails, TypeInv, WorkerOK, Writing
  <2>2. unsure' \subseteq Ids
    BY <1>8, <2>1 DEF WriteFails, TypeInv, TypeOK
  <2>3. CASE op[t] = "Deliver"
    BY <1>8, <2>2, <2>3, EndType DEF WriteFails, TypeInv, TypeOK
  <2>4. CASE op[t] # "Deliver"
    <3>1. Written(t) /\ fd' = [fd EXCEPT ![t] = "none"] /\ UNCHANGED buf
      BY <1>8, <2>4 DEF WriteFails
    <3>2. fd' \in [Workers -> {"none", "tmp", "final", "lost"}]
      BY <3>1 DEF TypeInv, TypeOK
    <3> QED
      BY <1>8, <2>1, <2>2, <3>1, <3>2, WrittenType DEF WriteFails, TypeInv, TypeOK
  <2> QED
    BY <2>3, <2>4
<1>9. CASE Unlink(t)
  <2>1. todo[t] \in Seq(Ids) /\ todo[t] # <<>> /\ op[t] \in Ops
        /\ msg[t] \in Ids \cup {NoMsg} /\ part[t] \in Kinds /\ pc[t] = "unlink"
    BY <1>9 DEF Unlink, TypeInv, TypeOK, WorkerOK
  <2>2. Head(todo[t]) \in Ids /\ Tail(todo[t]) \in Seq(Ids)
    BY <2>1, HeadTailProperties
  <2>3. /\ file' \in [Kinds -> [Ids -> Contents]] /\ unsure' \subseteq Ids
        /\ fd' \in [Workers -> {"none", "tmp", "final", "lost"}]
    <3>1. Unlinked(part[t], Head(todo[t])) \in [Kinds -> [Ids -> Contents]]
      BY <2>1, <2>2 DEF Unlinked, TypeInv, TypeOK, Contents
    <3>2. file' \in [Kinds -> [Ids -> Contents]]
      BY <1>9, <3>1 DEF Unlink, TypeInv, TypeOK
    <3>3. unsure' \subseteq Ids
      BY <1>9, <2>2 DEF Unlink, TypeInv, TypeOK
    <3>4. fd' \in [Workers -> {"none", "tmp", "final", "lost"}]
      BY <1>9 DEF Unlink, TypeInv, TypeOK
    <3> QED
      BY <3>2, <3>3, <3>4
  <2>4. /\ pc' \in [Workers -> Steps] /\ op' \in [Workers -> Ops]
        /\ msg' \in [Workers -> Ids \cup {NoMsg}]
        /\ todo' \in [Workers -> Seq(Ids)] /\ part' \in [Workers -> Kinds]
        /\ WorkerOK' /\ gone' \subseteq Ids
    <3>1. CASE part[t] = "eml"
      BY <1>9, <3>1 DEF Unlink, TypeInv, TypeOK, WorkerOK, Kinds
    <3>2. CASE part[t] # "eml"
      <4>1. PICK step \in {"return", "unlink"} :
                /\ Begin(t, op[t], msg[t], Tail(todo[t]), step)
                /\ step = "unlink" => Tail(todo[t]) # <<>>
        BY <1>9, <3>2 DEF Unlink
      <4>2. step \in Steps \ Writing
        BY DEF Steps, Writing
      <4>3. op[t] = "Deliver" => msg[t] \in Ids
        BY DEF TypeInv, WorkerOK
      <4>4. gone' \subseteq Ids
        BY <1>9, <2>2, <3>2 DEF Unlink, TypeInv, TypeOK
      <4> QED
        BY <2>1, <2>2, <4>1, <4>2, <4>3, <4>4, BeginType
    <3> QED
      BY <3>1, <3>2
  <2> QED
    BY <1>9, <2>3, <2>4 DEF Unlink, TypeInv, TypeOK
<1>10. CASE Return(t)
  <2>1. acked' \subseteq Ids
    BY <1>10 DEF Return, TypeInv, TypeOK, WorkerOK
  <2> QED
    BY <1>10, <2>1, EndType DEF Return, TypeInv, TypeOK
<1> QED
  BY <1>1, <1>2, <1>3, <1>4, <1>5, <1>6, <1>7, <1>8, <1>9, <1>10 DEF Step, Write

\* A start lists what it found, mailbox by mailbox.
Listed(found, list) ==
    LET old == UNION {ToSet(Evicted(list[mb])) : mb \in Mailboxes}
    IN  /\ \A mb \in Mailboxes :
             list[mb] \in Listings({m \in found : Home[m] = mb}, ByID)
        /\ box' = [mb \in Mailboxes |-> Kept(list[mb])]
        /\ byID' = found \ old
        /\ removed' = (removed \ found) \cup old
        /\ IF old = {}
           THEN up' = "up" /\ UNCHANGED <<pc, op, msg, todo, part>>
           ELSE /\ up' = "loading"
                /\ \E order \in Listings(old, ByID) :
                     Begin(Main, "load", NoMsg, order, "unlink")

LEMMA LoadLists ==
    ASSUME TypeInv, NEW found \in SUBSET Loadables, Restore(found)
    PROVE  \E list \in [Mailboxes -> Seq(Ids)] : Listed(found, list)
<1> DEFINE foundIn(mb) == {m \in found : Home[m] = mb}
           byMailbox == UNION {Listings(foundIn(mb), ByID) : mb \in Mailboxes}
           old(list) == UNION {ToSet(Evicted(list[mb])) : mb \in Mailboxes}
<1>1. PICK list \in [Mailboxes -> byMailbox] :
            /\ \A mb \in Mailboxes : list[mb] \in Listings(foundIn(mb), ByID)
            /\ box' = [mb \in Mailboxes |-> Kept(list[mb])]
            /\ byID' = found \ old(list)
            /\ removed' = (removed \ found) \cup old(list)
            /\ IF old(list) = {}
               THEN up' = "up" /\ UNCHANGED <<pc, op, msg, todo, part>>
               ELSE /\ up' = "loading"
                    /\ \E order \in Listings(old(list), ByID) :
                         Begin(Main, "load", NoMsg, order, "unlink")
  BY DEF Restore
<1>2. \A mb \in Mailboxes : list[mb] \in Seq(Ids)
  <2> TAKE mb \in Mailboxes
  <2>1. foundIn(mb) \in SUBSET Ids
    BY DEF Loadables
  <2>2. list[mb] \in Listings(foundIn(mb), ByID)
    BY <1>1
  <2> HIDE DEF foundIn
  <2> QED
    BY <2>1, <2>2, ListingType
<1>3. list \in [Mailboxes -> Seq(Ids)]
  BY <1>2
<1> QED
  BY <1>1, <1>3 DEF Listed

LEMMA TypeLoad ==
    ASSUME TypeInv, NEW found \in SUBSET Loadables, Restore(found)
    PROVE  TypeInv'
<1> USE DEF disk
<1> DEFINE old(list) == UNION {ToSet(Evicted(list[mb])) : mb \in Mailboxes}
<1>0. PICK list \in [Mailboxes -> Seq(Ids)] : Listed(found, list)
  BY LoadLists
<1>1. /\ box' = [mb \in Mailboxes |-> Kept(list[mb])]
      /\ byID' = found \ old(list)
      /\ removed' = (removed \ found) \cup old(list)
      /\ IF old(list) = {}
         THEN up' = "up" /\ UNCHANGED <<pc, op, msg, todo, part>>
         ELSE /\ up' = "loading"
              /\ \E order \in Listings(old(list), ByID) :
                   Begin(Main, "load", NoMsg, order, "unlink")
  BY <1>0 DEF Listed
<1>2. box' \in [Mailboxes -> Seq(Ids)]
  BY <1>1, Eviction
<1>3. old(list) \in SUBSET Ids
  BY Eviction, ToSetType
<1> HIDE DEF old
<1>4. byID' \subseteq Ids /\ removed' \subseteq Ids
  BY <1>1, <1>3 DEF TypeInv, TypeOK, Loadables
<1>5. /\ pc' \in [Workers -> Steps] /\ op' \in [Workers -> Ops]
      /\ msg' \in [Workers -> Ids \cup {NoMsg}]
      /\ todo' \in [Workers -> Seq(Ids)] /\ part' \in [Workers -> Kinds]
      /\ WorkerOK' /\ up' \in {"down", "loading", "up"}
  <2>1. CASE old(list) = {}
    BY <1>1, <2>1 DEF TypeInv, TypeOK, WorkerOK
  <2>2. CASE old(list) # {}
    <3>1. PICK order \in Listings(old(list), ByID) :
                Begin(Main, "load", NoMsg, order, "unlink")
      BY <1>1, <2>2
    <3>2. order \in Seq(Ids) /\ ToSet(order) = old(list)
      BY <1>3, ListingType
    <3>3. order # <<>>
      BY <2>2, <3>2 DEF ToSet
    <3>4. /\ "load" \in Ops /\ "unlink" \in Steps \ Writing /\ Main \in Workers
      BY DEF Ops, Steps, Writing, Workers
    <3> QED
      BY <1>1, <2>2, <3>1, <3>2, <3>3, <3>4, BeginType
  <2> QED
    BY <2>1, <2>2
<1>6. /\ read' \in [Ids -> BOOLEAN] /\ acked' \subseteq Ids /\ gone' \subseteq Ids
      /\ unsure' \subseteq Ids /\ UNCHANGED <<disk, buf, fd, issued>>
  BY DEF Restore, Loadables, TypeInv, TypeOK
<1> QED
  BY <1>2, <1>4, <1>5, <1>6 DEF TypeInv, TypeOK

LEMMA TypeNext == TypeInv /\ [Next]_vars => TypeInv'
<1> SUFFICES ASSUME TypeInv, [Next]_vars PROVE TypeInv'
  OBVIOUS
<1>1. CASE \E t \in Threads : Call(t)
  BY <1>1, TypeCall
<1>2. CASE \E t \in Workers : Step(t)
  BY <1>2, TypeStep
<1>3. CASE Load
  BY <1>3, TypeLoad DEF Load
<1>4. CASE Crash
  BY <1>4, EmptySeq DEF Crash, TypeInv, TypeOK, WorkerOK, disk, ghosts, Kinds, Contents,
                        Steps, Ops, Writing
<1>5. CASE UNCHANGED vars
  BY <1>5 DEF vars, memory, disk, threads, ghosts, TypeInv, TypeOK, WorkerOK
<1>6. CASE \E m \in Ids : Decay(m)
  BY <1>6 DEF Decay, memory, disk, threads, TypeInv, TypeOK, WorkerOK
<1> QED
  BY <1>1, <1>2, <1>3, <1>4, <1>5, <1>6 DEF Next

\* Every variable keeps its type, whatever the goroutines do and wherever the
\* process is killed.
THEOREM TypeCorrect == Spec => []TypeOK
<1>1. Init => TypeInv
  BY TypeInit
<1>2. TypeInv /\ [Next]_vars => TypeInv'
  BY TypeNext
<1>3. TypeInv => TypeOK
  BY DEF TypeInv
<1> QED
  BY <1>1, <1>2, <1>3, PTL DEF Spec
-----------------------------------------------------------------------------
(* The index and the mailboxes                                             *)

LEMMA AppendSet ==
    ASSUME NEW s \in Seq(Ids), NEW m \in Ids
    PROVE  /\ Append(s, m) \in Seq(Ids)
           /\ ToSet(Append(s, m)) = ToSet(s) \cup {m}
           /\ IsInjective(s) /\ m \notin ToSet(s) => IsInjective(Append(s, m))
<1>1. /\ Append(s, m) \in Seq(Ids) /\ Len(Append(s, m)) = Len(s) + 1
      /\ \A i \in 1..Len(s) : Append(s, m)[i] = s[i]
      /\ Append(s, m)[Len(s) + 1] = m
  BY AppendProperties
<1>2. ToSet(Append(s, m)) = ToSet(s) \cup {m}
  BY <1>1 DEF ToSet
<1>3. ASSUME IsInjective(s), m \notin ToSet(s)
      PROVE  IsInjective(Append(s, m))
  BY <1>1, <1>3 DEF IsInjective, ToSet
<1> QED
  BY <1>1, <1>2, <1>3

\* Without duplicates, what is evicted and what is kept are complementary.
LEMMA EvictionSplits ==
    ASSUME NEW s \in Seq(Ids), IsInjective(s)
    PROVE  /\ ToSet(Evicted(s)) \subseteq ToSet(s)
           /\ ToSet(Kept(s)) = ToSet(s) \ ToSet(Evicted(s))
           /\ IsInjective(Kept(s))
<1> DEFINE e == Excess(s)
<1>1. /\ e \in 0..Len(s)
      /\ Evicted(s) \in Seq(Ids) /\ Len(Evicted(s)) = e
      /\ Kept(s) \in Seq(Ids) /\ Len(Kept(s)) = Len(s) - e
      /\ \A i \in 1..e : Evicted(s)[i] = s[i]
      /\ \A i \in 1..(Len(s) - e) : Kept(s)[i] = s[e + i]
  BY Eviction
<1> HIDE DEF e
<1> DEFINE old == Evicted(s)
           new == Kept(s)
<1>a. /\ old \in Seq(Ids) /\ Len(old) = e /\ \A i \in 1..e : old[i] = s[i]
      /\ new \in Seq(Ids) /\ Len(new) = Len(s) - e
      /\ \A i \in 1..(Len(s) - e) : new[i] = s[e + i]
  BY <1>1
<1> HIDE DEF old, new
<1>2. \A x : x \in ToSet(old) <=> \E i \in 1..e : s[i] = x
  <2>1. \A x : x \in ToSet(old) <=> \E i \in 1..Len(old) : old[i] = x
    BY <1>a, ToSetType
  <2> QED
    BY <1>a, <2>1
<1>3. \A x : x \in ToSet(new) <=> \E i \in (e + 1)..Len(s) : s[i] = x
  <2>1. \A x : x \in ToSet(new) <=> \E i \in 1..Len(new) : new[i] = x
    BY <1>a, ToSetType
  <2>2. ASSUME NEW x \in ToSet(new) PROVE \E i \in (e + 1)..Len(s) : s[i] = x
    <3>1. PICK i \in 1..(Len(s) - e) : new[i] = x
      BY <1>a, <2>1
    <3>2. e + i \in (e + 1)..Len(s) /\ s[e + i] = x
      BY <1>1, <1>a, <3>1
    <3> QED
      BY <3>2
  <2>3. ASSUME NEW i \in (e + 1)..Len(s) PROVE s[i] \in ToSet(new)
    <3>1. i - e \in 1..(Len(s) - e) /\ e + (i - e) = i
      BY <1>1
    <3>2. new[i - e] = s[i]
      BY <1>a, <3>1
    <3> QED
      BY <1>a, <2>1, <3>1, <3>2
  <2> QED
    BY <2>2, <2>3
<1>4. \A x : x \in ToSet(s) <=> \E i \in 1..Len(s) : s[i] = x
  BY ToSetType
<1>5. \A i, j \in 1..Len(s) : s[i] = s[j] => i = j
  BY DEF IsInjective
<1>6. ToSet(old) \subseteq ToSet(s)
  BY <1>1, <1>2, <1>4
<1>7. ToSet(new) = ToSet(s) \ ToSet(old)
  <2>1. ASSUME NEW x \in ToSet(new) PROVE x \in ToSet(s) \ ToSet(old)
    <3>1. PICK i \in (e + 1)..Len(s) : s[i] = x
      BY <1>3
    <3>2. i \in 1..Len(s) /\ i \notin 1..e /\ 1..e \subseteq 1..Len(s)
      BY <1>1
    <3> QED
      BY <1>2, <1>4, <1>5, <3>1, <3>2
  <2>2. ASSUME NEW x \in ToSet(s) \ ToSet(old) PROVE x \in ToSet(new)
    <3>1. PICK i \in 1..Len(s) : s[i] = x
      BY <1>4
    <3>2. i \in (e + 1)..Len(s)
      BY <1>1, <1>2, <2>2, <3>1
    <3> QED
      BY <1>3, <3>1, <3>2
  <2> QED
    BY <2>1, <2>2
<1>8. IsInjective(new)
  <2> SUFFICES ASSUME NEW i \in 1..(Len(s) - e), NEW j \in 1..(Len(s) - e), new[i] = new[j]
               PROVE  i = j
    BY <1>a DEF IsInjective
  <2>1. e + i \in 1..Len(s) /\ e + j \in 1..Len(s) /\ s[e + i] = s[e + j]
    BY <1>1, <1>a
  <2>2. e + i = e + j
    BY <1>5, <2>1
  <2> QED
    BY <1>1, <2>2
<1> QED
  BY <1>6, <1>7, <1>8 DEF old, new

LEMMA WithoutSet ==
    ASSUME NEW s \in Seq(Ids), IsInjective(s), NEW m
    PROVE  /\ ToSet(Without(s, m)) = ToSet(s) \ {m}
           /\ IsInjective(Without(s, m))
           /\ Len(Without(s, m)) <= Len(s)
<1>1. CASE m \notin ToSet(s)
  <2>1. Without(s, m) = s
    BY <1>1 DEF Without
  <2> QED
    BY <1>1, <2>1
<1>2. CASE m \in ToSet(s)
  <2> DEFINE k == CHOOSE j \in DOMAIN s : s[j] = m
             r == Without(s, m)
  <2>1. k \in 1..Len(s) /\ s[k] = m
    BY <1>2 DEF ToSet
  <2>2. r = SubSeq(s, 1, k-1) \o SubSeq(s, k+1, Len(s))
    BY <1>2 DEF Without, RemoveAt
  <2> HIDE DEF k, r
  <2> DEFINE p == SubSeq(s, 1, k-1)
             q == SubSeq(s, k+1, Len(s))
  <2>3. /\ p \in Seq(Ids) /\ Len(p) = k - 1
        /\ \A i \in 1..(k-1) : p[i] = s[i]
    BY <2>1, SubSeqProperties
  <2>4. /\ q \in Seq(Ids) /\ Len(q) = Len(s) - k
        /\ \A i \in 1..(Len(s) - k) : q[i] = s[k + i]
    BY <2>1, SubSeqProperties
  <2> HIDE DEF p, q
  <2>5. /\ r \in Seq(Ids) /\ Len(r) = Len(s) - 1
        /\ \A i \in 1..(Len(s) - 1) : r[i] = IF i < k THEN s[i] ELSE s[i + 1]
    <3>1. r = p \o q
      BY <2>2 DEF p, q
    <3>2. /\ r \in Seq(Ids) /\ Len(r) = Len(p) + Len(q)
          /\ \A i \in 1..(Len(p) + Len(q)) :
                r[i] = IF i <= Len(p) THEN p[i] ELSE q[i - Len(p)]
      BY <2>3, <2>4, <3>1, ConcatProperties
    <3>3. Len(p) + Len(q) = Len(s) - 1
      BY <2>1, <2>3, <2>4
    <3>4. ASSUME NEW i \in 1..(Len(s) - 1)
          PROVE  r[i] = IF i < k THEN s[i] ELSE s[i + 1]
      <4>1. CASE i < k
        BY <2>1, <2>3, <3>2, <3>3, <4>1
      <4>2. CASE ~(i < k)
        <5>1. r[i] = q[i - (k - 1)] /\ i - (k - 1) \in 1..(Len(s) - k)
          BY <2>1, <2>3, <3>2, <3>3, <4>2
        <5>2. k + (i - (k - 1)) = i + 1
          BY <2>1
        <5> QED
          BY <2>4, <4>2, <5>1, <5>2
      <4> QED
        BY <4>1, <4>2
    <3> QED
      BY <3>2, <3>3, <3>4
  <2>6. \A i, j \in 1..Len(s) : s[i] = s[j] => i = j
    BY DEF IsInjective
  <2>7. \A x : x \in ToSet(s) <=> \E i \in 1..Len(s) : s[i] = x
    BY ToSetType
  <2>8. \A x : x \in ToSet(r) <=> \E i \in 1..(Len(s) - 1) : r[i] = x
    BY <2>5, ToSetType
  <2>9. ToSet(r) \subseteq ToSet(s) \ {m}
    BY <2>1, <2>5, <2>6, <2>7, <2>8
  <2>10. ASSUME NEW x \in ToSet(s) \ {m} PROVE x \in ToSet(r)
    <3>1. PICK i \in 1..Len(s) : s[i] = x /\ i # k
      BY <2>1, <2>7
    <3>2. CASE i < k
      BY <2>1, <2>5, <2>8, <3>1, <3>2
    <3>3. CASE i > k
      <4>1. i - 1 \in 1..(Len(s) - 1) /\ ~(i - 1 < k) /\ (i - 1) + 1 = i
        BY <2>1, <3>3
      <4> QED
        BY <2>5, <2>8, <3>1, <4>1
    <3> QED
      BY <2>1, <3>1, <3>2, <3>3
  <2>11. IsInjective(r)
    BY <2>1, <2>5, <2>6 DEF IsInjective
  <2>12. Len(r) <= Len(s)
    BY <2>5
  <2> QED
    BY <2>9, <2>10, <2>11, <2>12 DEF r
<1> QED
  BY <1>1, <1>2

\* The messages of one mailbox are listed without duplicates.
LEMMA ListingInjective ==
    ASSUME NEW mb, NEW S \in SUBSET {m \in Ids : Home[m] = mb}, NEW s \in Listings(S, ByID)
    PROVE  s \in Seq(Ids) /\ ToSet(s) = S /\ IsInjective(s)
<1>1. S \in SUBSET Ids
  OBVIOUS
<1>2. s \in Seq(Ids) /\ ToSet(s) = S
  BY <1>1, ListingType
<1>3. \A i, j \in 1..Len(s) : i < j => <<s[i], s[j]>> \in ByID
  <2>1. DOMAIN s = 1..Len(s)
    BY <1>2
  <2>2. \A i, j \in DOMAIN s : i < j => <<s[i], s[j]>> \in ByID
    BY DEF Listings
  <2> QED
    BY <2>1, <2>2
<1>4. \A i \in 1..Len(s) : s[i] \in S
  BY <1>2 DEF ToSet
<1>5. \A i, j \in 1..Len(s) : i < j => s[i] < s[j]
  BY <1>3, <1>4 DEF ByID
<1>6. \A i \in 1..Len(s) : s[i] \in Nat
  BY <1>4, IdAssumption
<1> QED
  BY <1>2, <1>5, <1>6 DEF IsInjective

LEMMA HeadTailSet ==
    ASSUME NEW s \in Seq(Ids), s # <<>>
    PROVE  /\ Head(s) \in ToSet(s) /\ Tail(s) \in Seq(Ids)
           /\ ToSet(Tail(s)) \subseteq ToSet(s)
<1>1. /\ Len(s) >= 1 /\ Head(s) = s[1] /\ Tail(s) \in Seq(Ids)
      /\ Len(Tail(s)) = Len(s) - 1
      /\ \A i \in 1..Len(Tail(s)) : Tail(s)[i] = s[i + 1]
  BY HeadTailProperties
<1> QED
  BY <1>1 DEF ToSet

-----------------------------------------------------------------------------
(* IndexAgrees is inductive together with where new messages come from: an  *)
(* ID is handed out once, nothing is written for an ID before that, and a   *)
(* message on its way into a mailbox is in no mailbox and in no other       *)
(* goroutine's hands; after a crash nobody is on the way.                   *)

FilesIssued ==
    \A m \in Ids \ issued : \A k \in Kinds : file[k][m] = "none" /\ tmp[k][m] = "none"
WorkersIssued ==
    \A t \in Workers :
        /\ pc[t] \in Writing => msg[t] \in issued
        /\ ToSet(todo[t]) \subseteq issued
FreshInserts ==
    \A t \in Workers : pc[t] = "insert" =>
        /\ msg[t] \notin byID
        /\ \A u \in Workers \ {t} : pc[u] = "insert" => msg[u] # msg[t]
DownIsIdle == up = "down" => \A t \in Workers : pc[t] = "idle"

IndexInv ==
    /\ TypeInv /\ IndexAgrees
    /\ byID \subseteq issued /\ FilesIssued /\ WorkersIssued
    /\ FreshInserts /\ DownIsIdle

LEMMA IndexInit == Init => IndexInv
<1> SUFFICES ASSUME Init PROVE IndexInv
  OBVIOUS
<1>1. TypeInv
  BY TypeInit
<1>2. IndexAgrees
  <2>1. \A mb \in Mailboxes : box[mb] = <<>>
    BY DEF Init
  <2>2. \A mb \in Mailboxes : ToSet(box[mb]) = {} /\ IsInjective(box[mb])
    BY <2>1 DEF ToSet, IsInjective
  <2> QED
    BY <2>2 DEF Init, IndexAgrees
<1>3. \A t \in Workers : ToSet(todo[t]) = {}
  BY DEF Init, ToSet
<1> QED
  BY <1>1, <1>2, <1>3 DEF Init, IndexInv, FilesIssued, WorkersIssued, FreshInserts,
                          DownIsIdle, Writing, Kinds

\* The process comes up only by a start, and until then no goroutine runs.
LEMMA DownNext ==
    ASSUME IndexInv, Next
    PROVE  DownIsIdle'
<1> USE DEF IndexInv, DownIsIdle, TypeInv, TypeOK
<1>1. ASSUME NEW t \in Threads, Call(t) PROVE DownIsIdle'
  BY <1>1 DEF Call, Deliver, MarkRead, MarkAllRead, Delete, Clear, Ready
<1>2. ASSUME NEW t \in Workers, Step(t) PROVE DownIsIdle'
  <2>1. pc[t] # "idle"
    BY <1>2 DEF Step, Write, Insert, Swap, Stat, Marshal, Create, Fill, Rename,
                WriteFails, Unlink, Return
  <2>2. up' = up \/ up' = "up"
    BY <1>2 DEF Step, Write, Insert, Swap, Stat, Marshal, Create, Fill, Rename,
                WriteFails, Unlink, Return
  <2> QED
    BY <2>1, <2>2
<1>3. ASSUME NEW found \in SUBSET Loadables, Restore(found) PROVE DownIsIdle'
  <2>1. up' # "down"
    BY <1>3, LoadLists DEF Listed
  <2> QED
    BY <2>1
<1>4. ASSUME Crash PROVE DownIsIdle'
  BY <1>4 DEF Crash
<1>5. ASSUME NEW m \in Ids, Decay(m) PROVE DownIsIdle'
  BY <1>5 DEF Decay, threads
<1> QED
  BY <1>1, <1>2, <1>3, <1>4, <1>5 DEF Next, Load

\* A goroutine that begins with issued messages keeps WorkersIssued.
LEMMA BeginIssued ==
    ASSUME IndexInv, issued \subseteq issued', NEW t \in Workers, NEW o,
           NEW m, NEW rest, NEW step, Begin(t, o, m, rest, step),
           step \in Writing => m \in issued', ToSet(rest) \subseteq issued'
    PROVE  WorkersIssued'
<1> USE DEF IndexInv, TypeInv, TypeOK
<1>1. \A u \in Workers \ {t} : pc'[u] = pc[u] /\ msg'[u] = msg[u] /\ todo'[u] = todo[u]
  BY DEF Begin
<1>2. pc'[t] = step /\ msg'[t] = m /\ todo'[t] = rest
  BY DEF Begin
<1> QED
  BY <1>1, <1>2 DEF WorkersIssued

\* The messages of a mailbox are indexed, hence issued.
LEMMA BoxIssued ==
    ASSUME IndexInv, NEW mb \in Mailboxes
    PROVE  /\ box[mb] \in Seq(Ids) /\ IsInjective(box[mb])
           /\ ToSet(box[mb]) \subseteq byID /\ ToSet(box[mb]) \subseteq issued
           /\ \A m \in ToSet(box[mb]) : m \in Ids /\ Home[m] = mb
BY ToSetType DEF IndexInv, IndexAgrees, TypeInv, TypeOK

\* What Insert puts into the mailbox and what it evicts.
LEMMA InsertFacts ==
    ASSUME IndexInv, NEW t \in Workers, Insert(t)
    PROVE  LET m == msg[t]
               mb == Home[m]
               grown == Append(box[mb], m)
           IN  /\ m \in Ids /\ m \in issued /\ mb \in Mailboxes
               /\ grown \in Seq(Ids) /\ IsInjective(grown)
               /\ ToSet(grown) = ToSet(box[mb]) \cup {m}
               /\ ToSet(Evicted(grown)) \subseteq ToSet(grown)
               /\ ToSet(Kept(grown)) = ToSet(grown) \ ToSet(Evicted(grown))
               /\ IsInjective(Kept(grown)) /\ Kept(grown) \in Seq(Ids)
               /\ Evicted(grown) \in Seq(Ids)
<1> DEFINE m == msg[t]
           mb == Home[m]
           grown == Append(box[mb], m)
<1>1. m \in Ids /\ m \in issued /\ m \notin byID /\ mb \in Mailboxes
  BY IdAssumption DEF Insert, IndexInv, WorkersIssued, FreshInserts, Writing, TypeInv, WorkerOK
<1>2. /\ box[mb] \in Seq(Ids) /\ IsInjective(box[mb]) /\ m \notin ToSet(box[mb])
  BY <1>1, BoxIssued
<1> HIDE DEF m, mb
<1>3. /\ grown \in Seq(Ids) /\ IsInjective(grown)
      /\ ToSet(grown) = ToSet(box[mb]) \cup {m}
  BY <1>1, <1>2, AppendSet
<1> HIDE DEF grown
<1>4. Kept(grown) \in Seq(Ids) /\ Evicted(grown) \in Seq(Ids)
  BY <1>3, Eviction
<1> QED
  BY <1>1, <1>3, <1>4, EvictionSplits DEF m, mb, grown

LEMMA CallIssued ==
    ASSUME IndexInv, NEW t \in Threads, Call(t)
    PROVE  byID' \subseteq issued' /\ WorkersIssued'
<1> USE DEF Workers, memory, disk, ghosts
<1>0. ToSet(<<>>) = {}
  BY DEF ToSet
<1>1. CASE Deliver(t)
  <2>1. PICK m \in Ids \ issued :
            issued' = issued \cup {m} /\ Begin(t, "Deliver", m, <<>>, "insert")
    BY <1>1 DEF Deliver
  <2>2. WorkersIssued'
    BY <1>0, <2>1, BeginIssued
  <2> QED
    BY <1>1, <2>1, <2>2 DEF Deliver, IndexInv
<1>2. CASE MarkRead(t)
  <2>1. PICK m \in byID : Begin(t, "MarkRead", m, <<>>, "swap")
    BY <1>2 DEF MarkRead
  <2>2. UNCHANGED <<byID, issued>>
    BY <1>2 DEF MarkRead
  <2>3. WorkersIssued'
    BY <1>0, <2>1, <2>2, BeginIssued DEF IndexInv
  <2> QED
    BY <2>2, <2>3 DEF IndexInv
<1>3. CASE MarkAllRead(t)
  <2>1. PICK mb \in Mailboxes :
            LET changed == {m \in ToSet(box[mb]) : ~read[m]}
            IN  \E list \in Listings(changed, OrderIn(box[mb])) :
                   IF Persist /\ list # <<>>
                   THEN Begin(t, "MarkAllRead", Head(list), Tail(list), "stat")
                   ELSE Begin(t, "MarkAllRead", NoMsg, <<>>, "return")
    BY <1>3 DEF MarkAllRead
  <2> DEFINE changed == {m \in ToSet(box[mb]) : ~read[m]}
  <2>2. changed \in SUBSET Ids /\ changed \subseteq issued
    BY BoxIssued
  <2> HIDE DEF changed
  <2>3. PICK list \in Listings(changed, OrderIn(box[mb])) :
            IF Persist /\ list # <<>>
            THEN Begin(t, "MarkAllRead", Head(list), Tail(list), "stat")
            ELSE Begin(t, "MarkAllRead", NoMsg, <<>>, "return")
    BY <2>1 DEF changed
  <2>4. list \in Seq(Ids) /\ ToSet(list) \subseteq issued
    BY <2>2, ListingType
  <2>5. UNCHANGED <<byID, issued>>
    BY <1>3 DEF MarkAllRead
  <2>6. WorkersIssued'
    <3>1. CASE Persist /\ list # <<>>
      <4>1. Head(list) \in issued /\ ToSet(Tail(list)) \subseteq issued
        BY <2>4, <3>1, HeadTailSet
      <4> QED
        BY <2>3, <2>5, <3>1, <4>1, BeginIssued
    <3>2. CASE ~(Persist /\ list # <<>>)
      <4>1. "return" \notin Writing
        BY DEF Writing
      <4> QED
        BY <1>0, <2>3, <2>5, <3>2, <4>1, BeginIssued
    <3> QED
      BY <3>1, <3>2
  <2> QED
    BY <2>5, <2>6 DEF IndexInv
<1>4. CASE Delete(t)
  <2>1. PICK m \in byID, step \in {"unlink", "return"} :
            byID' = byID \ {m} /\ Begin(t, "Delete", NoMsg, <<m>>, step)
    BY <1>4 DEF Delete
  <2>2. ToSet(<<m>>) \subseteq issued /\ step \notin Writing
    BY DEF ToSet, Writing, IndexInv
  <2>3. issued' = issued
    BY <1>4 DEF Delete
  <2>4. WorkersIssued'
    BY <2>1, <2>2, <2>3, BeginIssued
  <2> QED
    BY <2>1, <2>3, <2>4 DEF IndexInv
<1>5. CASE Clear(t)
  <2>1. PICK mb \in Mailboxes, step \in {"unlink", "return"} :
            byID' = byID \ ToSet(box[mb]) /\ Begin(t, "Clear", NoMsg, box[mb], step)
    BY <1>5 DEF Clear
  <2>2. ToSet(box[mb]) \subseteq issued /\ step \notin Writing
    BY BoxIssued DEF Writing
  <2>3. issued' = issued
    BY <1>5 DEF Clear
  <2>4. WorkersIssued'
    BY <2>1, <2>2, <2>3, BeginIssued
  <2> QED
    BY <2>1, <2>3, <2>4 DEF IndexInv
<1> QED
  BY <1>1, <1>2, <1>3, <1>4, <1>5 DEF Call

LEMMA WrittenIssued ==
    ASSUME IndexInv, NEW t \in Workers, pc[t] \in Writing, Written(t), UNCHANGED issued
    PROVE  WorkersIssued'
<1>1. todo[t] \in Seq(Ids) /\ ToSet(todo[t]) \subseteq issued /\ msg[t] \in issued
  BY DEF IndexInv, WorkersIssued, TypeInv, TypeOK
<1>2. CASE op[t] = "MarkAllRead" /\ todo[t] # <<>>
  <2>1. Begin(t, "MarkAllRead", Head(todo[t]), Tail(todo[t]), "stat")
    BY <1>2 DEF Written
  <2>2. Head(todo[t]) \in issued /\ ToSet(Tail(todo[t])) \subseteq issued
    BY <1>1, <1>2, HeadTailSet
  <2> QED
    BY <2>1, <2>2, BeginIssued
<1>3. CASE ~(op[t] = "MarkAllRead" /\ todo[t] # <<>>)
  <2>1. PICK o, step : Begin(t, o, msg[t], todo[t], step)
    BY <1>3 DEF Written
  <2> QED
    BY <1>1, <2>1, BeginIssued
<1> QED
  BY <1>2, <1>3

LEMMA StepIssued ==
    ASSUME IndexInv, NEW t \in Workers, Step(t)
    PROVE  byID' \subseteq issued' /\ WorkersIssued'
<1> USE DEF memory, disk, threads, ghosts
<1>0. TypeInv /\ WorkersIssued /\ byID \subseteq issued
  BY DEF IndexInv
<1>1. CASE Insert(t)
  <2> DEFINE m == msg[t]
             grown == Append(box[Home[m]], m)
  <2>1. /\ m \in issued /\ ToSet(Evicted(grown)) \subseteq issued
    <3>1. ToSet(box[Home[m]]) \subseteq issued
      BY <1>1, InsertFacts, BoxIssued
    <3> QED
      BY <1>1, <3>1, InsertFacts
  <2>2. /\ byID' = (byID \cup {m}) \ ToSet(Evicted(grown))
        /\ todo' = [todo EXCEPT ![t] = Evicted(grown)]
        /\ UNCHANGED <<msg, issued>> /\ pc[t] = "insert"
        /\ \A u \in Workers \ {t} : pc'[u] = pc[u]
    BY <1>0, <1>1 DEF Insert, Goto, TypeInv, TypeOK
  <2> HIDE DEF m, grown
  <2>3. WorkersIssued'
    BY <1>0, <2>1, <2>2 DEF WorkersIssued, TypeInv, TypeOK, m
  <2> QED
    BY <1>0, <2>1, <2>2, <2>3
<1>2. CASE Swap(t) \/ Stat(t) \/ Marshal(t) \/ Create(t) \/ Fill(t)
  <2>1. pc[t] \in Writing /\ UNCHANGED <<byID, issued, msg, todo>> /\ \E step : Goto(t, step)
    BY <1>2 DEF Swap, Stat, Marshal, Create, Fill, Writing
  <2> QED
    BY <1>0, <2>1 DEF WorkersIssued, Goto, TypeInv, TypeOK
<1>3. CASE Rename(t)
  <2>1. UNCHANGED <<byID, issued>> /\ pc[t] \in Writing
    BY <1>3 DEF Rename, Writing
  <2>2. CASE part[t] = "eml"
    <3>1. Begin(t, op[t], msg[t], todo[t], "marshal")
      BY <1>3, <2>2 DEF Rename
    <3>2. msg[t] \in issued' /\ ToSet(todo[t]) \subseteq issued' /\ issued \subseteq issued'
      BY <1>0, <2>1 DEF WorkersIssued
    <3>3. WorkersIssued'
      BY <3>1, <3>2, BeginIssued
    <3> QED
      BY <1>0, <2>1, <3>3
  <2>3. CASE part[t] # "eml"
    BY <1>0, <1>3, <2>1, <2>3, WrittenIssued DEF Rename
  <2> QED
    BY <1>0, <2>1, <2>2, <2>3
<1>4. CASE WriteFails(t)
  <2>1. UNCHANGED <<byID, issued>> /\ pc[t] \in Writing
    BY <1>4 DEF WriteFails, Writing
  <2>2. CASE op[t] = "Deliver"
    <3>1. Begin(t, "none", NoMsg, <<>>, "idle") /\ "idle" \notin Writing /\ ToSet(<<>>) = {}
      BY <1>4, <2>2 DEF WriteFails, End, Writing, ToSet
    <3> QED
      BY <1>0, <2>1, <3>1, BeginIssued
  <2>3. CASE op[t] # "Deliver"
    BY <1>0, <1>4, <2>1, <2>3, WrittenIssued DEF WriteFails
  <2> QED
    BY <1>0, <2>1, <2>2, <2>3
<1>5. CASE Unlink(t)
  <2>1. /\ UNCHANGED <<byID, issued>>
        /\ todo[t] \in Seq(Ids) /\ todo[t] # <<>> /\ ToSet(todo[t]) \subseteq issued
    BY <1>0, <1>5 DEF Unlink, WorkersIssued, TypeInv, TypeOK, WorkerOK
  <2>2. CASE part[t] = "eml"
    BY <1>0, <1>5, <2>1, <2>2 DEF Unlink, WorkersIssued
  <2>3. CASE part[t] # "eml"
    <3>1. PICK step \in {"return", "unlink"} : Begin(t, op[t], msg[t], Tail(todo[t]), step)
      BY <1>5, <2>3 DEF Unlink
    <3>2. step \notin Writing /\ ToSet(Tail(todo[t])) \subseteq issued
      BY <2>1, HeadTailSet DEF Writing
    <3> QED
      BY <1>0, <2>1, <3>1, <3>2, BeginIssued
  <2> QED
    BY <1>0, <2>1, <2>2, <2>3
<1>6. CASE Return(t)
  <2>1. /\ Begin(t, "none", NoMsg, <<>>, "idle") /\ "idle" \notin Writing /\ ToSet(<<>>) = {}
        /\ UNCHANGED <<byID, issued>>
    BY <1>6 DEF Return, End, Writing, ToSet
  <2> QED
    BY <1>0, <2>1, BeginIssued
<1> QED
  BY <1>1, <1>2, <1>3, <1>4, <1>5, <1>6 DEF Step, Write

\* What a start finds has been issued, and each mailbox lists its share once.
Restored(found, list) ==
    LET old == UNION {ToSet(Evicted(list[mb])) : mb \in Mailboxes}
    IN  /\ found \subseteq issued /\ old \subseteq found
        /\ \A mb \in Mailboxes :
             /\ IsInjective(list[mb])
             /\ ToSet(list[mb]) = {m \in found : Home[m] = mb}
        /\ box' = [mb \in Mailboxes |-> Kept(list[mb])]
        /\ byID' = found \ old
        /\ IF old = {}
           THEN UNCHANGED <<pc, msg, todo>>
           ELSE \E order \in Listings(old, ByID) :
                    Begin(Main, "load", NoMsg, order, "unlink")

LEMMA LoadFacts ==
    ASSUME IndexInv, NEW found \in SUBSET Loadables, Restore(found)
    PROVE  \E list \in [Mailboxes -> Seq(Ids)] : Restored(found, list)
<1> DEFINE old(list) == UNION {ToSet(Evicted(list[mb])) : mb \in Mailboxes}
<1>0. PICK list \in [Mailboxes -> Seq(Ids)] : Listed(found, list)
  BY LoadLists DEF IndexInv
<1>1. /\ \A mb \in Mailboxes :
           list[mb] \in Listings({m \in found : Home[m] = mb}, ByID)
      /\ box' = [mb \in Mailboxes |-> Kept(list[mb])]
      /\ byID' = found \ old(list)
      /\ IF old(list) = {}
         THEN UNCHANGED <<pc, msg, todo>>
         ELSE \E order \in Listings(old(list), ByID) :
                  Begin(Main, "load", NoMsg, order, "unlink")
  BY <1>0 DEF Listed
<1>2. found \subseteq issued
  <2>1. \A m \in found : m \in Ids /\ file["eml"][m] # "none"
    BY DEF Loadables, Loadable
  <2> QED
    BY <2>1 DEF IndexInv, FilesIssued, Kinds
<1>3. ASSUME NEW mb \in Mailboxes
      PROVE  /\ IsInjective(list[mb])
             /\ ToSet(list[mb]) = {m \in found : Home[m] = mb}
             /\ ToSet(Evicted(list[mb])) \subseteq found
  <2> DEFINE S == {m \in found : Home[m] = mb}
  <2>1. S \in SUBSET {m \in Ids : Home[m] = mb} /\ S \subseteq found
    BY DEF Loadables
  <2>2. list[mb] \in Listings(S, ByID)
    BY <1>1
  <2> HIDE DEF S
  <2>3. list[mb] \in Seq(Ids) /\ IsInjective(list[mb]) /\ ToSet(list[mb]) = S
    BY <2>1, <2>2, ListingInjective
  <2>4. ToSet(Evicted(list[mb])) \subseteq S
    BY <2>3, EvictionSplits
  <2> QED
    BY <2>1, <2>3, <2>4 DEF S
<1>4. old(list) \subseteq found
  BY <1>3
<1> QED
  BY <1>1, <1>2, <1>3, <1>4 DEF Restored

LEMMA LoadIssued ==
    ASSUME IndexInv, NEW found \in SUBSET Loadables, Restore(found)
    PROVE  byID' \subseteq issued' /\ WorkersIssued'
<1>0. PICK list \in [Mailboxes -> Seq(Ids)] : Restored(found, list)
  BY LoadFacts
<1> DEFINE old == UNION {ToSet(Evicted(list[mb])) : mb \in Mailboxes}
<1>1. /\ found \subseteq issued /\ old \subseteq found
      /\ byID' = found \ old
      /\ IF old = {}
         THEN UNCHANGED <<pc, msg, todo>>
         ELSE \E order \in Listings(old, ByID) :
                  Begin(Main, "load", NoMsg, order, "unlink")
  BY <1>0 DEF Restored
<1>2. old \in SUBSET Ids /\ old \subseteq issued /\ byID' \subseteq issued /\ issued' = issued
  BY <1>1 DEF Restore, Loadables
<1> HIDE DEF old
<1>3. CASE old = {}
  <2>1. UNCHANGED <<pc, msg, todo>>
    BY <1>1, <1>3
  <2> QED
    BY <1>2, <2>1 DEF IndexInv, WorkersIssued
<1>4. CASE old # {}
  <2>1. PICK order \in Listings(old, ByID) : Begin(Main, "load", NoMsg, order, "unlink")
    BY <1>1, <1>4
  <2>2. ToSet(order) = old /\ "unlink" \notin Writing /\ Main \in Workers
    BY <1>2, ListingType DEF Writing, Workers
  <2>3. WorkersIssued'
    BY <1>2, <2>1, <2>2, BeginIssued
  <2> QED
    BY <1>2, <2>3
<1> QED
  BY <1>3, <1>4

\* Only a goroutine that has an issued message in hand fills a file.
LEMMA FilesNext ==
    ASSUME IndexInv, Next
    PROVE  FilesIssued'
<1> USE DEF disk, memory, threads, ghosts
<1>0. FilesIssued /\ WorkersIssued /\ TypeInv
  BY DEF IndexInv
<1>1. ASSUME NEW t \in Threads, Call(t) PROVE FilesIssued'
  <2>1. UNCHANGED disk /\ issued \subseteq issued'
    BY <1>1 DEF Call, Deliver, MarkRead, MarkAllRead, Delete, Clear
  <2> QED
    BY <1>0, <2>1 DEF FilesIssued
<1>2. ASSUME NEW t \in Workers, Step(t) PROVE FilesIssued'
  <2>1. CASE Insert(t) \/ Swap(t) \/ Stat(t) \/ Marshal(t) \/ WriteFails(t) \/ Return(t)
    <3>1. UNCHANGED <<disk, issued>>
      BY <2>1 DEF Insert, Swap, Stat, Marshal, WriteFails, Return
    <3> QED
      BY <1>0, <3>1 DEF FilesIssued
  <2>2. CASE Create(t) \/ Fill(t) \/ Rename(t)
    <3>1. msg[t] \in issued /\ part[t] \in Kinds /\ issued' = issued
      BY <1>0, <2>2 DEF Create, Fill, Rename, WorkersIssued, Writing, TypeInv, TypeOK
    <3>2. ASSUME NEW m \in Ids \ issued, NEW k \in Kinds
          PROVE  file'[k][m] = file[k][m] /\ tmp'[k][m] = tmp[k][m]
      <4>1. m # msg[t] /\ file \in [Kinds -> [Ids -> Contents]] /\ tmp \in [Kinds -> [Ids -> Contents]]
        BY <1>0, <3>1 DEF TypeInv, TypeOK
      <4>2. CASE Create(t)
        BY <3>1, <4>1, <4>2 DEF Create
      <4>3. CASE Fill(t)
        BY <3>1, <4>1, <4>3 DEF Fill
      <4>4. CASE Rename(t)
        BY <3>1, <4>1, <4>4 DEF Rename
      <4> QED
        BY <2>2, <4>2, <4>3, <4>4
    <3> QED
      BY <1>0, <3>1, <3>2 DEF FilesIssued
  <2>3. CASE Unlink(t)
    <3>1. issued' = issued /\ tmp' = tmp /\ file' \in {file, Unlinked(part[t], Head(todo[t]))}
      BY <2>3 DEF Unlink
    <3>2. part[t] \in Kinds
      BY <1>0 DEF TypeInv, TypeOK
    <3>3. ASSUME NEW m \in Ids \ issued, NEW k \in Kinds
          PROVE  file'[k][m] = "none"
      <4>1. file \in [Kinds -> [Ids -> Contents]] /\ file[k][m] = "none"
        BY <1>0 DEF FilesIssued, TypeInv, TypeOK
      <4>2. CASE file' = file
        BY <4>1, <4>2
      <4>3. CASE file' = Unlinked(part[t], Head(todo[t]))
        BY <3>2, <4>1, <4>3 DEF Unlinked
      <4> QED
        BY <3>1, <4>2, <4>3
    <3> QED
      BY <1>0, <3>1, <3>3 DEF FilesIssued
  <2> QED
    BY <1>2, <2>1, <2>2, <2>3 DEF Step, Write
<1>3. ASSUME Load \/ Crash \/ \E m \in Ids : Decay(m) PROVE FilesIssued'
  BY <1>0, <1>3 DEF Load, Restore, Crash, Decay, FilesIssued
<1> QED
  BY <1>1, <1>2, <1>3 DEF Next

\* A message about to be inserted stays out of every mailbox until it is.
LEMMA FreshNext ==
    ASSUME IndexInv, Next
    PROVE  FreshInserts'
<1> USE DEF FreshInserts
<1>0. FreshInserts /\ WorkersIssued /\ TypeInv /\ byID \subseteq issued
  BY DEF IndexInv
<1>1. ASSUME NEW t \in Threads, Deliver(t) PROVE FreshInserts'
  <2>1. PICK m \in Ids \ issued : Begin(t, "Deliver", m, <<>>, "insert")
    BY <1>1 DEF Deliver
  <2>2. byID' = byID /\ t \in Workers
    BY <1>1 DEF Deliver, memory, Workers
  <2>3. pc'[t] = "insert" /\ msg'[t] = m
    BY <1>0, <2>1, <2>2 DEF Begin, TypeInv, TypeOK
  <2>4. \A u \in Workers \ {t} : pc'[u] = pc[u] /\ msg'[u] = msg[u]
    BY <1>0, <2>1, <2>2 DEF Begin, TypeInv, TypeOK
  <2>5. \A u \in Workers : pc[u] = "insert" => msg[u] \in issued
    BY <1>0 DEF WorkersIssued, Writing
  <2> QED
    BY <1>0, <2>1, <2>2, <2>3, <2>4, <2>5
<1>2. ASSUME NEW t \in Workers, pc'[t] # "insert", byID' \subseteq byID,
             \A u \in Workers \ {t} : pc'[u] = pc[u] /\ msg'[u] = msg[u]
      PROVE  FreshInserts'
  BY <1>0, <1>2
<1>3. ASSUME NEW t \in Threads, Call(t), ~Deliver(t) PROVE FreshInserts'
  <2>1. t \in Workers /\ byID' \subseteq byID
    BY <1>3 DEF Call, MarkRead, MarkAllRead, Delete, Clear, Workers, memory
  <2>2. PICK o, m, rest, step : Begin(t, o, m, rest, step) /\ step # "insert"
    <3>1. CASE MarkRead(t)
      BY <3>1 DEF MarkRead
    <3>2. CASE MarkAllRead(t)
      <4>1. PICK list : IF Persist /\ list # <<>>
                        THEN Begin(t, "MarkAllRead", Head(list), Tail(list), "stat")
                        ELSE Begin(t, "MarkAllRead", NoMsg, <<>>, "return")
        BY <3>2 DEF MarkAllRead
      <4> QED
        BY <4>1
    <3>3. CASE Delete(t)
      <4>1. PICK m : Begin(t, "Delete", NoMsg, <<m>>, IF Persist THEN "unlink" ELSE "return")
        BY <3>3 DEF Delete
      <4> QED
        BY <4>1
    <3>4. CASE Clear(t)
      <4>1. PICK mb : Begin(t, "Clear", NoMsg, box[mb],
                            IF Persist /\ box[mb] # <<>> THEN "unlink" ELSE "return")
        BY <3>4 DEF Clear
      <4> QED
        BY <4>1
    <3> QED
      BY <1>3, <3>1, <3>2, <3>3, <3>4 DEF Call
  <2>3. pc'[t] # "insert" /\ \A u \in Workers \ {t} : pc'[u] = pc[u] /\ msg'[u] = msg[u]
    BY <1>0, <2>1, <2>2 DEF Begin, TypeInv, TypeOK
  <2> QED
    BY <1>2, <2>1, <2>3
<1>4. ASSUME NEW t \in Workers, Insert(t) PROVE FreshInserts'
  <2>1. byID' \subseteq byID \cup {msg[t]} /\ pc[t] = "insert" /\ msg' = msg
    BY <1>4 DEF Insert
  <2>2. pc'[t] # "insert" /\ \A u \in Workers \ {t} : pc'[u] = pc[u]
    BY <1>0, <1>4 DEF Insert, Goto, TypeInv, TypeOK
  <2> QED
    BY <1>0, <2>1, <2>2
<1>5. ASSUME NEW t \in Workers, Step(t), ~Insert(t) PROVE FreshInserts'
  <2>1. byID' = byID
    BY <1>5 DEF Step, Write, Swap, Stat, Marshal, Create, Fill, Rename, WriteFails,
                Unlink, Return, memory
  <2>2. /\ pc[t] # "insert"
        /\ \/ pc' = pc /\ msg' = msg
           \/ \E step : Goto(t, step) /\ step # "insert" /\ msg' = msg
           \/ \E o, m, rest, step : Begin(t, o, m, rest, step) /\ step # "insert"
    <3>1. CASE Swap(t) \/ Stat(t) \/ Marshal(t) \/ Create(t) \/ Fill(t)
      BY <3>1 DEF Swap, Stat, Marshal, Create, Fill
    <3>2. ASSUME Written(t)
          PROVE  \E o, m, rest, step : Begin(t, o, m, rest, step) /\ step # "insert"
      <4>1. CASE op[t] = "MarkAllRead" /\ todo[t] # <<>>
        BY <3>2, <4>1 DEF Written
      <4>2. CASE op[t] = "Deliver" /\ todo[t] # <<>>
        BY <3>2, <4>2 DEF Written
      <4>3. CASE ~(op[t] = "MarkAllRead" /\ todo[t] # <<>>) /\ ~(op[t] = "Deliver" /\ todo[t] # <<>>)
        BY <3>2, <4>3 DEF Written
      <4> QED
        BY <4>1, <4>2, <4>3
    <3>3. CASE Rename(t)
      BY <3>2, <3>3 DEF Rename
    <3>4. CASE WriteFails(t)
      BY <3>2, <3>4 DEF WriteFails, End
    <3>5. CASE Unlink(t)
      BY <3>5 DEF Unlink
    <3>6. CASE Return(t)
      BY <3>6 DEF Return, End
    <3> QED
      BY <1>5, <3>1, <3>3, <3>4, <3>5, <3>6 DEF Step, Write
  <2>3. pc'[t] # "insert" /\ \A u \in Workers \ {t} : pc'[u] = pc[u] /\ msg'[u] = msg[u]
    BY <1>0, <2>2 DEF Goto, Begin, TypeInv, TypeOK
  <2> QED
    BY <1>2, <2>1, <2>3
<1>6. ASSUME NEW found \in SUBSET Loadables, Restore(found) PROVE FreshInserts'
  <2>1. \A t \in Workers : pc[t] = "idle"
    BY <1>6 DEF Restore, IndexInv, DownIsIdle
  <2>2. \A u \in Workers : pc'[u] # "insert"
    <3>1. Main \in Workers
      BY DEF Workers
    <3>2. \/ pc' = pc
          \/ \E o, m, rest : Begin(Main, o, m, rest, "unlink")
      BY <1>6, LoadFacts DEF Restored
    <3> QED
      BY <1>0, <2>1, <3>1, <3>2 DEF Begin, TypeInv, TypeOK
  <2> QED
    BY <2>2
<1>7. ASSUME Crash PROVE FreshInserts'
  BY <1>7 DEF Crash
<1>8. ASSUME NEW m \in Ids, Decay(m) PROVE FreshInserts'
  BY <1>8 DEF Decay, IndexInv, memory, threads
<1> QED
  BY <1>1, <1>3, <1>4, <1>5, <1>6, <1>7, <1>8 DEF Next, Load

\* Taking the set out of the mailbox mb and of the index leaves them in step.
LEMMA AgreeAfterRemoval ==
    ASSUME IndexInv, NEW mb \in Mailboxes, NEW q \in Seq(Ids), NEW S,
           IsInjective(q), ToSet(q) = ToSet(box[mb]) \ S,
           \A m \in S : m \in Ids => Home[m] = mb,
           box' = [box EXCEPT ![mb] = q], byID' = byID \ S
    PROVE  IndexAgrees'
<1>1. \A n \in Mailboxes : /\ IsInjective(box[n]) /\ ToSet(box[n]) \subseteq byID
                          /\ \A m \in ToSet(box[n]) : m \in Ids /\ Home[m] = n
  BY BoxIssued
<1>2. byID = UNION {ToSet(box[n]) : n \in Mailboxes} /\ box \in [Mailboxes -> Seq(Ids)]
  BY DEF IndexInv, IndexAgrees, TypeInv, TypeOK
<1>3. \A n \in Mailboxes : ToSet(box'[n]) = ToSet(box[n]) \ S
  <2> TAKE n \in Mailboxes
  <2>1. CASE n = mb
    BY <1>2, <2>1
  <2>2. CASE n # mb
    BY <1>1, <1>2, <2>2
  <2> QED
    BY <2>1, <2>2
<1>4. byID' = UNION {ToSet(box'[n]) : n \in Mailboxes}
  BY <1>2, <1>3
<1>5. \A n \in Mailboxes : IsInjective(box'[n])
  BY <1>1, <1>2
<1>6. \A n \in Mailboxes : \A m \in ToSet(box'[n]) : Home[m] = n
  BY <1>1, <1>3
<1> QED
  BY <1>4, <1>5, <1>6 DEF IndexAgrees

LEMMA AgreeNext ==
    ASSUME IndexInv, Next
    PROVE  IndexAgrees'
<1>0. IndexAgrees /\ TypeInv
  BY DEF IndexInv
<1>1. ASSUME UNCHANGED <<box, byID>> PROVE IndexAgrees'
  BY <1>0, <1>1 DEF IndexAgrees
<1>2. ASSUME NEW t \in Threads, Call(t) PROVE IndexAgrees'
  <2>1. CASE Deliver(t) \/ MarkRead(t) \/ MarkAllRead(t)
    BY <1>1, <2>1 DEF Deliver, MarkRead, MarkAllRead, memory
  <2>2. CASE Delete(t)
    <3>1. PICK m \in byID : /\ byID' = byID \ {m}
                           /\ box' = [box EXCEPT ![Home[m]] = Without(@, m)]
      BY <2>2 DEF Delete
    <3> DEFINE mb == Home[m]
               q == Without(box[mb], m)
    <3>2. mb \in Mailboxes /\ m \in Ids
      BY <1>0, IdAssumption DEF TypeInv, TypeOK
    <3>3. box[mb] \in Seq(Ids) /\ IsInjective(box[mb])
      BY <3>2, BoxIssued
    <3>4. q \in Seq(Ids) /\ IsInjective(q) /\ ToSet(q) = ToSet(box[mb]) \ {m}
      BY <3>3, WithoutType, WithoutSet
    <3>5. box' = [box EXCEPT ![mb] = q]
      BY <3>1
    <3>6. \A n \in {m} : n \in Ids => Home[n] = mb
      OBVIOUS
    <3> HIDE DEF mb, q
    <3> QED
      BY <3>1, <3>2, <3>4, <3>5, <3>6, AgreeAfterRemoval
  <2>3. CASE Clear(t)
    <3>1. PICK mb \in Mailboxes : /\ box' = [box EXCEPT ![mb] = <<>>]
                                 /\ byID' = byID \ ToSet(box[mb])
      BY <2>3 DEF Clear
    <3>2. <<>> \in Seq(Ids) /\ IsInjective(<<>>) /\ ToSet(<<>>) = ToSet(box[mb]) \ ToSet(box[mb])
      BY EmptySeq DEF IsInjective, ToSet
    <3>3. \A m \in ToSet(box[mb]) : Home[m] = mb
      BY BoxIssued
    <3> QED
      BY <3>1, <3>2, <3>3, AgreeAfterRemoval
  <2> QED
    BY <1>2, <2>1, <2>2, <2>3 DEF Call
<1>3. ASSUME NEW t \in Workers, Step(t) PROVE IndexAgrees'
  <2>1. CASE ~Insert(t)
    BY <1>1, <1>3, <2>1 DEF Step, Write, Swap, Stat, Marshal, Create, Fill, Rename,
                            WriteFails, Unlink, Return, memory
  <2>2. CASE Insert(t)
    <3> DEFINE m == msg[t]
               mb == Home[m]
               grown == Append(box[mb], m)
               old == ToSet(Evicted(grown))
               new == Kept(grown)
    <3>1. /\ m \in Ids /\ mb \in Mailboxes /\ new \in Seq(Ids) /\ IsInjective(new)
          /\ ToSet(new) = (ToSet(box[mb]) \cup {m}) \ old
          /\ old \subseteq ToSet(box[mb]) \cup {m}
      BY <2>2, InsertFacts
    <3>2. /\ box' = [box EXCEPT ![mb] = new] /\ byID' = (byID \cup {m}) \ old
      BY <2>2 DEF Insert
    <3>3. Home[m] = mb
      OBVIOUS
    <3> HIDE DEF m, mb, grown, old, new
    <3>4. \A n \in Mailboxes : /\ IsInjective(box[n])
                              /\ \A x \in ToSet(box[n]) : x \in Ids /\ Home[x] = n
      BY BoxIssued
    <3>5. byID = UNION {ToSet(box[n]) : n \in Mailboxes} /\ box \in [Mailboxes -> Seq(Ids)]
      BY <1>0 DEF IndexAgrees, TypeInv, TypeOK
    <3>6. \A n \in Mailboxes \ {mb} : box'[n] = box[n] /\ ToSet(box[n]) \cap old = {}
      BY <3>1, <3>2, <3>3, <3>4, <3>5
    <3>7. box'[mb] = new
      BY <3>1, <3>2, <3>5
    <3>8. byID' = UNION {ToSet(box'[n]) : n \in Mailboxes}
      <4>1. ASSUME NEW x \in byID' PROVE \E n \in Mailboxes : x \in ToSet(box'[n])
        <5>1. CASE x = m
          BY <3>1, <3>2, <3>7, <5>1
        <5>2. CASE x # m
          <6>1. PICK n \in Mailboxes : x \in ToSet(box[n]) /\ x \notin old
            BY <3>2, <3>5, <5>2
          <6> QED
            BY <3>1, <3>6, <3>7, <6>1
        <5> QED
          BY <5>1, <5>2
      <4>2. ASSUME NEW n \in Mailboxes, NEW x \in ToSet(box'[n]) PROVE x \in byID'
        <5>1. CASE n = mb
          BY <3>1, <3>2, <3>5, <3>7, <5>1
        <5>2. CASE n # mb
          BY <3>2, <3>5, <3>6, <5>2
        <5> QED
          BY <5>1, <5>2
      <4> QED
        BY <4>1, <4>2
    <3>9. ASSUME NEW n \in Mailboxes
          PROVE  IsInjective(box'[n]) /\ \A x \in ToSet(box'[n]) : Home[x] = n
      <4>1. CASE n = mb
        BY <3>1, <3>3, <3>4, <3>7, <4>1
      <4>2. CASE n # mb
        BY <3>4, <3>6, <4>2
      <4> QED
        BY <4>1, <4>2
    <3> QED
      BY <3>8, <3>9 DEF IndexAgrees
  <2> QED
    BY <2>1, <2>2
<1>4. ASSUME NEW found \in SUBSET Loadables, Restore(found) PROVE IndexAgrees'
  <2>1. PICK list \in [Mailboxes -> Seq(Ids)] :
            /\ \A mb \in Mailboxes :
                 IsInjective(list[mb]) /\ ToSet(list[mb]) = {m \in found : Home[m] = mb}
            /\ box' = [mb \in Mailboxes |-> Kept(list[mb])]
            /\ byID' = found \ UNION {ToSet(Evicted(list[mb])) : mb \in Mailboxes}
    BY <1>4, LoadFacts DEF Restored
  <2>2. ASSUME NEW mb \in Mailboxes
        PROVE  /\ ToSet(Evicted(list[mb])) \subseteq ToSet(list[mb])
               /\ ToSet(box'[mb]) = ToSet(list[mb]) \ ToSet(Evicted(list[mb]))
               /\ IsInjective(box'[mb])
    BY <2>1, EvictionSplits
  <2>3. \A m \in found : m \in Ids /\ Home[m] \in Mailboxes
    BY IdAssumption DEF Loadables
  <2>4. byID' = UNION {ToSet(box'[mb]) : mb \in Mailboxes}
    <3>1. ASSUME NEW x \in byID' PROVE x \in ToSet(box'[Home[x]]) /\ Home[x] \in Mailboxes
      BY <2>1, <2>2, <2>3
    <3>2. ASSUME NEW mb \in Mailboxes, NEW x \in ToSet(box'[mb]) PROVE x \in byID'
      <4>1. x \in found /\ Home[x] = mb /\ x \notin ToSet(Evicted(list[mb]))
        BY <2>1, <2>2
      <4>2. \A n \in Mailboxes : x \in ToSet(list[n]) => n = mb
        BY <2>1, <4>1
      <4>3. \A n \in Mailboxes : x \notin ToSet(Evicted(list[n]))
        BY <2>2, <4>1, <4>2
      <4> QED
        BY <2>1, <4>1, <4>3
    <3> QED
      BY <3>1, <3>2
  <2> QED
    BY <2>1, <2>2, <2>4 DEF IndexAgrees
<1>5. ASSUME Crash PROVE IndexAgrees'
  <2>1. \A mb \in Mailboxes : box'[mb] = <<>>
    BY <1>5 DEF Crash
  <2>2. \A mb \in Mailboxes : ToSet(box'[mb]) = {} /\ IsInjective(box'[mb])
    BY <2>1 DEF ToSet, IsInjective
  <2> QED
    BY <1>5, <2>2 DEF Crash, IndexAgrees
<1>6. ASSUME NEW m \in Ids, Decay(m) PROVE IndexAgrees'
  BY <1>6 DEF Decay, IndexInv, IndexAgrees, memory
<1> QED
  BY <1>2, <1>3, <1>4, <1>5, <1>6 DEF Next, Load

LEMMA IndexNext == IndexInv /\ [Next]_vars => IndexInv'
<1> SUFFICES ASSUME IndexInv, [Next]_vars PROVE IndexInv'
  OBVIOUS
<1>1. TypeInv'
  BY TypeNext DEF IndexInv
<1>2. CASE Next
  <2>1. byID' \subseteq issued' /\ WorkersIssued'
    <3>1. CASE Crash
      BY <3>1 DEF Crash, WorkersIssued, ToSet, Writing
    <3>2. CASE \E m \in Ids : Decay(m)
      BY <3>2 DEF Decay, IndexInv, WorkersIssued, memory, threads
    <3> QED
      BY <1>2, <3>1, <3>2, CallIssued, StepIssued, LoadIssued DEF Next, Load
  <2> QED
    BY <1>1, <1>2, <2>1, DownNext, FilesNext, FreshNext, AgreeNext DEF IndexInv
<1>3. CASE UNCHANGED vars
  BY <1>1, <1>3 DEF IndexInv, vars, memory, disk, threads, ghosts, IndexAgrees, FilesIssued,
                    WorkersIssued, FreshInserts, DownIsIdle
<1> QED
  BY <1>2, <1>3

\* Get and List never disagree: the index over all mailboxes holds exactly the
\* messages the mailboxes show, each once and in its own mailbox.
THEOREM IndexCorrect == Spec => []IndexAgrees
<1>1. Init => IndexInv
  BY IndexInit
<1>2. IndexInv /\ [Next]_vars => IndexInv'
  BY IndexNext
<1>3. IndexInv => IndexAgrees
  BY DEF IndexInv
<1> QED
  BY <1>1, <1>2, <1>3, PTL DEF Spec
-----------------------------------------------------------------------------
(* Capacity                                                                *)

LEMMA CapacityNext == IndexInv /\ Capacity /\ [Next]_vars => Capacity'
<1> SUFFICES ASSUME IndexInv, MaxMessages > 0,
                    \A mb \in Mailboxes : Len(box[mb]) <= MaxMessages, [Next]_vars,
                    NEW mb \in Mailboxes
             PROVE  Len(box'[mb]) <= MaxMessages
  BY DEF Capacity
<1>0. box \in [Mailboxes -> Seq(Ids)] /\ \A n \in Mailboxes : IsInjective(box[n])
  BY DEF IndexInv, IndexAgrees, TypeInv, TypeOK
<1>1. ASSUME UNCHANGED box PROVE Len(box'[mb]) <= MaxMessages
  BY <1>1
<1>2. ASSUME box'[mb] = <<>> PROVE Len(box'[mb]) <= MaxMessages
  BY <1>2, OptionAssumption
<1>3. ASSUME NEW t \in Threads, Call(t) PROVE Len(box'[mb]) <= MaxMessages
  <2>1. CASE Deliver(t) \/ MarkRead(t) \/ MarkAllRead(t)
    BY <1>1, <2>1 DEF Deliver, MarkRead, MarkAllRead, memory
  <2>2. CASE Delete(t)
    <3>1. PICK m \in byID : box' = [box EXCEPT ![Home[m]] = Without(@, m)]
      BY <2>2 DEF Delete
    <3>2. Len(Without(box[mb], m)) <= Len(box[mb])
      BY <1>0, WithoutSet
    <3>3. Without(box[mb], m) \in Seq(Ids)
      BY <1>0, WithoutType
    <3>4. box'[mb] = box[mb] \/ box'[mb] = Without(box[mb], m)
      BY <1>0, <3>1
    <3>5. Len(Without(box[mb], m)) \in Nat /\ Len(box[mb]) \in Nat
      BY <1>0, <3>3
    <3> QED
      BY <3>2, <3>4, <3>5, OptionAssumption
  <2>3. CASE Clear(t)
    BY <1>0, <1>1, <1>2, <2>3 DEF Clear
  <2> QED
    BY <1>3, <2>1, <2>2, <2>3 DEF Call
<1>4. ASSUME NEW t \in Workers, Step(t) PROVE Len(box'[mb]) <= MaxMessages
  <2>1. CASE ~Insert(t)
    BY <1>1, <1>4, <2>1 DEF Step, Write, Swap, Stat, Marshal, Create, Fill, Rename,
                            WriteFails, Unlink, Return, memory
  <2>2. CASE Insert(t)
    <3> DEFINE grown == Append(box[Home[msg[t]]], msg[t])
    <3>1. grown \in Seq(Ids) /\ Home[msg[t]] \in Mailboxes
      BY <2>2, InsertFacts
    <3>2. box' = [box EXCEPT ![Home[msg[t]]] = Kept(grown)]
      BY <2>2 DEF Insert
    <3> HIDE DEF grown
    <3>3. Len(Kept(grown)) <= MaxMessages
      BY <3>1, Eviction
    <3> QED
      BY <1>0, <3>1, <3>2, <3>3
  <2> QED
    BY <2>1, <2>2
<1>5. ASSUME NEW found \in SUBSET Loadables, Restore(found) PROVE Len(box'[mb]) <= MaxMessages
  <2>1. PICK list \in [Mailboxes -> Seq(Ids)] : box' = [n \in Mailboxes |-> Kept(list[n])]
    BY <1>5, LoadFacts DEF Restored
  <2>2. Len(Kept(list[mb])) <= MaxMessages
    BY <2>1, Eviction
  <2> QED
    BY <2>1, <2>2
<1>6. ASSUME Crash PROVE Len(box'[mb]) <= MaxMessages
  BY <1>2, <1>6 DEF Crash
<1>7. ASSUME NEW m \in Ids, Decay(m) PROVE Len(box'[mb]) <= MaxMessages
  BY <1>1, <1>7 DEF Decay, memory
<1> QED
  BY <1>1, <1>3, <1>4, <1>5, <1>6, <1>7 DEF Next, Load, vars, memory

\* No mailbox ever holds more than MaxMessages, whichever deliveries race and
\* however much the data directory holds at a start.
THEOREM CapacityCorrect == Spec => []Capacity
<1>1. Init => IndexInv /\ Capacity
  <2>1. ASSUME Init, NEW mb \in Mailboxes PROVE Len(box[mb]) = 0
    BY <2>1 DEF Init
  <2> QED
    BY <2>1, IndexInit, OptionAssumption DEF Capacity
<1>2. IndexInv /\ Capacity /\ [Next]_vars => (IndexInv /\ Capacity)'
  BY IndexNext, CapacityNext
<1> QED
  BY <1>1, <1>2, PTL DEF Spec
=============================================================================
