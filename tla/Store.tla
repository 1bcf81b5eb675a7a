------------------------------- MODULE Store -------------------------------
(***************************************************************************)
(* The mail store of mailschleuse (internal/store): the mailboxes in       *)
(* memory, the data directory that mirrors them (internal/store/persist),  *)
(* and the goroutines that work on both.                                   *)
(*                                                                         *)
(* The mutex of the store covers only the memory.  A goroutine changes a   *)
(* mailbox under the lock, releases it, and only then writes or unlinks    *)
(* files, one system call at a time, so the file operations of different   *)
(* goroutines interleave freely.  Each of those calls is a step here.  The *)
(* process may be killed between any two of them and started again.        *)
(*                                                                         *)
(* A file is known by what is in it: nothing, a cut-off or mixed-up text,  *)
(* the raw message, or the metadata with its read flag.                    *)
(***************************************************************************)
EXTENDS Integers, Sequences, FiniteSets, SequencesExt

CONSTANTS
    Mailboxes,    \* the configured mailboxes
    Threads,      \* the goroutines that call the store
    Main,         \* the goroutine that runs New and restores the messages
    Ids,          \* message IDs; their numeric order is the string order
    Milli,        \* the millisecond prefix of an ID
    Home,         \* the mailbox a message is delivered to
    MaxMessages,  \* messages kept per mailbox, 0 for no limit
    Persist,      \* is a data directory configured?
    DiskFails     \* may a file operation return an error?

ASSUME ThreadAssumption == Main \notin Threads
ASSUME IdAssumption ==
    /\ Ids \subseteq Nat \ {0} /\ IsFiniteSet(Ids)
    /\ Milli \in [Ids -> Nat] /\ Home \in [Ids -> Mailboxes]
    /\ \A m, n \in Ids : m < n => Milli[m] <= Milli[n]
ASSUME OptionAssumption ==
    /\ MaxMessages \in Nat
    /\ Persist \in BOOLEAN /\ DiskFails \in BOOLEAN

NoMsg == 0
Workers == Threads \cup {Main}
Kinds == {"eml", "json"}
Contents == {"none", "torn", "mixed", "raw", "read", "unread"}
\* (Mutation: a flag that is not set is left out of the metadata.)
FlagOmitted(isRead) == IF isRead THEN "read" ELSE "omitted"
Flag(isRead) == IF isRead THEN "read" ELSE "unread"
Flags == {"read", "unread"}

VARIABLES
    box,      \* box[mb]: the IDs in mailbox mb, oldest first
    byID,     \* the index over all mailboxes
    read,     \* the read flag of each message
    file,     \* file[k][m]: what is in <m>.eml and <m>.json
    tmp,      \* tmp[k][m]: what is in <m>.eml.tmp and <m>.json.tmp
    up,       \* "down", "loading" or "up"
    pc, op,   \* where each goroutine is, in which operation
    msg,      \* the message it is working on
    todo,     \* the messages it will write or unlink after that one
    part,     \* which of the two files
    buf,      \* the bytes it is about to write
    fd,       \* where the file it has open is to be found
    issued,   \* ghost: IDs handed out
    acked,    \* ghost: messages reported as stored, or found at start-up
    removed,  \* ghost: messages taken out of memory
    gone,     \* ghost: messages whose removal has finished
    unsure    \* ghost: messages whose files a race or a failure touched

memory == <<box, byID, read>>
disk == <<file, tmp>>
threads == <<pc, op, msg, todo, part, buf, fd>>
ghosts == <<issued, acked, removed, gone, unsure>>
vars == <<memory, disk, up, threads, ghosts>>

Steps == {"idle", "insert", "swap", "stat", "create", "fill", "rename",
          "marshal", "unlink", "return"}
Ops == {"none", "Deliver", "MarkRead", "MarkAllRead", "Delete", "Clear", "load"}

TypeOK ==
    /\ box \in [Mailboxes -> Seq(Ids)]
    /\ byID \subseteq Ids
    /\ read \in [Ids -> BOOLEAN]
    /\ file \in [Kinds -> [Ids -> Contents]]
    /\ tmp \in [Kinds -> [Ids -> Contents]]
    /\ up \in {"down", "loading", "up"}
    /\ pc \in [Workers -> Steps]
    /\ op \in [Workers -> Ops]
    /\ msg \in [Workers -> Ids \cup {NoMsg}]
    /\ todo \in [Workers -> Seq(Ids)]
    /\ part \in [Workers -> Kinds]
    /\ buf \in [Workers -> Contents]
    /\ fd \in [Workers -> {"none", "tmp", "final", "lost"}]
    /\ issued \subseteq Ids /\ acked \subseteq Ids /\ removed \subseteq Ids
    /\ gone \subseteq Ids /\ unsure \subseteq Ids
-----------------------------------------------------------------------------
(* Sequences of messages                                                   *)

\* The listings of the set S that agree with the order "before".
Listings(S, before) ==
    {s \in [1..Cardinality(S) -> S] :
        /\ ToSet(s) = S
        /\ \A i, j \in DOMAIN s : i < j => <<s[i], s[j]>> \in before}

\* Messages of one mailbox by ID, those of different mailboxes in any order.
ByID == {p \in Ids \X Ids : Home[p[1]] = Home[p[2]] => p[1] < p[2]}
OrderIn(s) == {p \in ToSet(s) \X ToSet(s) :
                  \E i, j \in DOMAIN s : i < j /\ p = <<s[i], s[j]>>}

\* (Mutation: Delete forgets to take the message out of its mailbox.)
WithoutNothing(s, m) == s
Without(s, m) ==
    IF m \in ToSet(s) THEN RemoveAt(s, CHOOSE i \in DOMAIN s : s[i] = m) ELSE s

\* (Mutation: evictLocked lets a mailbox grow by one more.)
ExcessLate(s) ==
    IF MaxMessages > 0 /\ Len(s) > MaxMessages + 1 THEN Len(s) - MaxMessages ELSE 0
\* How many messages evictLocked drops, which they are, and what is left.
Excess(s) ==
    IF MaxMessages > 0 /\ Len(s) > MaxMessages THEN Len(s) - MaxMessages ELSE 0
Evicted(s) == SubSeq(s, 1, Excess(s))
Kept(s) == SubSeq(s, Excess(s) + 1, Len(s))
-----------------------------------------------------------------------------
(* Goroutines                                                              *)

Init ==
    /\ box = [mb \in Mailboxes |-> <<>>]
    /\ byID = {}
    /\ read = [m \in Ids |-> FALSE]
    /\ file = [k \in Kinds |-> [m \in Ids |-> "none"]]
    /\ tmp = [k \in Kinds |-> [m \in Ids |-> "none"]]
    /\ up = "down"
    /\ pc = [t \in Workers |-> "idle"]
    /\ op = [t \in Workers |-> "none"]
    /\ msg = [t \in Workers |-> NoMsg]
    /\ todo = [t \in Workers |-> <<>>]
    /\ part = [t \in Workers |-> "eml"]
    /\ buf = [t \in Workers |-> "none"]
    /\ fd = [t \in Workers |-> "none"]
    /\ issued = {} /\ acked = {} /\ removed = {} /\ gone = {} /\ unsure = {}

\* The messages a goroutine may still write to disk: it holds a pointer to
\* them that the lock does not protect.
Writes(t) ==
    IF pc[t] \in {"insert", "swap", "stat", "create", "fill", "rename", "marshal"}
    THEN {msg[t]} \cup (IF op[t] = "MarkAllRead" THEN ToSet(todo[t]) ELSE {})
    ELSE {}

WrittenByOthers(t) == UNION {Writes(u) : u \in Workers \ {t}}

\* As above, but a MarkRead that has not yet set its flag does not count: it
\* will marshal after any change made now.
Saving(t) == IF pc[t] = "swap" THEN {} ELSE Writes(t)
SavedByOthers(t) == UNION {Saving(u) : u \in Workers \ {t}}

\* Goroutine t starts operation o: it takes message m, then those in rest.
Begin(t, o, m, rest, step) ==
    /\ op' = [op EXCEPT ![t] = o]
    /\ msg' = [msg EXCEPT ![t] = m]
    /\ todo' = [todo EXCEPT ![t] = rest]
    /\ pc' = [pc EXCEPT ![t] = step]
    /\ part' = [part EXCEPT ![t] = "eml"]

Goto(t, step) == pc' = [pc EXCEPT ![t] = step]

\* Goroutine t ends its operation and forgets everything about it.
End(t) ==
    /\ Begin(t, "none", NoMsg, <<>>, "idle")
    /\ buf' = [buf EXCEPT ![t] = "none"]
    /\ fd' = [fd EXCEPT ![t] = "none"]

Ready(t) == up = "up" /\ pc[t] = "idle"

\* The messages in S are taken out of memory by t, under the lock.  Whoever
\* is about to write one of them still will.
TakeOut(t, S) ==
    /\ removed' = removed \cup S
    /\ unsure' = unsure \cup (S \cap WrittenByOthers(t))
-----------------------------------------------------------------------------
(* The operations: what each does to the memory under the lock             *)

\* Deliver takes an ID before it takes the lock: the clock never goes back,
\* and the rest of the ID is random.
Deliver(t) ==
    /\ Ready(t)
    /\ \E m \in Ids \ issued :
        /\ \A n \in issued : Milli[n] <= Milli[m]
        /\ issued' = issued \cup {m}
        /\ Begin(t, "Deliver", m, <<>>, "insert")
    /\ UNCHANGED <<memory, disk, up, buf, fd, acked, removed, gone, unsure>>

\* The locked part of Deliver: append, index, evict.
Insert(t) ==
    /\ pc[t] = "insert"
    /\ LET m == msg[t]
           mb == Home[m]
           grown == Append(box[mb], m)
           old == Evicted(grown)
       IN  /\ box' = [box EXCEPT ![mb] = Kept(grown)]
           /\ byID' = (byID \cup {m}) \ ToSet(old)
           /\ todo' = [todo EXCEPT ![t] = old]
           /\ TakeOut(t, ToSet(old))
    /\ Goto(t, IF Persist THEN "stat" ELSE "return")
    /\ UNCHANGED <<read, disk, up, op, msg, part, buf, fd, issued, acked, gone>>

\* MarkRead looks the message up under the read lock and lets go of it.
MarkRead(t) ==
    /\ Ready(t)
    /\ \E m \in byID, isRead \in BOOLEAN :
        /\ Begin(t, "MarkRead", m, <<>>, "swap")
        /\ buf' = [buf EXCEPT ![t] = Flag(isRead)]
    /\ UNCHANGED <<memory, disk, up, fd, ghosts>>

\* The atomic Swap, without the lock; an unchanged flag is not saved.
Swap(t) ==
    /\ pc[t] = "swap"
    /\ LET m == msg[t]
           isRead == buf[t] = "read"
       IN  /\ read' = [read EXCEPT ![m] = isRead]
           /\ Goto(t, IF Persist /\ read[m] # isRead THEN "stat" ELSE "return")
           /\ unsure' = IF read[m] # isRead
                        THEN unsure \cup ({m} \cap SavedByOthers(t)) ELSE unsure
    /\ UNCHANGED <<box, byID, disk, up, op, msg, todo, part, buf, fd,
                   issued, acked, removed, gone>>

\* MarkAllRead swaps all flags under the lock and saves the changed messages
\* one after the other.
MarkAllRead(t) ==
    /\ Ready(t)
    /\ \E mb \in Mailboxes :
        LET changed == {m \in ToSet(box[mb]) : ~read[m]}
        IN  \E list \in Listings(changed, OrderIn(box[mb])) :
            /\ read' = [m \in Ids |-> read[m] \/ m \in changed]
            /\ unsure' = unsure \cup (changed \cap SavedByOthers(t))
            /\ IF Persist /\ list # <<>>
               THEN Begin(t, "MarkAllRead", Head(list), Tail(list), "stat")
               ELSE Begin(t, "MarkAllRead", NoMsg, <<>>, "return")
    /\ UNCHANGED <<box, byID, disk, up, buf, fd, issued, acked, removed, gone>>

Delete(t) ==
    /\ Ready(t)
    /\ \E m \in byID :
        /\ byID' = byID \ {m}
        /\ box' = [box EXCEPT ![Home[m]] = Without(@, m)]
        /\ TakeOut(t, {m})
        /\ Begin(t, "Delete", NoMsg, <<m>>, IF Persist THEN "unlink" ELSE "return")
    /\ UNCHANGED <<read, disk, up, buf, fd, issued, acked, gone>>

Clear(t) ==
    /\ Ready(t)
    /\ \E mb \in Mailboxes :
        /\ box' = [box EXCEPT ![mb] = <<>>]
        /\ byID' = byID \ ToSet(box[mb])
        /\ TakeOut(t, ToSet(box[mb]))
        /\ Begin(t, "Clear", NoMsg, box[mb],
                 IF Persist /\ box[mb] # <<>> THEN "unlink" ELSE "return")
    /\ UNCHANGED <<read, disk, up, buf, fd, issued, acked, gone>>

\* Events go out and the caller gets its answer.
Return(t) ==
    /\ pc[t] = "return"
    /\ acked' = IF op[t] = "Deliver" THEN acked \cup {msg[t]} ELSE acked
    /\ up' = IF op[t] = "load" THEN "up" ELSE up
    /\ End(t)
    /\ UNCHANGED <<memory, disk, issued, removed, gone, unsure>>
-----------------------------------------------------------------------------
(* persistence.write, one system call per step                             *)

\* Where t goes when the message in hand is on disk, or could not be written.
\* Deliver has evicted messages to unlink, MarkAllRead more flags to save.
Written(t) ==
    CASE op[t] = "MarkAllRead" /\ todo[t] # <<>> ->
            Begin(t, "MarkAllRead", Head(todo[t]), Tail(todo[t]), "stat")
      [] op[t] = "Deliver" /\ todo[t] # <<>> ->
            Begin(t, "Deliver", msg[t], todo[t], "unlink")
      [] OTHER -> Begin(t, op[t], msg[t], todo[t], "return")

\* The raw body is written only if its file is not there; a stat that fails
\* for another reason counts as not there.
Stat(t) ==
    /\ pc[t] = "stat"
    /\ \/ /\ file["eml"][msg[t]] = "none" \/ DiskFails
          /\ Goto(t, "create") /\ buf' = [buf EXCEPT ![t] = "raw"]
       \/ /\ file["eml"][msg[t]] # "none"
          /\ Goto(t, "marshal") /\ UNCHANGED buf
    /\ UNCHANGED <<memory, disk, up, op, msg, todo, part, fd, ghosts>>

\* (Mutation: the read flag is left out of the metadata.)
MarshalUnread(t) ==
    /\ pc[t] = "marshal"
    /\ buf' = [buf EXCEPT ![t] = Flag(FALSE)]
    /\ part' = [part EXCEPT ![t] = "json"]
    /\ Goto(t, "create")
    /\ UNCHANGED <<memory, disk, up, op, msg, todo, fd, ghosts>>

\* The metadata are marshalled with the flag the message has by now.
Marshal(t) ==
    /\ pc[t] = "marshal"
    /\ buf' = [buf EXCEPT ![t] = Flag(read[msg[t]])]
    /\ part' = [part EXCEPT ![t] = "json"]
    /\ Goto(t, "create")
    /\ UNCHANGED <<memory, disk, up, op, msg, todo, fd, ghosts>>

\* (Mutation: os.WriteFile truncates the file itself, not <path>.tmp.)
CreateInPlace(t) ==
    /\ pc[t] = "create"
    /\ file' = [file EXCEPT ![part[t]][msg[t]] = "torn"]
    /\ fd' = [fd EXCEPT ![t] = "final"]
    /\ Goto(t, "fill")
    /\ UNCHANGED <<memory, tmp, up, op, msg, todo, part, buf, ghosts>>

\* os.WriteFile opens <path>.tmp, which every writer of the message shares,
\* and truncates it.
Create(t) ==
    /\ pc[t] = "create"
    /\ tmp' = [tmp EXCEPT ![part[t]][msg[t]] = "torn"]
    /\ fd' = [fd EXCEPT ![t] = "tmp"]
    /\ Goto(t, "fill")
    /\ UNCHANGED <<memory, file, up, op, msg, todo, part, buf, ghosts>>

\* What a file holds after "new" was written over "old" from its start.  The
\* texts of one message have one length, but "false" is longer than "true".
Overlay(old, new) ==
    IF new = "read" /\ old \in {"unread", "mixed"} THEN "mixed" ELSE new

\* The bytes go to the file that was opened, wherever that is by now.
Fill(t) ==
    /\ pc[t] = "fill"
    /\ LET k == part[t]
           m == msg[t]
       IN  /\ tmp' = IF fd[t] = "tmp"
                     THEN [tmp EXCEPT ![k][m] = Overlay(@, buf[t])] ELSE tmp
           /\ file' = IF fd[t] = "final"
                      THEN [file EXCEPT ![k][m] = Overlay(@, buf[t])] ELSE file
    /\ fd' = [fd EXCEPT ![t] = "none"]
    /\ Goto(t, "rename")
    /\ UNCHANGED <<memory, up, op, msg, todo, part, buf, ghosts>>

\* The open files of the other writers when <path> gets a new file.
Moved(k, m) ==
    [u \in Workers |->
        IF msg[u] # m \/ part[u] # k THEN fd[u]
        ELSE CASE fd[u] = "tmp" -> "final"
               [] fd[u] = "final" -> "lost"
               [] OTHER -> fd[u]]

Rename(t) ==
    LET k == part[t]
        m == msg[t]
    IN  /\ pc[t] = "rename" /\ tmp[k][m] # "none"
        /\ file' = [file EXCEPT ![k][m] = tmp[k][m]]
        /\ tmp' = [tmp EXCEPT ![k][m] = "none"]
        /\ fd' = Moved(k, m)
        /\ IF k = "eml" THEN Begin(t, op[t], m, todo[t], "marshal") ELSE Written(t)
        /\ UNCHANGED <<memory, up, buf, ghosts>>

\* A file operation fails: there is nothing to rename, or the disk is in
\* trouble.  Deliver reports the error at once; the others do not look.
WriteFails(t) ==
    /\ pc[t] \in {"create", "fill", "rename"}
    /\ DiskFails \/ (pc[t] = "rename" /\ tmp[part[t]][msg[t]] = "none")
    /\ unsure' = unsure \cup {msg[t]}
    /\ IF op[t] = "Deliver"
       THEN End(t)
       ELSE Written(t) /\ fd' = [fd EXCEPT ![t] = "none"] /\ UNCHANGED buf
    /\ UNCHANGED <<memory, disk, up, issued, acked, removed, gone>>
-----------------------------------------------------------------------------
(* persistence.remove, one system call per step                            *)

Unlinked(k, m) == [file EXCEPT ![k][m] = "none"]

\* The .eml of the first message of todo is unlinked, then its .json.  Errors
\* are ignored.  A writer that has the file open writes to an unlinked file.
Unlink(t) ==
    LET k == part[t]
        m == Head(todo[t])
        rest == Tail(todo[t])
    IN  /\ pc[t] = "unlink"
        /\ \/ /\ file' = Unlinked(k, m)
              /\ fd' = [u \in Workers |->
                          IF msg[u] = m /\ part[u] = k /\ fd[u] = "final"
                          THEN "lost" ELSE fd[u]]
              /\ UNCHANGED unsure
           \/ /\ DiskFails
              /\ unsure' = unsure \cup {m}
              /\ UNCHANGED <<file, fd>>
        /\ IF k = "eml"
           THEN /\ part' = [part EXCEPT ![t] = "json"]
                /\ UNCHANGED <<pc, op, msg, todo, gone>>
           ELSE /\ Begin(t, op[t], msg[t], rest,
                         IF rest = <<>> THEN "return" ELSE "unlink")
                /\ gone' = gone \cup {m}
        /\ UNCHANGED <<memory, tmp, up, buf, issued, acked, removed>>
-----------------------------------------------------------------------------
(* Start and crash                                                         *)

\* persistence.read takes a message whose metadata parse and whose body can
\* be opened, whatever is in it.
Loadable(m) == file["eml"][m] # "none" /\ file["json"][m] \in Flags
Loadables == {m \in Ids : Loadable(m)}

\* The process is killed: the goroutines and the memory are gone.
Crash ==
    /\ up # "down"
    /\ up' = "down"
    /\ box' = [mb \in Mailboxes |-> <<>>]
    /\ byID' = {}
    /\ read' = [m \in Ids |-> FALSE]
    /\ pc' = [t \in Workers |-> "idle"]
    /\ op' = [t \in Workers |-> "none"]
    /\ msg' = [t \in Workers |-> NoMsg]
    /\ todo' = [t \in Workers |-> <<>>]
    /\ part' = [t \in Workers |-> "eml"]
    /\ buf' = [t \in Workers |-> "none"]
    /\ fd' = [t \in Workers |-> "none"]
    /\ UNCHANGED <<disk, ghosts>>

\* Of the messages found, by ID, the newest are kept and the rest unlinked.
\* What a start finds counts as stored from here on.
Restore(found) ==
    LET foundIn(mb) == {m \in found : Home[m] = mb}
        byMailbox == UNION {Listings(foundIn(mb), ByID) : mb \in Mailboxes}
    IN  /\ up = "down"
        /\ \E list \in [Mailboxes -> byMailbox] :
            /\ \A mb \in Mailboxes : list[mb] \in Listings(foundIn(mb), ByID)
            /\ LET old == UNION {ToSet(Evicted(list[mb])) : mb \in Mailboxes}
               IN  /\ box' = [mb \in Mailboxes |-> Kept(list[mb])]
                   /\ byID' = found \ old
                   /\ removed' = (removed \ found) \cup old
                   /\ IF old = {}
                      THEN up' = "up" /\ UNCHANGED <<pc, op, msg, todo, part>>
                      ELSE /\ up' = "loading"
                           /\ \E order \in Listings(old, ByID) :
                                Begin(Main, "load", NoMsg, order, "unlink")
        /\ read' = [m \in Ids |-> m \in found /\ file["json"][m] = "read"]
        /\ acked' = acked \cup found
        /\ gone' = gone \ found
        /\ unsure' = {m \in unsure : m \notin found \/ file["eml"][m] # "raw"}
        /\ UNCHANGED <<disk, buf, fd, issued>>

\* New with a data directory.  A message that cannot be read is skipped.  (If
\* a whole directory cannot be read, the program ends: Crash.)
Load ==
    \E found \in SUBSET Loadables :
        /\ Loadables \ found \subseteq (IF DiskFails THEN unsure ELSE {})
        /\ Restore(found)

\* The disk gets into trouble with a file of m: the next start may not be able
\* to read it.
Decay(m) ==
    /\ up = "down" /\ DiskFails
    /\ m \in Loadables \ unsure
    /\ unsure' = unsure \cup {m}
    /\ UNCHANGED <<memory, disk, up, threads, issued, acked, removed, gone>>
-----------------------------------------------------------------------------
\* A goroutine starts an operation, or goes on with the one it is in.
Call(t) == Deliver(t) \/ MarkRead(t) \/ MarkAllRead(t) \/ Delete(t) \/ Clear(t)

Write(t) ==
    \/ Stat(t) \/ Marshal(t) \/ Create(t) \/ Fill(t) \/ Rename(t)
    \/ WriteFails(t)

Step(t) == Insert(t) \/ Swap(t) \/ Write(t) \/ Unlink(t) \/ Return(t)

Next ==
    \/ \E t \in Threads : Call(t)
    \/ \E t \in Workers : Step(t)
    \/ Load
    \/ Crash
    \/ \E m \in Ids : Decay(m)

Spec == Init /\ [][Next]_vars
-----------------------------------------------------------------------------
(* What the store promises                                                 *)

\* The index and the mailboxes name the same messages: each message is in the
\* mailbox it was delivered to, once, and Get finds exactly what List shows.
IndexAgrees ==
    /\ byID = UNION {ToSet(box[mb]) : mb \in Mailboxes}
    /\ \A mb \in Mailboxes :
        /\ IsInjective(box[mb])
        /\ \A m \in ToSet(box[mb]) : Home[m] = mb

\* No mailbox ever shows more messages than MaxMessages, not even between two
\* deliveries or right after a restart.
Capacity ==
    MaxMessages > 0 => \A mb \in Mailboxes : Len(box[mb]) <= MaxMessages

\* A message that was reported as stored and has not been taken out of its
\* mailbox since is whole on disk, through every crash, and is in memory as
\* long as the program is up.  Excepted are messages whose files two
\* goroutines wrote at once, or whose files the disk refused.
AckedIsKept ==
    Persist => \A m \in acked \ (removed \cup unsure) :
        /\ file["eml"][m] = "raw" /\ file["json"][m] \in Flags
        /\ up # "down" => m \in byID

\* A message whose removal has finished is not found by any later start,
\* unless a goroutine held it for writing when it was removed or the disk
\* refused to unlink it.
DeletedStaysDeleted ==
    \A m \in gone \ unsure : ~Loadable(m)

\* Between operations, what a restart would find of a message that nobody
\* wrote twice at once is what memory says: it is there, with its read flag.
FlagIsSaved ==
    Persist /\ up = "up" /\ (\A t \in Workers : pc[t] = "idle") =>
        \A m \in byID \ unsure : file["json"][m] = Flag(read[m])

\* The store implements the bounded queues that keep their promises.
Queue == INSTANCE MailQueue WITH
    queue <- box,
    running <- up # "down",
    kept <- acked \ (removed \cup unsure),
    dead <- gone \ unsure
KeepsPromises == Queue!Spec

\* The comment of writeFileAtomic: no file is ever half-written, also not
\* after a crash.  It holds as long as each message has one writer...
WholeFiles ==
    \A k \in Kinds : \A m \in Ids \ unsure : file[k][m] \notin {"torn", "mixed"}
\* ... and the comment says it of every message.
NoHalfWrittenFile ==
    up = "down" => \A k \in Kinds, m \in Ids : file[k][m] \notin {"torn", "mixed"}

\* store_test.go has a deleted message stay deleted across a restart.
DeletedFilesAreRemoved ==
    \A m \in gone : ~Loadable(m)

\* The comment in load: since IDs start with the millisecond, sorting them
\* gives the order of delivery.
SortingRestoresOrder ==
    \A mb \in Mailboxes : \A i, j \in DOMAIN box[mb] :
        i < j => Milli[box[mb][i]] <= Milli[box[mb][j]]
=============================================================================
