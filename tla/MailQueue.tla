----------------------------- MODULE MailQueue -----------------------------
(***************************************************************************)
(* What a user may rely on: mailboxes that are bounded queues, and two     *)
(* kinds of promise that outlive the process.  A message in "kept" will be *)
(* there after a restart; a message in "dead" will not come back.  Store   *)
(* implements this with files, and gives a promise up (Renounce) only when *)
(* goroutines race for the files of one message or the disk fails.         *)
(***************************************************************************)
EXTENDS Integers, Sequences, FiniteSets, SequencesExt

CONSTANTS Mailboxes, Ids, Home, MaxMessages

VARIABLES
    queue,    \* queue[mb]: the messages shown, oldest first
    running,  \* is the program running?
    kept,     \* messages promised to survive
    dead      \* messages promised to be gone

vars == <<queue, running, kept, dead>>

Shown == UNION {ToSet(queue[mb]) : mb \in Mailboxes}
Full(q) == MaxMessages > 0 /\ Len(q) = MaxMessages

Init ==
    /\ queue = [mb \in Mailboxes |-> <<>>]
    /\ running = FALSE
    /\ kept = {}
    /\ dead = {}

\* A new message goes to the end of its queue; a full queue loses its oldest.
Enqueue(m) ==
    LET mb == Home[m]
        drop == IF Full(queue[mb]) THEN {Head(queue[mb])} ELSE {}
        rest == IF Full(queue[mb]) THEN Tail(queue[mb]) ELSE queue[mb]
    IN  /\ running /\ m \notin Shown \cup kept \cup dead
        /\ queue' = [queue EXCEPT ![mb] = Append(rest, m)]
        /\ kept' = kept \ drop
        /\ running' = running /\ dead' = dead

\* The sender is told that the message is stored.
Promise(m) ==
    /\ m \in Shown
    /\ kept' = kept \cup {m}
    /\ queue' = queue /\ running' = running /\ dead' = dead

\* A user takes messages away; the others stay as they are.
Take(mb, m) ==
    /\ running
    /\ \E i \in DOMAIN queue[mb] :
        /\ queue[mb][i] = m
        /\ queue' = [queue EXCEPT ![mb] = RemoveAt(@, i)]
    /\ kept' = kept \ {m}
    /\ running' = running /\ dead' = dead

Empty(mb) ==
    /\ running
    /\ queue' = [queue EXCEPT ![mb] = <<>>]
    /\ kept' = kept \ ToSet(queue[mb])
    /\ running' = running /\ dead' = dead

\* The user is told that the message is gone.
Bury(m) ==
    /\ m \notin Shown \cup kept
    /\ dead' = dead \cup {m}
    /\ queue' = queue /\ running' = running /\ kept' = kept

Renounce ==
    /\ kept' \subseteq kept /\ dead' \subseteq dead
    /\ queue' = queue /\ running' = running

Stop ==
    /\ running' = FALSE
    /\ queue' = [mb \in Mailboxes |-> <<>>]
    /\ kept' = kept /\ dead' = dead

\* A start shows the messages it finds by ID, nothing dead, and all that was
\* promised, save where newer messages fill the queue.
Start ==
    /\ ~running /\ running' = TRUE
    /\ \A mb \in Mailboxes :
        /\ queue'[mb] \in Seq({m \in Ids \ dead : Home[m] = mb})
        /\ \A i, j \in DOMAIN queue'[mb] : i < j => queue'[mb][i] < queue'[mb][j]
        /\ MaxMessages > 0 => Len(queue'[mb]) <= MaxMessages
        /\ \A m \in kept : Home[m] = mb =>
            \/ m \in ToSet(queue'[mb])
            \/ Full(queue'[mb]) /\ \A n \in ToSet(queue'[mb]) : m < n
    /\ kept \cap Shown' \subseteq kept' /\ kept' \subseteq Shown'
    /\ dead' = dead

Next ==
    \/ \E m \in Ids : Enqueue(m) \/ Promise(m) \/ Bury(m)
    \/ \E mb \in Mailboxes : Empty(mb) \/ \E m \in Ids : Take(mb, m)
    \/ Renounce \/ Stop \/ Start

Spec == Init /\ [][Next]_vars
=============================================================================
