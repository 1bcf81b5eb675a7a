----------------------------- MODULE Submission -----------------------------
(***************************************************************************)
(* What a sender may rely on: each time it submits a message, the message  *)
(* goes into the mailboxes it is meant for, into each of them once, until  *)
(* one cannot take it; and the answer comes after that and says how it     *)
(* went.  Smtp implements this with sessions and their commands.           *)
(***************************************************************************)
EXTENDS Naturals

CONSTANTS Mails, Mailboxes

VARIABLES
    fate,     \* what the sender knows of each message
    tries,    \* how often it was submitted
    goal,     \* the mailboxes it is meant for, at the last try
    left,     \* those of them that are still to be served
    copies,   \* how often it was put in each mailbox
    kept      \* the mailboxes that have stored it without error

vars == <<fate, tries, goal, left, copies, kept>>

Init ==
    /\ fate = [m \in Mails |-> "new"]
    /\ tries = [m \in Mails |-> 0]
    /\ goal = [m \in Mails |-> {}]
    /\ left = [m \in Mails |-> {}]
    /\ copies = [m \in Mails |-> [mb \in Mailboxes |-> 0]]
    /\ kept = [m \in Mails |-> {}]

Answer(m, what) ==
    /\ fate' = [fate EXCEPT ![m] = what]
    /\ left' = [left EXCEPT ![m] = {}]

\* A message is submitted, at first or after it was refused.
Submit(m, boxes) ==
    /\ fate[m] \in {"new", "refused"} /\ boxes # {}
    /\ fate' = [fate EXCEPT ![m] = "sent"]
    /\ tries' = [tries EXCEPT ![m] = @ + 1]
    /\ goal' = [goal EXCEPT ![m] = boxes]
    /\ left' = [left EXCEPT ![m] = boxes]
    /\ UNCHANGED <<copies, kept>>

\* It is put in one of the mailboxes, and stored there ...
Put(m, mb) == copies' = [copies EXCEPT ![m][mb] = @ + 1]

Store(m, mb) ==
    /\ fate[m] = "sent" /\ mb \in left[m]
    /\ Put(m, mb)
    /\ kept' = [kept EXCEPT ![m] = @ \cup {mb}]
    /\ left' = [left EXCEPT ![m] = @ \ {mb}]
    /\ UNCHANGED <<fate, tries, goal>>

\* ... or the mailbox shows it, but could not store it.
Refuse(m, mb) ==
    /\ fate[m] = "sent" /\ mb \in left[m]
    /\ Put(m, mb)
    /\ Answer(m, "refused")
    /\ UNCHANGED <<tries, goal, kept>>

\* A message that is too large will never do; it is in no mailbox.
RejectAtOnce(m) ==
    /\ fate[m] \in {"new", "refused"}
    /\ tries' = [tries EXCEPT ![m] = @ + 1]
    /\ Answer(m, "rejected")
    /\ UNCHANGED <<goal, copies, kept>>

Reject(m) ==
    /\ fate[m] = "sent" /\ left[m] = goal[m]
    /\ Answer(m, "rejected")
    /\ UNCHANGED <<tries, goal, copies, kept>>

Accept(m) ==
    /\ fate[m] = "sent" /\ left[m] = {}
    /\ Answer(m, "accepted")
    /\ UNCHANGED <<tries, goal, copies, kept>>

Next ==
    \E m \in Mails :
        \/ RejectAtOnce(m) \/ Reject(m) \/ Accept(m)
        \/ \E boxes \in SUBSET Mailboxes : Submit(m, boxes)
        \/ \E mb \in Mailboxes : Store(m, mb) \/ Refuse(m, mb)

Spec == Init /\ [][Next]_vars
-----------------------------------------------------------------------------
(* What follows                                                            *)

\* A message that is accepted is stored in every mailbox it was meant for.
AcceptedIsStored ==
    \A m \in Mails : fate[m] = "accepted" => goal[m] # {} /\ goal[m] \subseteq kept[m]

\* No mailbox gets a message more often than it was submitted, and a message
\* that was rejected at its first try is nowhere.
OneCopyPerTry ==
    /\ \A m \in Mails, mb \in Mailboxes : copies[m][mb] <= tries[m]
    /\ \A m \in Mails, mb \in Mailboxes :
        fate[m] = "rejected" /\ tries[m] = 1 => copies[m][mb] = 0
=============================================================================
