-------------------------- MODULE SubmissionProofs --------------------------
(***************************************************************************)
(* Theorems about Submission, which Smtp implements.                       *)
(***************************************************************************)
EXTENDS Submission, TLAPS

TypeOK ==
    /\ fate \in [Mails -> {"new", "sent", "accepted", "refused", "rejected"}]
    /\ tries \in [Mails -> Nat]
    /\ goal \in [Mails -> SUBSET Mailboxes]
    /\ left \in [Mails -> SUBSET Mailboxes]
    /\ copies \in [Mails -> [Mailboxes -> Nat]]
    /\ kept \in [Mails -> SUBSET Mailboxes]

\* Of one message: what is meant for a mailbox is stored there or still to be;
\* a mailbox that is still to be served has at most the copies of earlier
\* tries, and the first try has no earlier ones.
Delivered(m) ==
    /\ fate[m] = "sent" => goal[m] # {} /\ goal[m] \subseteq kept[m] \cup left[m]
    /\ fate[m] = "accepted" => goal[m] # {} /\ goal[m] \subseteq kept[m]

Counted(m) ==
    /\ left[m] \subseteq goal[m]
    /\ fate[m] = "new" <=> tries[m] = 0
    /\ \A mb \in Mailboxes :
        /\ copies[m][mb] <= tries[m]
        /\ fate[m] = "sent" /\ mb \in left[m] => copies[m][mb] < tries[m]
        /\ tries[m] = 1 /\ fate[m] = "sent" /\ mb \notin goal[m] => copies[m][mb] = 0
        /\ tries[m] = 1 /\ fate[m] = "rejected" => copies[m][mb] = 0

Inv == TypeOK /\ \A m \in Mails : Delivered(m) /\ Counted(m)

LEMMA InvInit == Init => Inv
<1> SUFFICES ASSUME Init PROVE Inv
  OBVIOUS
<1>1. TypeOK
  BY DEF Init, TypeOK
<1>2. ASSUME NEW m \in Mails PROVE Delivered(m) /\ Counted(m)
  BY DEF Init, Delivered, Counted
<1> QED
  BY <1>1, <1>2 DEF Inv

\* A step is about one message, and leaves the others alone.
LEMMA OneMail ==
    ASSUME Inv, NEW m \in Mails, TypeOK', Delivered(m)', Counted(m)',
           \A n \in Mails \ {m} :
                /\ fate'[n] = fate[n] /\ tries'[n] = tries[n] /\ goal'[n] = goal[n]
                /\ left'[n] = left[n] /\ copies'[n] = copies[n] /\ kept'[n] = kept[n]
    PROVE  Inv'
<1>1. ASSUME NEW n \in Mails, n # m PROVE Delivered(n)' /\ Counted(n)'
  BY <1>1 DEF Inv, Delivered, Counted
<1> QED
  BY <1>1 DEF Inv

LEMMA InvNext == Inv /\ [Next]_vars => Inv'
<1> SUFFICES ASSUME Inv, [Next]_vars PROVE Inv'
  OBVIOUS
<1> USE DEF TypeOK
<1>0. TypeOK /\ \A m \in Mails : Delivered(m) /\ Counted(m)
  BY DEF Inv
<1>1. ASSUME NEW m \in Mails, NEW boxes \in SUBSET Mailboxes, Submit(m, boxes) PROVE Inv'
  <2>1. TypeOK'
    BY <1>0, <1>1 DEF Submit
  <2>2. Delivered(m)'
    BY <1>0, <1>1 DEF Submit, Delivered
  <2>3. /\ tries'[m] = tries[m] + 1 /\ fate'[m] = "sent"
        /\ goal'[m] = boxes /\ left'[m] = boxes /\ copies' = copies
    BY <1>0, <1>1 DEF Submit
  <2>4. /\ tries[m] \in Nat
        /\ \A mb \in Mailboxes : copies[m][mb] \in Nat /\ copies[m][mb] <= tries[m]
    BY <1>0 DEF Counted
  <2>5. Counted(m)'
    BY <2>3, <2>4, <1>0 DEF Counted
  <2> QED
    BY <1>0, <1>1, <2>1, <2>2, <2>5, OneMail DEF Submit
<1>2. ASSUME NEW m \in Mails, NEW mb \in Mailboxes, Store(m, mb) PROVE Inv'
  <2>1. /\ copies' \in [Mails -> [Mailboxes -> Nat]]
        /\ \A n \in Mails \ {m} : copies'[n] = copies[n]
        /\ \A b \in Mailboxes : copies'[m][b] = IF b = mb THEN copies[m][b] + 1 ELSE copies[m][b]
    BY <1>0, <1>2 DEF Store, Put
  <2>2. TypeOK'
    BY <1>0, <1>2, <2>1 DEF Store
  <2>3. Delivered(m)' /\ Counted(m)'
    BY <1>0, <1>2, <2>1 DEF Store, Delivered, Counted
  <2> QED
    BY <1>0, <1>2, <2>1, <2>2, <2>3, OneMail DEF Store
<1>3. ASSUME NEW m \in Mails, NEW mb \in Mailboxes, Refuse(m, mb) PROVE Inv'
  <2>1. /\ copies' \in [Mails -> [Mailboxes -> Nat]]
        /\ \A n \in Mails \ {m} : copies'[n] = copies[n]
        /\ \A b \in Mailboxes : copies'[m][b] = IF b = mb THEN copies[m][b] + 1 ELSE copies[m][b]
    BY <1>0, <1>3 DEF Refuse, Put
  <2>2. TypeOK'
    BY <1>0, <1>3, <2>1 DEF Refuse, Answer
  <2>3. Delivered(m)'
    BY <1>0, <1>3 DEF Refuse, Answer, Delivered
  <2>4. /\ tries' = tries /\ fate[m] = "sent" /\ fate'[m] = "refused" /\ mb \in left[m]
        /\ left'[m] = {} /\ goal' = goal
    BY <1>0, <1>3 DEF Refuse, Answer
  <2>5. \A b \in Mailboxes : copies'[m][b] <= tries'[m]
    <3>1. \A b \in Mailboxes : copies[m][b] \in Nat /\ copies[m][b] <= tries[m]
      BY <1>0 DEF Counted
    <3>2. copies[m][mb] < tries[m] /\ tries[m] \in Nat
      BY <1>0, <2>4 DEF Counted
    <3> QED
      BY <2>1, <2>4, <3>1, <3>2
  <2>6. fate[m] = "new" <=> tries[m] = 0
    BY <1>0 DEF Counted
  <2>7. Counted(m)'
    BY <2>4, <2>5, <2>6 DEF Counted
  <2> QED
    BY <1>0, <1>3, <2>1, <2>2, <2>3, <2>7, OneMail DEF Refuse, Answer
<1>4. ASSUME NEW m \in Mails, RejectAtOnce(m) PROVE Inv'
  <2>1. TypeOK'
    BY <1>0, <1>4 DEF RejectAtOnce, Answer
  <2>2. Delivered(m)'
    BY <1>0, <1>4 DEF RejectAtOnce, Answer, Delivered
  <2>3. /\ tries'[m] = tries[m] + 1 /\ fate[m] \in {"new", "refused"} /\ fate'[m] = "rejected"
        /\ left'[m] = {} /\ copies' = copies
    BY <1>0, <1>4 DEF RejectAtOnce, Answer
  <2>4. /\ tries[m] \in Nat
        /\ \A mb \in Mailboxes : copies[m][mb] \in Nat /\ copies[m][mb] <= tries[m]
    BY <1>0 DEF Counted
  <2>5. Counted(m)'
    BY <2>3, <2>4 DEF Counted
  <2> QED
    BY <1>0, <1>4, <2>1, <2>2, <2>5, OneMail DEF RejectAtOnce, Answer
<1>5. ASSUME NEW m \in Mails, Reject(m) PROVE Inv'
  <2>1. TypeOK'
    BY <1>0, <1>5 DEF Reject, Answer
  <2>2. Delivered(m)' /\ Counted(m)'
    BY <1>0, <1>5 DEF Reject, Answer, Delivered, Counted
  <2> QED
    BY <1>0, <1>5, <2>1, <2>2, OneMail DEF Reject, Answer
<1>6. ASSUME NEW m \in Mails, Accept(m) PROVE Inv'
  <2>1. TypeOK'
    BY <1>0, <1>6 DEF Accept, Answer
  <2>2. Delivered(m)' /\ Counted(m)'
    BY <1>0, <1>6 DEF Accept, Answer, Delivered, Counted
  <2> QED
    BY <1>0, <1>6, <2>1, <2>2, OneMail DEF Accept, Answer
<1>7. CASE UNCHANGED vars
  BY <1>0, <1>7 DEF vars, Inv, Delivered, Counted
<1> QED
  BY <1>1, <1>2, <1>3, <1>4, <1>5, <1>6, <1>7 DEF Next

LEMMA InvCorrect == Spec => []Inv
BY InvInit, InvNext, PTL DEF Spec

\* Whatever fails in whatever try, a message that is accepted is stored in all
\* the mailboxes it was meant for.
THEOREM AcceptedMeansStored == Spec => []AcceptedIsStored
<1>1. Inv => AcceptedIsStored
  BY DEF Inv, Delivered, AcceptedIsStored
<1> QED
  BY <1>1, InvCorrect, PTL

\* A mailbox has at most one copy for each try, and none of a message that was
\* rejected at the first.
THEOREM NeverTwiceInOneTry == Spec => []OneCopyPerTry
<1>1. Inv => OneCopyPerTry
  BY DEF Inv, Counted, OneCopyPerTry
<1> QED
  BY <1>1, InvCorrect, PTL
=============================================================================
