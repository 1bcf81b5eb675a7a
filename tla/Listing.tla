------------------------------ MODULE Listing ------------------------------
(***************************************************************************)
(* Store.List and the request that calls it (web.handleListMessages): one  *)
(* page of the messages of one mailbox or of all, newest first.            *)
(***************************************************************************)
EXTENDS Integers, Sequences, FiniteSets, SequencesExt, FiniteSetsExt

CONSTANTS
    DefaultLimit,   \* 50 in the code
    MaxLimit        \* 500 in the code
ASSUME ListingAssumption ==
    DefaultLimit \in Nat \ {0} /\ MaxLimit \in Nat /\ DefaultLimit <= MaxLimit

Limit(asked) == IF asked <= 0 \/ asked > MaxLimit THEN DefaultLimit ELSE asked
Offset(asked) == IF asked < 0 THEN 0 ELSE asked

\* The numbers of a set from the least to the greatest.
Sorted(S) ==
    CHOOSE s \in [1..Cardinality(S) -> S] : \A i, j \in DOMAIN s : i < j => s[i] < s[j]

\* The messages looked at: those of a mailbox as they were delivered, those of
\* all mailboxes by their IDs.
Pool(boxes, mb) ==
    IF mb \in DOMAIN boxes THEN boxes[mb]
    ELSE Sorted(UNION {ToSet(boxes[b]) : b \in DOMAIN boxes})

\* Those of the pool that are unread, if only they are asked for, and contain
\* what is searched for.
Matching(boxes, mb, wanted) ==
    LET pool == Pool(boxes, mb)
        matches[n \in 0..Len(pool)] ==
            IF n = 0 THEN <<>>
            ELSE IF pool[n] \notin wanted THEN matches[n - 1]
                 ELSE Append(matches[n - 1], pool[n])
    IN  matches[Len(pool)]

\* (Mutation: the loop starts one too far.)
PageShifted(matches, offset, limit) ==
    LET last == Len(matches) - offset - 1
    IN  [i \in 1..Max({0, Min({limit, last})}) |-> matches[last + 1 - i]]

\* The loop of List, from the newest of the matches backwards.
Page(matches, offset, limit) ==
    LET last == Len(matches) - offset
    IN  [i \in 1..Max({0, Min({limit, last})}) |-> matches[last + 1 - i]]

\* A request and its answer.
ListMessages(boxes, mb, wanted, offset, limit) ==
    LET matches == Matching(boxes, mb, wanted)
    IN  [messages |-> Page(matches, Offset(offset), Limit(limit)),
         total |-> Len(matches), offset |-> Offset(offset)]

\* Page after page, each from where the one before ended, shows every message
\* that matches once, newest first, and is over when total of them are shown.
PagesCover(boxes, mb, wanted, limit) ==
    LET first == ListMessages(boxes, mb, wanted, -1, limit)
        from[i \in 0..first.total] ==
            LET page == ListMessages(boxes, mb, wanted, i, limit).messages
            IN  IF page = <<>> THEN <<>>
                ELSE page \o IF i + Len(page) > first.total THEN <<>> ELSE from[i + Len(page)]
        shown == from[0]
    IN  /\ shown = Reverse(Matching(boxes, mb, wanted))
        /\ Len(shown) = first.total
        /\ ToSet(shown) = {m \in UNION {ToSet(boxes[b]) : b \in DOMAIN boxes} :
                             m \in wanted /\ (mb \in DOMAIN boxes => m \in ToSet(boxes[mb]))}
        /\ ListMessages(boxes, mb, wanted, first.total, limit).messages = <<>>
=============================================================================
