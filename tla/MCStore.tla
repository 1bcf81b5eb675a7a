------------------------------ MODULE MCStore ------------------------------
(***************************************************************************)
(* Small instances of Store.  Two messages share a millisecond.            *)
(***************************************************************************)
EXTENDS Store

CONSTANTS a, b

OneMailbox == {a}
TwoMailboxes == {a, b}

MilliOf == [m \in Ids |-> (m + 1) \div 2]
AllInOne == [m \in Ids |-> a]
LastInB == [m \in Ids |-> IF m = 3 THEN b ELSE a]

Symmetry == Permutations(Threads)

\* The number of calls is bounded over the whole life of the data directory, and
\* by one less once a message has had two writers or a disk error; the number
\* of crashes and of disk errors is not.
CONSTANT MaxCalls
VARIABLE calls

MCInit == Init /\ calls = 0
MCNext ==
    \/ /\ calls < (IF unsure = {} THEN MaxCalls ELSE MaxCalls - 1)
       /\ calls' = calls + 1
       /\ \E t \in Threads : Call(t)
    \/ /\ UNCHANGED calls
       /\ \/ \E t \in Workers : Step(t)
          \/ Load \/ Crash
          \/ \E m \in Ids : Decay(m)
MCSpec == MCInit /\ [][MCNext]_<<vars, calls>>
=============================================================================
