-------------------------------- MODULE Feed --------------------------------
(***************************************************************************)
(* How a browser follows the store of mailschleuse: events that are        *)
(* published after a change (Store.publish), the channel and the stream    *)
(* that carry them (web.handleEvents), and the page that asks for its      *)
(* lists again when it hears one (assets/app.js).                          *)
(*                                                                         *)
(* What a mailbox holds is known here by how often it was changed.  Events *)
(* and answers travel; requests are answered and their answers arrive in   *)
(* any order.                                                              *)
(***************************************************************************)
EXTENDS Integers, Sequences, FiniteSets, SequencesExt, FiniteSetsExt

CONSTANTS
    Mailboxes,
    Capacity,     \* of the channel of a subscriber, 64 in the code
    MaxChanges,   \* bound: changes of the store
    MaxWire,      \* bound: events under way to the browser
    MaxRequests   \* bound: requests of one kind under way

ASSUME FeedAssumption ==
    /\ IsFiniteSet(Mailboxes) /\ Mailboxes # {}
    /\ Capacity \in Nat \ {0} /\ MaxChanges \in Nat
    /\ MaxWire \in Nat \ {0} /\ MaxRequests \in Nat \ {0}

VARIABLES
    version,   \* how often each mailbox was changed
    pending,   \* events of changes that are made but not yet published
    stream,    \* "closed", "open" (headers sent) or "subscribed"
    channel,   \* the events in the channel of the subscriber
    wire,      \* the events under way to the browser
    here,      \* state.mailbox of the page
    list,      \* state.messages: of which mailbox, and after which change
    sidebar,   \* state.mailboxes: after which change of each
    loads,     \* requests of loadMessages, oldest first
    looks,     \* requests of refreshMailboxes, oldest first
    heard,     \* ghost: what each mailbox held when the page heard of it last
    behind,    \* ghost: which of the two shows an answer that was overtaken
    lost       \* ghost: mailboxes whose last change the page may not hear of

store == <<version, pending>>
server == <<stream, channel, wire>>
page == <<here, list, sidebar, loads, looks>>
ghosts == <<heard, behind, lost>>
vars == <<store, server, page, ghosts>>

Versions == Nat
Events == [mailbox : Mailboxes, cleared : BOOLEAN, version : Versions]
Unanswered == -1
Unseen == [mb \in Mailboxes |-> Unanswered]

TypeOK ==
    /\ version \in [Mailboxes -> Versions]
    /\ pending \subseteq Events
    /\ stream \in {"closed", "open", "subscribed"}
    /\ channel \in Seq(Events) /\ Len(channel) <= Capacity
    /\ stream # "subscribed" => channel = <<>> /\ (stream = "closed" => wire = <<>>)
    /\ wire \in Seq(Events)
    /\ here \in Mailboxes
    /\ list \in [mailbox : Mailboxes, version : Versions \cup {Unanswered}]
    /\ sidebar \in [Mailboxes -> Versions]
    /\ loads \in Seq([mailbox : Mailboxes, version : Versions \cup {Unanswered},
                      late : BOOLEAN])
    /\ looks \in Seq([seen : [Mailboxes -> Versions] \cup {Unseen}, late : BOOLEAN])
    /\ heard \in [Mailboxes -> Versions]
    /\ behind \subseteq {"list", "sidebar"}
    /\ lost \subseteq Mailboxes

Load(mb) == [mailbox |-> mb, version |-> Unanswered, late |-> FALSE]
Look == [seen |-> Unseen, late |-> FALSE]

\* boot: the page knows the sidebar, asks for a list and opens the stream.
Init ==
    /\ version = [mb \in Mailboxes |-> 0]
    /\ pending = {}
    /\ stream = "closed"
    /\ channel = <<>> /\ wire = <<>>
    /\ here \in Mailboxes
    /\ list = [mailbox |-> here, version |-> Unanswered]
    /\ sidebar = [mb \in Mailboxes |-> 0]
    /\ loads = <<Load(here)>> /\ looks = <<>>
    /\ heard = [mb \in Mailboxes |-> 0]
    /\ behind = {}
    /\ lost = {}
-----------------------------------------------------------------------------
(* The store                                                               *)

Changes == MapThenSumSet(LAMBDA mb : version[mb], Mailboxes)

\* The mailboxes of which the page has yet to hear.
Waiting == {e.mailbox : e \in pending \cup Range(channel) \cup Range(wire)}

\* An operation changes a mailbox under the lock, and will publish its event
\* when it has released the lock and is through with the disk; not at all, if
\* a delivery cannot be written.
Change(mb) ==
    /\ Changes < MaxChanges
    /\ version' = [version EXCEPT ![mb] = @ + 1]
    /\ \/ /\ \E cleared \in BOOLEAN :
                pending' = pending \cup {[mailbox |-> mb, cleared |-> cleared,
                                          version |-> version'[mb]]}
          /\ lost' = lost \ {mb}
       \/ UNCHANGED pending /\ lost' = lost \cup ({mb} \ Waiting)
    /\ UNCHANGED <<server, page, heard, behind>>

\* Store.publish: to a subscriber that keeps up.
Publish(e) ==
    /\ e \in pending
    /\ pending' = pending \ {e}
    /\ UNCHANGED <<version, stream, wire, page, heard, behind>>
    /\ IF stream = "subscribed" /\ Len(channel) < Capacity
       THEN channel' = Append(channel, e) /\ UNCHANGED lost
       ELSE UNCHANGED channel /\ lost' = lost \cup ({e.mailbox} \ Waiting')
-----------------------------------------------------------------------------
(* The stream                                                              *)

\* The page connects, at first or again: the headers are sent at once.
Open ==
    /\ stream = "closed"
    /\ stream' = "open"
    /\ UNCHANGED <<store, channel, wire, page, ghosts>>

Subscribe ==
    /\ stream = "open"
    /\ stream' = "subscribed"
    /\ UNCHANGED <<store, channel, wire, page, ghosts>>

\* (Mutation: an event is dropped if the connection is busy.)
ForwardIfIdle ==
    /\ channel # <<>>
    /\ wire' = IF Len(wire) < MaxWire THEN Append(wire, Head(channel)) ELSE wire
    /\ channel' = Tail(channel)
    /\ UNCHANGED <<store, stream, page, ghosts>>

\* handleEvents passes the next event on.
Forward ==
    /\ channel # <<>> /\ Len(wire) < MaxWire
    /\ wire' = Append(wire, Head(channel))
    /\ channel' = Tail(channel)
    /\ UNCHANGED <<store, stream, page, ghosts>>

\* (Mutation: what is under way is kept for the next connection.)
CutKeeping ==
    /\ stream # "closed"
    /\ stream' = "closed"
    /\ UNCHANGED <<store, channel, wire, page, ghosts>>

\* The connection breaks: the handler unsubscribes, what is under way is lost.
Cut ==
    /\ stream # "closed"
    /\ stream' = "closed"
    /\ channel' = <<>> /\ wire' = <<>>
    /\ UNCHANGED <<store, page, heard, behind>>
    /\ lost' = lost \cup (Waiting \ Waiting')
-----------------------------------------------------------------------------
(* The page                                                                *)

AskList(mb) == loads' = Append(loads, Load(mb)) /\ UNCHANGED looks
AskSidebar == looks' = Append(looks, Look) /\ UNCHANGED loads
HasRoom == Len(loads) < MaxRequests /\ Len(looks) < MaxRequests

\* (Mutation: an event is ignored while a list is being loaded.)
HearIdle ==
    /\ wire # <<>> /\ HasRoom
    /\ wire' = Tail(wire)
    /\ LET e == Head(wire)
       IN  /\ IF loads # <<>> THEN UNCHANGED <<loads, looks>>
              ELSE IF e.mailbox = here \/ e.cleared THEN AskList(here) ELSE AskSidebar
           /\ heard' = [heard EXCEPT ![e.mailbox] = version[e.mailbox]]
    /\ UNCHANGED <<store, stream, channel, here, list, sidebar, behind, lost>>

\* connectEvents: an event about the mailbox shown, or any clearing, makes the
\* page load its list; any other event only refreshes the sidebar.
Hear ==
    /\ wire # <<>> /\ HasRoom
    /\ wire' = Tail(wire)
    /\ LET e == Head(wire)
       IN  /\ IF e.mailbox = here \/ e.cleared THEN AskList(here) ELSE AskSidebar
           /\ heard' = [heard EXCEPT ![e.mailbox] = version[e.mailbox]]
    /\ UNCHANGED <<store, stream, channel, here, list, sidebar, behind, lost>>

\* selectMailbox; of the mailbox that is shown already, also a reload.
Select(mb) ==
    /\ HasRoom
    /\ here' = mb /\ AskList(mb)
    /\ UNCHANGED <<store, server, list, sidebar, ghosts>>

\* The server reads the store and answers.
AnswerList(i) ==
    /\ loads[i].version = Unanswered
    /\ loads' = [loads EXCEPT ![i].version = version[loads[i].mailbox]]
    /\ UNCHANGED <<store, server, here, list, sidebar, looks, ghosts>>

AnswerSidebar(i) ==
    /\ looks[i].seen = Unseen
    /\ looks' = [looks EXCEPT ![i].seen = version]
    /\ UNCHANGED <<store, server, here, list, sidebar, loads, ghosts>>

\* What is left of the requests s when the i-th is done; those sent before it
\* will come too late.
Done(s, i) ==
    [j \in 1..(Len(s) - 1) |-> IF j < i THEN [s[j] EXCEPT !.late = TRUE] ELSE s[j + 1]]
Late(s) == [j \in DOMAIN s |-> [s[j] EXCEPT !.late = TRUE]]

\* The rest of loadMessages: show what came, whatever it is, and refresh the
\* sidebar.
ShowList(i) ==
    /\ loads[i].version # Unanswered /\ Len(looks) < MaxRequests
    /\ list' = [mailbox |-> loads[i].mailbox, version |-> loads[i].version]
    /\ loads' = Done(loads, i)
    /\ looks' = Append(looks, Look)
    /\ behind' = IF loads[i].late THEN behind \cup {"list"} ELSE behind \ {"list"}
    /\ UNCHANGED <<store, server, here, sidebar, heard, lost>>

\* The rest of refreshMailboxes.
ShowSidebar(i) ==
    /\ looks[i].seen # Unseen
    /\ sidebar' = looks[i].seen
    /\ looks' = Done(looks, i)
    /\ behind' = IF looks[i].late THEN behind \cup {"sidebar"}
                                  ELSE behind \ {"sidebar"}
    /\ UNCHANGED <<store, server, here, list, loads, heard, lost>>

\* A request fails and the page ignores it; the sidebar is not refreshed then.
LoadFails(i) ==
    /\ loads' = Done(loads, i)
    /\ looks' = Late(looks)
    /\ behind' = behind \cup {"list", "sidebar"}
    /\ UNCHANGED <<store, server, here, list, sidebar, heard, lost>>

LookFails(i) ==
    /\ looks' = Done(looks, i)
    /\ behind' = behind \cup {"sidebar"}
    /\ UNCHANGED <<store, server, here, list, sidebar, loads, heard, lost>>

Next ==
    \/ \E mb \in Mailboxes : Change(mb) \/ Select(mb)
    \/ \E e \in pending : Publish(e)
    \/ Open \/ Subscribe \/ Forward \/ Cut \/ Hear
    \/ \E i \in DOMAIN loads : AnswerList(i) \/ ShowList(i) \/ LoadFails(i)
    \/ \E i \in DOMAIN looks : AnswerSidebar(i) \/ ShowSidebar(i) \/ LookFails(i)

Spec == Init /\ [][Next]_vars
-----------------------------------------------------------------------------
(* Correctness                                                             *)

\* When the page waits for nothing, it shows every change that was made before
\* it heard of the mailbox last, in the list of the mailbox that is selected and
\* in the sidebar, unless the last answer it used had been overtaken or lost.
ToldMeansShown ==
    /\ loads = <<>> /\ "list" \notin behind =>
        list.mailbox = here /\ list.version >= heard[here]
    /\ loads = <<>> /\ looks = <<>> /\ "sidebar" \notin behind =>
        \A mb \in Mailboxes : sidebar[mb] >= heard[mb]

\* When nothing is under way any more, the page shows the store as it is: its
\* list and its sidebar hold the last change of every mailbox.  An event that is
\* dropped for a full channel (publish: "for listeners that cannot keep up")
\* does no harm as long as another one about the mailbox is still to come; only
\* the last one can be missed, when it was dropped, never published or cut off.
Quiet == Waiting = {} /\ loads = <<>>

QuietMeansCurrent ==
    /\ Quiet /\ here \notin lost /\ "list" \notin behind =>
        list.mailbox = here /\ list.version >= version[here]
    /\ Quiet /\ looks = <<>> /\ "sidebar" \notin behind =>
        \A mb \in Mailboxes \ lost : sidebar[mb] >= version[mb]
=============================================================================
