----------------------------- MODULE MCFormats -----------------------------
(***************************************************************************)
(* The modules that define functions, checked for every input within these *)
(* bounds: from the start, one step to each input.                         *)
(***************************************************************************)
EXTENDS Wire, Mime, Listing, RoutePatterns

CONSTANTS Kinds, MaxText, MaxLine, MaxPattern
ASSUME FormatsAssumption == MaxText \in Nat /\ MaxLine \in Nat /\ MaxPattern \in Nat

VARIABLE input

Init == input = [kind |-> "start"]
Ask(kind) == kind \in Kinds /\ input.kind = "start"

Upto(n, S) == UNION {[1..k -> S] : k \in 0..n}

\* Any stored text, and the number of lines asked of it by TOP; -1 is RETR.
AskText == Ask("text") /\ \E raw \in Upto(MaxText, Octets), n \in -1..2 :
    input' = [kind |-> "text", raw |-> raw, n |-> n]

\* The lines of a message, up to three, and the sizes around its own; lines
\* that are too long, read in part or with their end, and a reader for which
\* none is.
SomeReaders == {[limit |-> 1, taken |-> 2], [limit |-> 2, taken |-> 5],
                [limit |-> MaxLine + 1, taken |-> MaxLine + 2]}
AskDialog == Ask("dialog") /\ \E lines \in Upto(3, Upto(MaxLine, {DOT, CR, X})),
                              received \in {<<>>, <<X>> \o End}, max \in 0..12,
                              reader \in SomeReaders :
    input' = [kind |-> "dialog", lines |-> lines, received |-> received, max |-> max,
              reader |-> reader]

Texts == {<<>>, <<X>>, <<DOT>> \o End, <<X, LF, DOT, LF>>, <<LF>> \o End, <<X>> \o End \o <<DOT, DOT>>}
AskView == Ask("view") /\ \E view \in Upto(3, Texts) : \E marked \in SUBSET DOMAIN view :
    input' = [kind |-> "view", view |-> view, marked |-> marked]

\* Three messages in two mailboxes, in any order of delivery; what is asked
\* for, of either mailbox or of all, and how many on a page.
Boxes == {b \in [{"inbox", "outbox"} -> {s \in Upto(3, 1..3) : IsInjective(s)}] :
             ToSet(b["inbox"]) \cap ToSet(b["outbox"]) = {}}
AskPage == Ask("page") /\ \E boxes \in Boxes, mb \in {"inbox", "outbox", ""},
                          wanted \in SUBSET (1..3), limit \in -1..(MaxLimit + 1) :
    input' = [kind |-> "page", boxes |-> boxes, mb |-> mb, wanted |-> wanted, limit |-> limit]

\* Entities: any leaf, multiparts of two of any leaves, and trees that are
\* deeper than MaxDepth with few kinds of leaves.
Leaves(n) ==
    [type : Types \ {"multipart"}, disposition : {"", "inline", "attachment"}, named : BOOLEAN,
     body : {"empty", "good", "bad"}, bounded : {FALSE}, ends : {"final"},
     content : {<<"part", n>>}, parts : {<<>>}]
Empty(n) ==
    [type : {"multipart"}, disposition : {""}, named : {FALSE},
     body : {"empty", "good"}, bounded : BOOLEAN, ends : {"final", "cut", "broken"},
     content : {<<"part", n>>}, parts : {<<>>}]
Few(n) == {Part("text/plain", <<"part", n>>),
           [Part("*/*", <<"part", n>>) EXCEPT !.disposition = "inline", !.named = TRUE, !.body = "bad"]}
Whole(n, first, second) ==
    {Multipart(<<"part", n>>, <<f>>) : f \in first}
    \cup {Multipart(<<"part", n>>, <<f, s>>) : f \in first, s \in second}
Trees(n, first, second) ==
    Few(n) \cup {e \in Empty(n) : e.body = "good" /\ e.ends # "final"}
    \cup Whole(n, first, second)
Shallow(n) == Trees(n, Few(10 * n + 1), Few(10 * n + 2))
Deeper(n) == Trees(n, Shallow(10 * n + 1), Shallow(10 * n + 2))
AskEntity == Ask("entity") /\ \E e \in Leaves(1) \cup Empty(1) \cup Whole(1, Leaves(11), Leaves(12))
                                       \cup Whole(1, Deeper(11), Shallow(12)) :
    input' = [kind |-> "entity", entity |-> e]

AskRequest == Ask("request") /\ \E request \in Requests(2) :
    input' = [kind |-> "request", request |-> request]

AskCids == Ask("cids") /\ \E cids \in Upto(3, {<<>>, <<1>>, <<1, 0>>, <<2>>}) :
    input' = [kind |-> "cids", cids |-> cids]

AskPattern == Ask("pattern") /\ \E pattern \in Upto(MaxPattern, {"a", AT, STAR}),
                                   address \in Upto(MaxPattern, {"a", AT}) :
    input' = [kind |-> "pattern", pattern |-> pattern, address |-> address]

Next ==
    \/ AskText \/ AskDialog \/ AskView \/ AskPage \/ AskEntity \/ AskRequest
    \/ AskCids \/ AskPattern
    \/ input.kind # "start" /\ UNCHANGED input

Spec == Init /\ [][Next]_input

\* The promises of the modules, each for the inputs it is about.
OctetsAnnounced == input.kind = "text" => OctetsAsAnnounced(input.raw)
NoEarlyEnd == input.kind = "text" => NoLineEndsIt(input.raw, input.n)
TopSendsPrefix == input.kind = "text" => TopIsPrefix(input.raw, input.n)
PageAndTopAgree == input.kind = "text" => HeadersAgree(input.raw)
ListAgreesWithRetr == input.kind = "view" => ListsAgree(input.view, input.marked)
RefusedExactlyIfTooLarge ==
    input.kind = "dialog" =>
        RefusedIfTooLarge(input.lines, input.received, input.max, input.reader)
RoundTrip ==
    input.kind = "dialog" =>
        ComesOutAsSent(input.lines, input.received, input.max, input.reader)
OversizedIsDrained ==
    input.kind = "dialog" => Drained(input.lines, input.max, input.reader)
PagesShowAll ==
    input.kind = "page" => PagesCover(input.boxes, input.mb, input.wanted, input.limit)
EveryPartShown ==
    input.kind = "entity" => PartsShownOnce(input.entity) /\ LinksLead(input.entity)
ComposedAsMeant == input.kind = "request" => ComposedIsShown(input.request)
InlineImagesRender == input.kind = "cids" => CidsResolve(input.cids)
RoutesMatch == input.kind = "pattern" => PatternsMatch(input.pattern, input.address)
=============================================================================
