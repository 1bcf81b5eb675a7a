-------------------------------- MODULE Mime --------------------------------
(***************************************************************************)
(* What the page shows of a message (internal/mailparse Parse), how it     *)
(* reaches the attachments (internal/web handleAttachment and rewriteCID), *)
(* and the messages it composes itself (internal/web Build).               *)
(*                                                                         *)
(* An entity is a part of a message, or the whole of it, as mime/multipart *)
(* (external) reads it: its headers, as far as walk looks at them, and the *)
(* parts of a multipart.  Its content is a name; a name of its own for     *)
(* each entity of a message.                                               *)
(***************************************************************************)
EXTENDS Integers, Sequences, FiniteSets, SequencesExt

CONSTANT MaxDepth   \* maxDepth, 12 in the code
ASSUME MimeAssumption == MaxDepth \in Nat /\ MaxDepth >= 2

Types == {"", "text/plain", "text/html", "text/*", "message/*", "*/*", "multipart"}
\* The fields of an entity: its type; its disposition, "", "inline" or
\* "attachment"; named, has it a filename?; its body, "empty", "good", or "bad"
\* if it does not decode; its content and its parts.  Of a multipart: bounded,
\* has it a boundary?; and what follows the last part that is read, ends: the
\* "final" boundary, nothing ("cut"), or something that is "broken".
Part(type, content) ==
    [type |-> type, disposition |-> "", named |-> FALSE, body |-> "good",
     bounded |-> FALSE, ends |-> "final", content |-> content, parts |-> <<>>]
Multipart(content, parts) ==
    [Part("multipart", content) EXCEPT !.bounded = TRUE, !.parts = parts]

\* A message as the page shows it; a body text is the content it comes from,
\* and whether it was decoded.
Nothing == [text |-> <<>>, html |-> <<>>, attachments |-> <<>>]
Merge(m, n) ==
    [text |-> m.text \o n.text, html |-> m.html \o n.html,
     attachments |-> m.attachments \o n.attachments]

Decoded(e) == [of |-> e.content, decoded |-> e.body # "bad"]
Raw(e) == [of |-> e.content, decoded |-> FALSE]
Body(e, shown) == IF e.body = "empty" THEN <<>> ELSE <<shown>>
AppendText(e, shown) == [Nothing EXCEPT !.text = Body(e, shown)]
AppendHTML(e, shown) == [Nothing EXCEPT !.html = Body(e, shown)]
AddAttachment(e, shown, partID) ==
    [Nothing EXCEPT !.attachments =
        << [partID |-> partID, inline |-> e.disposition = "inline", shown |-> shown] >>]

IsAttachment(e) ==
    \/ e.disposition = "attachment" \/ e.named
    \/ e.type \notin {"", "text/plain", "text/html", "text/*", "message/*"}

\* (Mutation: a text is a body, whatever its disposition and its name are.)
WalkLeafBodies(e, partID) ==
    IF e.type \in {"", "text/plain"} THEN AppendText(e, Decoded(e))
    ELSE IF e.type = "text/html" THEN AppendHTML(e, Decoded(e))
    ELSE AddAttachment(e, Decoded(e), partID)

\* The end of walk, for all but multiparts that have a boundary.
WalkLeaf(e, partID) ==
    IF e.type = "multipart" THEN AddAttachment(e, Raw(e), partID)
    ELSE IF ~IsAttachment(e) /\ e.type \in {"", "text/plain"}
    THEN AppendText(e, Decoded(e))
    ELSE IF ~IsAttachment(e) /\ e.type = "text/html"
    THEN AppendHTML(e, Decoded(e))
    ELSE AddAttachment(e, Decoded(e), partID)

PartID(partID, index) == Append(partID, index)

\* The part that a part ID leads to, <<1>> to the entity itself, and the part
\* IDs of an entity, as deep as walk goes.
PartAt(e, partID) ==
    LET at[n \in 1..Len(partID)] == IF n = 1 THEN e ELSE at[n - 1].parts[partID[n]]
    IN  at[Len(partID)]
PartIDs(e) ==
    LET at[depth \in 0..(MaxDepth + 1)] ==
            IF depth = 0 THEN {<<1>>}
            ELSE UNION {{PartID(id, i) : i \in DOMAIN PartAt(e, id).parts} : id \in at[depth - 1]}
    IN  UNION {at[depth] : depth \in 0..(MaxDepth + 1)}
Depth(partID) == Len(partID) - 1

MergeAll(msgs) ==
    LET merged[n \in 0..Len(msgs)] ==
            IF n = 0 THEN Nothing ELSE Merge(merged[n - 1], msgs[n])
    IN  merged[Len(msgs)]

\* (Mutation: a multipart at the depth limit is not looked into.)
WalkPartShallow(e, partID, walked) ==
    IF Depth(partID) >= MaxDepth THEN Nothing
    ELSE IF e.type # "multipart" \/ ~e.bounded THEN WalkLeaf(e, partID)
    ELSE IF e.parts = <<>>
    THEN IF e.ends = "broken" THEN AppendText(e, Raw(e)) ELSE Nothing
    ELSE MergeAll(walked)

\* A call of walk, with the results of its calls for the parts.
WalkPart(e, partID, walked) ==
    IF Depth(partID) > MaxDepth THEN Nothing
    ELSE IF e.type # "multipart" \/ ~e.bounded THEN WalkLeaf(e, partID)
    ELSE IF e.parts = <<>>
    THEN IF e.ends = "broken" THEN AppendText(e, Raw(e)) ELSE Nothing
    ELSE MergeAll(walked)

Walk(e) ==
    LET walk[partID \in PartIDs(e)] ==
            LET part == PartAt(e, partID)
            IN  WalkPart(part, partID, [i \in DOMAIN part.parts |-> walk[PartID(partID, i)]])
    IN  walk[<<1>>]

Parse(e) ==
    LET msg == Walk(e)
    IN  IF msg = Nothing THEN AppendText(e, Raw(e)) ELSE msg

\* handleAttachment: the first attachment with the part ID asked for.
AttachmentOf(msg, partID) ==
    msg.attachments[SelectInSeq(msg.attachments, LAMBDA a : a.partID = partID)].shown

\* rewriteCID of one reference: of the replacements whose pattern it begins
\* with, strings.NewReplacer takes the first, and leaves the rest as it is.
RewriteCID(ref, cids) ==
    LET i == SelectInSeq(cids, LAMBDA cid : cid # <<>> /\ IsPrefix(cid, ref))
    IN  IF i = 0 THEN [attachment |-> 0, rest |-> ref]
        ELSE [attachment |-> i, rest |-> SubSeq(ref, Len(cids[i]) + 1, Len(ref))]
-----------------------------------------------------------------------------
(* Composing a message                                                     *)

\* A request says whether text and html are more than blanks, and gives the
\* type of each file, n at most, and whether it is valid base64.
Requests(n) ==
    [from : BOOLEAN, to : BOOLEAN, text : BOOLEAN, html : BOOLEAN,
     files : UNION {[1..k -> [type : Types, valid : BOOLEAN]] : k \in 0..n}]

Text == <<"text", 0>>
HTML == <<"html", 0>>
File(i) == <<"file", i>>

\* (Mutation: a message with attachments has no alternative.)
BuildContentPlain(r) ==
    IF r.text THEN Part("text/plain", Text) ELSE Part("text/html", HTML)

BuildContent(r) ==
    IF ~r.html THEN Part("text/plain", Text)
    ELSE IF ~r.text THEN Part("text/html", HTML)
    ELSE Multipart(<<"alternative", 0>>,
                   <<Part("text/plain", Text), Part("text/html", HTML)>>)

DecodeAttachments(r) ==
    [i \in DOMAIN r.files |->
        [Part(IF r.files[i].type = "" THEN "*/*" ELSE r.files[i].type, File(i))
            EXCEPT !.disposition = "attachment", !.named = TRUE]]

BuildBody(r) ==
    IF r.files = <<>> THEN BuildContent(r)
    ELSE Multipart(<<"mixed", 0>>, <<BuildContent(r)>> \o DecodeAttachments(r))

\* The errors of Build and of what it calls; if there are none, it returns
\* BuildBody.
BuildFails(r) ==
    ~r.from \/ ~r.to \/ ~(r.text \/ r.html) \/ \E i \in DOMAIN r.files : ~r.files[i].valid
-----------------------------------------------------------------------------
(* What is promised                                                        *)

\* The contents that are to be seen.  Not among them are empty texts, parts
\* deeper than MaxDepth, and what walk gives up without a word: a multipart
\* that ends before its first part, and what follows an error after it.
Unseen(part) ==
    \/ part.body = "empty" /\ ~IsAttachment(part) /\ part.type \in {"", "text/plain", "text/html"}
    \/ part.type = "multipart" /\ part.bounded
          /\ (part.ends # "broken" \/ part.body = "empty" \/ part.parts # <<>>)
Pieces(e) ==
    {PartAt(e, id).content :
        id \in {id \in PartIDs(e) : Depth(id) <= MaxDepth /\ ~Unseen(PartAt(e, id))}}

Shown(msg) ==
    msg.text \o msg.html \o [i \in DOMAIN msg.attachments |-> msg.attachments[i].shown]

\* "It never fails on malformed input": every part is to be seen once, as a
\* body or as an attachment; a message without any is shown as it came.
PartsShownOnce(e) ==
    LET shown == Shown(Parse(e))
        pieces == Pieces(e)
    IN  IF pieces = {} THEN shown = Body(e, Raw(e))
        ELSE /\ Len(shown) = Cardinality(pieces)
             /\ pieces = {shown[i].of : i \in DOMAIN shown}

\* The link to an attachment leads to its content, and to no other's, however
\* the multiparts are nested.
LinksLead(e) ==
    LET msg == Parse(e)
    IN  \A i \in DOMAIN msg.attachments :
            AttachmentOf(msg, msg.attachments[i].partID) = msg.attachments[i].shown

\* What is composed is displayed as it was meant: the text, the HTML, and the
\* files in their order and decoded, each behind its own link.  A file that
\* calls itself a multipart is shown, but not decoded.
ComposedIsShown(r) ==
    LET msg == Parse(BuildBody(r))
    IN  ~BuildFails(r) =>
            /\ msg.text = IF r.text THEN << [of |-> Text, decoded |-> TRUE] >> ELSE <<>>
            /\ msg.html = IF r.html THEN << [of |-> HTML, decoded |-> TRUE] >> ELSE <<>>
            /\ Len(msg.attachments) = Len(r.files)
            /\ \A i \in DOMAIN r.files :
                    AttachmentOf(msg, msg.attachments[i].partID) =
                        [of |-> File(i), decoded |-> r.files[i].type # "multipart"]

\* "rewriteCID points cid: references at the attachment endpoint so inline
\* images render in the preview": a reference to an attachment becomes the
\* link to an attachment of that Content-ID, and nothing is left of it.
CidsResolve(cids) ==
    \A i \in DOMAIN cids : cids[i] # <<>> =>
        LET to == RewriteCID(cids[i], cids)
        IN  to.attachment # 0 /\ cids[to.attachment] = cids[i] /\ to.rest = <<>>
=============================================================================
