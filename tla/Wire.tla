-------------------------------- MODULE Wire --------------------------------
(***************************************************************************)
(* The text of messages on the wire of mailschleuse: how DATA is read      *)
(* (internal/smtpd readData), and how RETR, TOP, LIST and STAT present a   *)
(* stored text to POP3 clients (internal/pop3d), line by line and octet by *)
(* octet.  Stored texts are not only what readData returns: the API stores *)
(* files as they are, with any mix of line ends.                           *)
(*                                                                         *)
(* Four octets are told apart: a dot, a carriage return, a line feed, and  *)
(* any other.                                                              *)
(***************************************************************************)
EXTENDS Integers, Sequences, FiniteSets, SequencesExt

DOT == "."   CR == "CR"   LF == "LF"   X == "x"
Octets == {DOT, CR, LF, X}
End == <<CR, LF>>

\* strings.TrimSuffix with one octet, and bytes.Split at line feeds.
TrimSuffix(s, octet) == IF s # <<>> /\ Last(s) = octet THEN Front(s) ELSE s
Split[s \in Seq(Octets)] ==
    IF s = <<>> THEN << <<>> >>
    ELSE LET lines == Split[Front(s)]
         IN  IF Last(s) = LF THEN Append(lines, <<>>)
             ELSE Append(Front(lines), Append(Last(lines), Last(s)))

Dotted(line) == IsPrefix(<<DOT>>, line)
Stuffed(line) == IF Dotted(line) THEN <<DOT>> \o line ELSE line
Unstuffed(line) == IF Dotted(line) THEN Tail(line) ELSE line

\* The text that pieces make, the text of lines, and the sum of numbers.
Flat[pieces \in Seq(Seq(Octets))] ==
    IF pieces = <<>> THEN <<>> ELSE Flat[Front(pieces)] \o Last(pieces)
Concat(lines) == Flat[[i \in DOMAIN lines |-> lines[i] \o End]]
Sum[numbers \in Seq(Nat)] ==
    IF numbers = <<>> THEN 0 ELSE Sum[Front(numbers)] + Last(numbers)
-----------------------------------------------------------------------------
(* SMTP: DATA                                                              *)

Over(buf, line, max) == Len(buf) + Len(line) + 2 > max

\* (Mutation: a dot is removed only from a line that has two.)
ReadLineTwo(s, line, max) ==
    LET text == IF IsPrefix(<<DOT, DOT, DOT>>, line) THEN Tail(line) ELSE line
    IN  IF Over(s.buf, text, max) THEN [s EXCEPT !.tooLarge = TRUE]
        ELSE IF s.tooLarge THEN s
        ELSE [s EXCEPT !.buf = @ \o text \o End]

\* (Mutation: a line that does not fit is left out.)
ReadLineSkipping(s, line, max) ==
    LET text == Unstuffed(line)
    IN  IF Over(s.buf, text, max) THEN s ELSE [s EXCEPT !.buf = @ \o text \o End]

\* One round of the loop of readData.
ReadLine(s, line, max) ==
    LET text == Unstuffed(line)
    IN  IF Over(s.buf, text, max) THEN [s EXCEPT !.tooLarge = TRUE]
        ELSE IF s.tooLarge THEN s
        ELSE [s EXCEPT !.buf = @ \o text \o End]

\* The loop, over the lines of the message.
ReadLines(lines, max) ==
    LET read[s \in Seq(Seq(Octets))] ==
            IF s = <<>> THEN [buf |-> <<>>, tooLarge |-> FALSE]
            ELSE ReadLine(read[Front(s)], Last(s), max)
    IN  read[lines]

\* What readLine makes of long lines: more than limit octets (maxLineBytes) is
\* an error.  By then bufio has handed out taken octets, which is more than the
\* limit and depends on its buffer; what is left of the line stays on the wire.
Readers == {reader \in [limit : Nat \ {0}, taken : Nat] : reader.taken > reader.limit}
TooLong(line, reader) == Len(line) > reader.limit
Left(line, reader) ==
    IF Len(line \o End) <= reader.taken THEN <<>>
    ELSE << SubSeq(line, reader.taken + 1, Len(line)) >>

\* Where readData stops: at the end of the message, or at once at a line that
\* is too long.
Stop(wire, reader) ==
    SelectInSeq(wire, LAMBDA line : line = <<DOT>> \/ TooLong(line, reader))

\* readData of the lines on the wire, and what is left there for the session.
ReadData(wire, max, reader) ==
    LET stop == Stop(wire, reader)
        behind == SubSeq(wire, stop + 1, Len(wire))
        s == ReadLines(SubSeq(wire, 1, stop - 1), max)
    IN  IF TooLong(wire[stop], reader)
        THEN [err |-> TRUE, buf |-> <<>>, tooLarge |-> FALSE,
              rest |-> Left(wire[stop], reader) \o behind]
        ELSE [err |-> FALSE, buf |-> s.buf, tooLarge |-> s.tooLarge, rest |-> behind]

\* handleData: the Received header is added, and Deliver looks at the size too.
Accepted(data, received, max) ==
    ~data.err /\ ~data.tooLarge /\ Len(received) + Len(data.buf) <= max

\* A client that sends a text, and a command after it.
Sent(lines) == [i \in DOMAIN lines |-> Stuffed(lines[i])] \o << <<DOT>>, <<X>> >>
-----------------------------------------------------------------------------
(* POP3                                                                    *)

SplitLines(raw) ==
    IF raw = <<>> THEN <<>>
    ELSE LET lines == Split[TrimSuffix(TrimSuffix(raw, LF), CR)]
         IN  [i \in DOMAIN lines |-> TrimSuffix(lines[i], CR)]

\* (Mutation: a line that begins with a dot is sent as it is.)
WriteLinePlain(line) == line \o End
WriteLine(line) == Stuffed(line) \o End

\* (Mutation: the dots that are added are not counted.)
CrlfSizePlain(raw) == Sum[[i \in DOMAIN SplitLines(raw) |-> Len(SplitLines(raw)[i]) + 2]]
CrlfSize(raw) ==
    LET lines == SplitLines(raw)
    IN  Sum[[i \in DOMAIN lines |->
                Len(lines[i]) + 2 + IF Dotted(lines[i]) THEN 1 ELSE 0]]

\* (Mutation: the empty line counts as one of the body.)
WriteNextCounting(s, line, n) ==
    IF s.done THEN s
    ELSE IF s.inHeaders /\ line = <<>>
    THEN [s EXCEPT !.out = Append(@, line), !.inHeaders = FALSE, !.emitted = 1]
    ELSE IF ~s.inHeaders /\ n >= 0 /\ s.emitted >= n THEN [s EXCEPT !.done = TRUE]
    ELSE [s EXCEPT !.out = Append(@, line),
                   !.emitted = IF s.inHeaders THEN 0 ELSE @ + 1]

\* One round of the loop of writeDotStuffed, with n as bodyLines.
WriteNext(s, line, n) ==
    IF s.done THEN s
    ELSE IF s.inHeaders /\ line = <<>>
    THEN [s EXCEPT !.out = Append(@, line), !.inHeaders = FALSE, !.done = n = 0]
    ELSE IF ~s.inHeaders /\ n >= 0 /\ s.emitted >= n THEN [s EXCEPT !.done = TRUE]
    ELSE [s EXCEPT !.out = Append(@, line),
                   !.emitted = IF s.inHeaders THEN 0 ELSE @ + 1]

\* The loop, and the lines writeDotStuffed sends, without and with their encoding.
WriteLines(lines, n) ==
    LET write[s \in Seq(Seq(Octets))] ==
            IF s = <<>>
            THEN [inHeaders |-> n >= 0, emitted |-> 0, done |-> FALSE, out |-> <<>>]
            ELSE WriteNext(write[Front(s)], Last(s), n)
    IN  write[lines]
Lines(raw, n) == WriteLines(SplitLines(raw), n).out
WriteDotStuffed(raw, n) ==
    LET lines == Lines(raw, n)
    IN  Flat[[i \in DOMAIN lines |-> WriteLine(lines[i])]] \o <<DOT>> \o End

\* lookup in the view of a session, where some messages are marked as deleted.
Found(view, marked, n) == n \in DOMAIN view \ marked

\* The numbers of the messages that are not marked.
Unmarked(view, marked) ==
    LET left[n \in 0..Len(view)] ==
            IF n = 0 THEN <<>>
            ELSE IF n \in marked THEN left[n - 1] ELSE Append(left[n - 1], n)
    IN  left[Len(view)]

\* (Mutation: LIST numbers the messages that are left.)
ListRenumbered(view, marked) ==
    LET left == Unmarked(view, marked)
    IN  [i \in DOMAIN left |-> [number |-> i, octets |-> CrlfSize(view[left[i]])]]

\* The answers to LIST and STAT.
List(view, marked) ==
    LET left == Unmarked(view, marked)
    IN  [i \in DOMAIN left |-> [number |-> left[i], octets |-> CrlfSize(view[left[i]])]]
Stat(view, marked) ==
    LET left == DOMAIN view \ marked
    IN  [count |-> Cardinality(left),
         octets |-> Sum[[i \in DOMAIN view |->
                            IF i \in left THEN CrlfSize(view[i]) ELSE 0]]]

\* A client that reads an answer of several lines, up to the terminator.
ClientLines(octets) ==
    LET lines == Split[octets]
        plain == [i \in DOMAIN lines |-> TrimSuffix(lines[i], CR)]
        end == SelectInSeq(plain, LAMBDA line : line = <<DOT>>)
    IN  [text |-> [i \in 1..(end - 1) |-> Unstuffed(plain[i])],
         rest |-> SubSeq(plain, end + 1, Len(plain))]
-----------------------------------------------------------------------------
(* The page                                                                *)

Index(s, sub) ==
    SelectInSeq([i \in DOMAIN s |-> SubSeq(s, i, Len(s))], LAMBDA rest : IsPrefix(sub, rest))

\* (Mutation: the empty line is looked for with one kind of line ends only.)
SplitMessageCRLF(raw) ==
    LET crlf == Index(raw, End \o End)
    IN  IF crlf > 0 THEN [header |-> SubSeq(raw, 1, crlf - 1),
                          body |-> SubSeq(raw, crlf + 4, Len(raw))]
        ELSE [header |-> raw, body |-> <<>>]

\* splitMessage of internal/mailparse.
SplitMessage(raw) ==
    LET crlf == Index(raw, End \o End)
        lf == Index(raw, <<LF, LF>>)
    IN  IF crlf > 0 THEN [header |-> SubSeq(raw, 1, crlf - 1),
                          body |-> SubSeq(raw, crlf + 4, Len(raw))]
        ELSE IF lf > 0 THEN [header |-> SubSeq(raw, 1, lf - 1),
                             body |-> SubSeq(raw, lf + 2, Len(raw))]
        ELSE [header |-> raw, body |-> <<>>]

\* The lines of a header without empty ones, as parseHeaders looks at them.
NonEmpty[lines \in Seq(Seq(Octets))] ==
    IF lines = <<>> THEN <<>>
    ELSE IF Last(lines) = <<>> THEN NonEmpty[Front(lines)]
    ELSE Append(NonEmpty[Front(lines)], Last(lines))
HeaderLines(raw) ==
    LET lines == Split[SplitMessage(raw).header]
    IN  NonEmpty[[i \in DOMAIN lines |->
                     IF i = Len(lines) THEN lines[i] ELSE TrimSuffix(lines[i], CR)]]
-----------------------------------------------------------------------------
(* What is promised                                                        *)

\* crlfSize is "the octet count the client will actually receive": what RETR
\* sends before the terminator.
OctetsAsAnnounced(raw) == Len(WriteDotStuffed(raw, -1)) - 3 = CrlfSize(raw)

\* No line of a message is taken for its end, and nothing after the end for a
\* line: the client gets all lines that were sent to it and no more.
NoLineEndsIt(raw, n) ==
    LET read == ClientLines(WriteDotStuffed(raw, n))
    IN  read.text = Lines(raw, n) /\ read.rest = << <<>> >>

\* TOP sends the header, the empty line, and n lines of the body, if it has them.
TopIsPrefix(raw, n) ==
    LET lines == SplitLines(raw)
        empty == SelectInSeq(lines, LAMBDA line : line = <<>>)
        top == Len(lines)
    IN  n >= 0 => Lines(raw, n) =
            IF empty = 0 \/ empty + n >= top THEN lines ELSE SubSeq(lines, 1, empty + n)

\* The page and POP3 agree on where the header ends and what is in the body,
\* if all line ends are of one kind and the text does not begin with one.
HeadersAgree(raw) ==
    LET before == {IF i = 1 THEN "start" ELSE raw[i - 1] :
                      i \in {j \in DOMAIN raw : raw[j] = LF}}
        crs == {i \in DOMAIN raw : raw[i] = CR}
        plain == \/ crs = {} 
                 \/ before \subseteq {CR}
                    /\ \A i \in crs : i < Len(raw) /\ raw[i + 1] = LF
        lines == SplitLines(raw)
        top == Lines(raw, 0)
    IN  plain /\ lines # <<>> /\ lines[1] # <<>> =>
            /\ HeaderLines(raw) = NonEmpty[top]
            /\ SplitLines(SplitMessage(raw).body) = SubSeq(lines, Len(top) + 1, Len(lines))

\* What LIST shows, RETR finds under the same number and sends in as many
\* octets, and STAT sums up, whatever is marked for deletion.
ListsAgree(view, marked) ==
    LET list == List(view, marked)
        stat == Stat(view, marked)
    IN  /\ \A n \in 0..(Len(view) + 1) :
            Found(view, marked, n) <=> \E i \in DOMAIN list : list[i].number = n
        /\ \A i \in DOMAIN list :
            list[i].octets + 3 = Len(WriteDotStuffed(view[list[i].number], -1))
        /\ stat.count = Len(list)
        /\ stat.octets = Sum[[i \in DOMAIN list |-> list[i].octets]]

\* A message without too long lines is refused exactly if it is too large, with
\* its Received header; all of it is read, and the next command found behind it.
\* One with such a line is never accepted, however small it is: it is read just
\* up to there, and the rest of it is left to the command loop.
RefusedIfTooLarge(lines, received, max, reader) ==
    LET data == ReadData(Sent(lines), max, reader)
        long == SelectInSeq(lines, LAMBDA line : TooLong(Stuffed(line), reader))
    IN  /\ Accepted(data, received, max) <=>
                long = 0 /\ Len(received) + Len(Concat(lines)) <= max
        /\ data.err <=> long # 0
        /\ data.rest =
                IF long = 0 THEN << <<X>> >>
                ELSE Left(Stuffed(lines[long]), reader)
                        \o SubSeq(Sent(lines), long + 1, Len(lines) + 2)

\* "Oversized messages are drained to keep the session in sync": the next
\* command is found behind a message that is too large.  It is not, if the
\* message has a line that is too long.
Drained(lines, max, reader) ==
    Len(Concat(lines)) > max => ReadData(Sent(lines), max, reader).rest = << <<X>> >>

\* What is accepted comes out of POP3 as it went in, line for line, except for
\* a carriage return at the end of the very last line.
ComesOutAsSent(lines, received, max, reader) ==
    LET data == ReadData(Sent(lines), max, reader)
        out == ClientLines(WriteDotStuffed(received \o data.buf, -1)).text
    IN  Accepted(data, received, max) =>
            LET last(s) == [i \in DOMAIN s |->
                                IF i = Len(s) THEN TrimSuffix(s[i], CR) ELSE s[i]]
            IN  out = (IF received = <<>> THEN <<>> ELSE SplitLines(received)) \o last(lines)
=============================================================================
