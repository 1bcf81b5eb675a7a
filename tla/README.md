# Mailschleuse in TLA+

Mailschleuse is a mail sink for test environments: an application sends mail to
it over SMTP, fetches mail from it over POP3, and a developer looks at all of it
in a browser. Everything meets in one in-memory store that is mirrored in a data
directory. The modules here model the parts of the program in which steps of
several goroutines, crashes and failing calls meet, and say what those parts
guarantee. TLC checks them on small instances; TLAPS proves some of the results
for every instance.

## The system

| Part | State | Operations | What is hard about it |
| --- | --- | --- | --- |
| Store (`internal/store/store.go`) | mailboxes, an index by ID, read flags, subscribers | Deliver, MarkRead, MarkAllRead, Delete, Clear, eviction, List, Snapshot, Subscribe | the lock covers the memory only; IDs are drawn, files written and events sent outside it |
| Persistence (`internal/store/persist.go`) | `<id>.eml` and `<id>.json` per mailbox, `.tmp` files | write, remove, load | goroutines interleave between system calls; the process may be killed; any call may fail |
| SMTP (`internal/smtpd`) | per session: TLS, login, sender, recipients | EHLO ... DATA, routing, delivery | one message to several mailboxes, half of which may fail; state across STARTTLS |
| POP3 (`internal/pop3d`) | mailbox locks; per session: TLS, user, frozen view, deletion marks | STLS, USER, PASS, DELE, RSET, QUIT, reads | the view is stale as soon as it is taken; the lock must be given back on every way out |
| Web API (`internal/web`) | none of its own | list, get, patch, delete, clear, compose, import | thin calls of the store |
| Event feed (`store.Subscribe`, `web.handleEvents`, `assets/app.js`) | one channel per browser, the list in the browser | subscribe, publish, reload | events overtake each other or are dropped; answers arrive late |
| Lifecycle (`cmd/mailschleuse`, `Serve`, `Close`) | listeners, connections, wait groups, the first error | bind, serve, accept, fail, shut down | connections accepted during the shutdown; listeners that fail together, before the rest is bound, or while others close |
| Wire formats (`readData`, `writeDotStuffed`, `crlfSize`, `splitMessage`) | none | functions over texts | dots at the start of a line, mixed line ends, sizes that must agree |
| MIME parser (`internal/mailparse`), compose (`web/compose.go`) | none | Parse, Build | nesting, broken parts, links by part ID and by Content-ID |
| Configuration (`internal/config`) | none after the start | Load, ParseRoutes, Matches | the forms of a pattern |
| TLS certificates, page layout, image | none | | not modelled |

The servers call the store directly; nothing goes the other way except events.
A goroutine that works for a client holds the lock of the store only inside one
store operation, so every module below takes an operation of the store as one
step, or, in `Store`, as several.

What makes each part correct, in short: the store loses nothing it acknowledged
and brings nothing back that was deleted, its index and its mailboxes agree, and
its mailboxes stay within their capacity; a POP3 mailbox is open once, loses
just what its client asked for, and is unlocked in the end; an SMTP reply tells
the truth about what was stored; a browser ends up showing what is in the store;
a shutdown leaves no goroutine behind. `PROJECT.json` lists, line by line,
where each of these could go wrong and which property watches it.

## Modules

| Module | What it is |
| --- | --- |
| `MailQueue` | the abstract specification of the store: bounded queues, and messages that are promised to survive a restart or to stay away |
| `Store` | the store and its data directory, one step per lock section and per system call; implements `MailQueue` |
| `MCStore` | instances of `Store` for TLC, with a budget of calls |
| `StoreProofs` | theorems about the mailboxes of `Store` |
| `StorePromises` | theorems about its data directory; that `Store` implements `MailQueue` |
| `Pop3` | POP3 sessions over what `MailQueue` promises |
| `Pop3Proofs` | theorems about `Pop3` |
| `MCPop3` | instances of `Pop3` for TLC |
| `Submission` | the abstract specification of sending: what one try does to the mailboxes, and what the sender learns |
| `SubmissionProofs` | theorems about `Submission` |
| `Smtp` | SMTP sessions, routing, delivery to several mailboxes, clients that resend; implements `Submission` |
| `SmtpProofs` | theorems about the sessions of `Smtp` and about what becomes of a message; that `Smtp` implements `Submission` |
| `MCSmtp` | instances of `Smtp` for TLC |
| `Feed` | events, the stream to a browser, the lists its page shows |
| `FeedProofs` | theorems about `Feed` |
| `MCFeed` | the instance of `Feed` for TLC |
| `Lifecycle` | the start and the end of the process: listeners, accept loops, handlers, `Close` |
| `LifecycleProofs` | theorems about `Lifecycle` |
| `MCLifecycle` | the instance of `Lifecycle` for TLC |
| `Wire` | functions: DATA, RETR, TOP, LIST, STAT, the end of the header |
| `Listing` | functions: `Store.List` and the pages of a list |
| `Mime` | functions: parts of a message, what is shown of them, composing, `cid:` references |
| `RoutePatterns` | functions: the patterns of `MS_SMTP_ROUTES` |
| `MCFormats` | the inputs of these four for TLC |
| `FormatsProofs` | theorems about these four, for arguments of any size |

### Store

`box` and `byID` are the field `messages` of the mailboxes and the index of the
`Store` struct, `read` the flag of each message. `file` and `tmp` are the data
directory: what is in each final and temporary file, as far as `load` can tell
the difference (nothing, cut off, mixed up from two writes, the raw message, or
metadata with the flag set or not). A goroutine has a program counter, the
message it works on, those it still has to write or unlink, the bytes it is
about to write, and where the file it has open is to be found by now.

`Deliver` only draws the ID; `Insert` is the section under the lock (append,
index, evict). Then the goroutine goes through `Stat`, `Create`, `Fill`,
`Rename`, `Marshal` and again `Create`, `Fill`, `Rename` for the metadata, and
`Unlink` twice for each message it evicted. `MarkRead` looks the message up and
`Swap` sets the flag, unlocked; `MarkAllRead` sets the flags in one section and
saves the messages one by one; `Delete` and `Clear` change the memory and then
unlink. `WriteFails` is the error path of a write. `Crash` can come at any
moment and leaves the files; `Load` is `New`, which reads what is there and
evicts what exceeds the capacity (`Restore`). With a disk that fails (`DiskFails`),
`Stat` may fail too, after which the body is written as for a message without
one; `Load` skips a message it cannot read, and a directory that cannot be read
ends the start, which is a `Crash`. `Decay` is the environment: while the program
is down, the disk gets into trouble with a file. `create` and `fill` are the open and the write
inside `os.WriteFile`; a write to a file that another goroutine truncated or
renamed meanwhile goes where the descriptor points.

The ghost variables record what was promised: `acked` (the sender was told that
the message is stored), `gone` (the caller was told that it is deleted), and
`unsure`, the messages whose files two goroutines had in hand at once, whose
file operations failed, or whose files the disk lost. The properties that the code keeps only without such a
race leave those messages out; the violated runs below show why they must.

Left out: `Get`, `Stats` and `Snapshot`, which only read, and `List`, which is
in `Listing`; the events, which are in `Feed`;
what is inside a message; directories; the sizes that `Deliver` rejects at once.

### Pop3

A session goes from `off` through the handshake of implicit TLS, if any, to
`authorization`, then in two steps through `PASS` (the lock of the server, the
snapshot of the store: another goroutine can run between them) to `transaction`.
`QUIT` makes it `update`: the messages marked are deleted one at a time, by
separate operations of the store, and then the lock is released. A client may
fall silent or close the connection at any moment; `Drop` is a read that
fails, for either reason. `Arrive` and `TakenAway` are the rest of the program:
deliveries with their evictions, deletions by the API, by other sessions.

The store is an instance of `MailQueue`, whose actions are used as they stand
with the promises left out. That is what `KeepsPromises` licenses: every
behaviour of `Store`, seen from its mailboxes, is one of `MailQueue`.

CAPA, STAT, LIST, UIDL, RETR, TOP and NOOP change nothing and are left out here;
what STAT, LIST, RETR and TOP answer is in `Wire`, how the server closes in
`Lifecycle`. A
crash ends all sessions and all locks at once, and is left out too. The ghost
variables `wish`, `asked` and `popped` say what a client marked, what it
confirmed by QUIT, and what sessions deleted.

### Smtp

A session collects an envelope: `helo`, `login`, `from`, `rcpts`, and over which
kind of connection each came. `Dot` is the end of DATA with everything
`handleData` decides before it stores: the size check, `resolveMailboxes`, the
envelope, the reset of the transaction. `DeliverNext` is one call of
`Store.Deliver`; `DeliverFails` is a call whose write fails, after which the
message is in memory, not on disk, and the client is told 451;
`DeliverRejects` is a message that the Received header made too large.

The mailboxes are counted rather than kept: `copies` says how often a message
was put into each, `kept` where that succeeded. `fate` is what the sender knows.
A sender sends again after 451, up to `MaxTries` times; a sender that lost the
connection does not know what happened and is not modelled further. Routing
rules are sets of addresses with a sequence of mailboxes each; which addresses a
pattern stands for is the subject of `RoutePatterns`.

A read that fails in the middle of DATA, at a line that is too long or after the
idle timeout, ends the message but not the session: `handleData` returns without a
reply and without a reset, and `run` reads on. `BreakOff` is this. The transaction
stays, so the next MAIL is refused as nested (`MailAgain`) and the next RCPT adds to
what is there. The ghost `since` keeps both apart: `own`, the recipients accepted for
the message that is being collected, and `old`, those of an earlier one that was
broken off in the same transaction. `EnvelopeIsCurrent` says that an envelope is the
two together and nothing else.

`KeepsSubmission` says that every behaviour of `Smtp` is one of `Submission`, with
the mailboxes still to be served (`Left`) read off the session that delivers the
message. It is there that duplicates in `matchRoutes`, a delivery after the
answer, or an answer before the end of the loop would show.

Left out: dot-stuffing (it is in `Wire`), the syntax of addresses, VRFY, NOOP and HELP, commands
that are refused without a change, the SIZE parameter of MAIL (a refusal too),
eviction.

### Feed

A mailbox is known by the number of its changes. `Change` is an operation of the
store under its lock, `Publish` comes later, in any order, or never when a
delivery cannot be written. `channel` is the buffered channel of the subscriber,
`wire` what the handler has sent. The page remembers what it asked (`loads`,
`looks`), each request is answered at some moment with what the store then
holds, and each answer is shown at some later moment, in any order, or fails.
`Done` marks the requests that an answer overtook; `behind` says whether a list
shows such an answer. The code has no defence against that: the older answer
stays until the next event. `lost` holds the mailboxes whose last change the page
may never hear of: its event was dropped for a full channel, was not published at
all, or was cut off with the connection, and no other event about that mailbox is
still to come. `QuietMeansCurrent` says that these two ways to go wrong are the only
ones; most events that are dropped do no harm, because a later one says the same.

Left out: the detail pane, search, the shutdown event, and eviction as such,
which is one more event of a change. One page stands for all; pages do not
share anything, and a full channel of one does not keep `publish` from another.

### Lifecycle

`main` is where `run` stands: it binds the configured listeners one by one, and
starts the goroutine of each at once; it waits for a signal or for `stopped`;
then it shuts down the HTTP server, closes the SMTP and the POP3 server and
waits for the goroutines. `serve` is where the goroutine of each listener
stands, from `Serve` over `Accept`, `track` and `wg.Add` to the error it ends
with and to what `run` does about that (`Report`, `Stop`: the question whether
`stopped` is closed and the closing are two steps). `smtpd` and `pop3d` have the
same `Serve`, `track` and `Close`; one set of actions stands for both.

`wg.Wait` in `Close` is two steps, as it is in Go: `Wait` returns at once if no
handler is counted, or puts the goroutine to sleep; the `Done` of the last handler
makes it `woken`; and `Wake` looks again. If a connection that was accepted before
the shutdown was handed over in between, the counter is not zero, and the runtime
panics ("WaitGroup is reused before previous Wait has returned"); `Add` itself may
panic at that moment too (`Misused`).

`net/http` is external: a listener that `Shutdown` closes, handlers that it waits
for, no longer than five seconds (`DrainTimeout`), and the function registered
with `RegisterOnShutdown`, which runs in a goroutine of its own (`WebShutdown`)
and ends the event streams. The handler of a connection reads (and may wait for
its client forever), or works; closing its connection makes the next read fail,
not the work. The ghost `late` holds the connections that Serve had accepted but
not handed over when `Close` took the lock; they are the only ones that may
outlive it.

Left out: the command line and the health probe, the construction of the servers
from the configuration, a deadline of `Accept`, a second signal.

### Wire, Listing, Mime, RoutePatterns

These model functions. Each module defines them over short sequences, and, under
"what is promised", predicates on their arguments; `MCFormats` enumerates the
arguments. In `Wire` a text is a sequence of four kinds of octets (a dot, CR, LF,
any other); `readData`, `writeDotStuffed`, `crlfSize` and `splitMessage` are
written over such texts, and a client of each protocol is there to say what
arrives at the other end. `readLine` fails at a line of more than `maxLineBytes`;
a reader has that limit and the number of octets `bufio` has handed out by then
(`Readers`), `Stop` is the line at which `readData` ends, and `Left` what it leaves
on the wire of a line that is too long. `Listing` is `Store.List` with the bounds of the
request. In `Mime` an entity has a type, a disposition, whether it has a name and
a boundary, how the text of a multipart ends, and its content as a token;
`Walk`, `AppendText`, `AddAttachment` and the fallback of `Parse` are as in the
code, and the composed message is built of the same entities. Encodings,
charsets, header syntax and file names are about single characters, which are
not modelled: a content is decoded well or badly, that is all. In `RoutePatterns`
addresses and patterns are spelt.

Loops and recursions of the code are functions that refer to themselves, or folds
over sequences, so that theorems can be stated about them (`FormatsProofs`).
The parts of an entity are found by their IDs (`PartAt`, `PartIDs`), level by
level down to one below `MaxDepth`, which is how far `walk` looks. `HeaderLines`
is what `parseHeaders` makes of a block before it looks at a line: a CR goes from
every line that ended in CR LF, and so not from the last one.

## Runs

| Run | Instance | What it shows |
| --- | --- | --- |
| `store` | two goroutines, two mailboxes of capacity one, three messages, four calls, any number of crashes and of failing file operations | all invariants of the store, and that it implements `MailQueue` |
| `store_half_written` | as `store` | violated: two writers of one message share a temporary file |
| `store_zombie` | as `store` | violated: a message comes back after its deletion was reported |
| `store_order` | as `store` | violated: the order after a restart is not the order of delivery |
| `pop3` | two connections, one mailbox, two messages, which deliveries and other deletions add and take away at any time | one session per mailbox, frozen views, deletions as asked for; locks are released and QUIT ends |
| `pop3_idle` | one connection | violated: no timeout in the handshake of implicit TLS |
| `smtp` | one connection after the other, four messages, two tries each, three recipients, two rules, messages broken off at any time | accepted means stored, envelopes hold no more than their transaction, TLS means TLS, logins count only while they last; `Smtp` implements `Submission` |
| `feed` | one page, two mailboxes, two changes, a channel for one event, two requests of each kind | the page ends up showing what it was told of; when nothing is under way it shows the store, but for mailboxes of which the last event was lost |
| `lifecycle` | the web listener with one client, SMTP with implicit TLS and two, POP3 with none | `Close` leaves only stragglers, the exit status tells the truth and a panic is one of two, every listener is closed, a shutdown ends |
| `formats` | all texts of six octets, messages of three lines of two octets under three limits on a line, views of three messages, three messages in two mailboxes, trees of parts three deep, forms with two files, patterns and addresses of five characters | what is announced is sent, what was accepted comes out again, nothing is shown twice or left out, patterns match what they stand for |
| `cids` | lists of up to three Content-IDs | violated: a reference is replaced by the link of another image |
| `drained` | messages as in `formats` | violated: a message that is too large and has a line that is too long is not drained |

Why the bounds are enough. A conflict over files needs two goroutines and one
message; an eviction needs one message more than the capacity; a lost
acknowledgement needs a delivery, an operation in between and a crash; four calls
leave one to spare. `Decay` happens to any message at any restart. Once a message has had two writers or a failing file
operation, the promises no longer speak of it, and the budget is one call less:
three calls are a delivery, the one that went wrong, and one after it. Two of the
messages share a millisecond, so that the order of IDs is not the order of
drawing them. Goroutines are interchangeable, which is the symmetry of `store`.
In `pop3` two sessions suffice for every conflict over a lock, and two entries in
a view for a QUIT that is half done while the store changes under it; what an
eviction would take away, a deletion by others takes away as well. There is no
symmetry, for the sake of the liveness properties. A second mailbox adds nothing
that two locks would share, and the theorems cover any number. SMTP sessions share nothing but
the store, so one connection that is opened again and again is enough; two
recipients per message are enough for a routed and an unrouted one, for two that
share a mailbox, and for one left over. A channel for one event overflows with
the second; two requests of a kind are the fewest that can overtake each other. In `lifecycle`
there is one listener of each kind, with implicit TLS at one of the two that
share their code, so that two of them can fail at once while a third is being
bound. SMTP has two connections, so that one can be handed over while the handler of
the other one ends; POP3 has none, as its handlers are those of SMTP (the theorems
are for any connections of both). In `formats`, the three readers
have a limit that some lines exceed and are left half unread, one that some exceed
and are read with their end, and one that no line exceeds; six octets hold an empty line between two
lines, dots at both, and a line end cut in half at either end. `maxDepth` is 2
instead of 12, so that trees go beyond it; the pages hold 2 by default and 3 at
most instead of 50 and 500.

Fairness. `Store`, `Smtp` and `Feed` have no liveness property and no fairness.
In `Pop3` a goroutine that does not wait for its client runs on (`Open`, `DeleteNext`,
`SignOff`: Go schedules it, and the store's operations end); a read on a closed
connection or past the idle timeout fails, as does the handshake on a closed
connection. Nothing is assumed about clients, deliveries or other users. In
`Lifecycle` goroutines run on in the same sense, and a read on a connection that
was closed fails. The five seconds of `Shutdown` are counted on only for requests
that a client leaves unfinished: event streams have to end by themselves.
Listeners need not fail, and nobody needs to send a signal.

Each property has a mutant in `PROJECT.json`: a plausible mistake in one
definition that makes TLC report that property as violated. The mutated forms
stand in the modules before the definition they replace.

## Proofs

`StoreProofs` proves for all mailboxes, goroutines, messages, capacities and
options that `Store` keeps its types (`TypeCorrect`), that index and mailboxes
agree (`IndexCorrect`) and that no mailbox is over its capacity
(`CapacityCorrect`). The assumptions are those named in `Store`.

`TypeOK` is not inductive: a step that reads `Head(todo[t])` needs `todo[t]` to
be non-empty, and one that writes needs `msg[t]` to be a message. `WorkerOK`
says so, and `TypeInv` is the conjunction.

`IndexAgrees` needs that `Insert` adds a message that is in no mailbox yet. It
is drawn fresh, but between `Deliver` and `Insert` other goroutines run, and a
crash keeps files. `IndexInv` therefore adds that every message in the index, on
disk or in the hand of a goroutine was issued, that an ID waiting to be inserted
is in nobody else's hand and on no disk, and that goroutines are idle while the
program is down. `Capacity` follows from what eviction leaves
(`Eviction`, `EvictionSplits`) given that boxes are sequences.

`StorePromises` proves what the store promises of the data directory
(`AckedIsKept`, `DeletedStaysDeleted`, `FlagIsSaved`, `WholeFiles`), with any
number of goroutines between whose system calls the process may be killed, and
that `Store` implements `MailQueue` (`KeepsPromises`) if there is a data
directory. `PromiseInv` adds four things to `IndexInv`:

- `Books` and `Jobs`: a message is in memory or removed, not both, and whatever is
  in a goroutine's hand is where its step expects it (a message on its way into a
  mailbox has been neither acknowledged nor removed; what is to be unlinked has
  been removed).
- `WriterInv`: a message that is not `unsure` has one goroutine at most that saves
  it, and none once it is removed. This is where the definition of `unsure` pays:
  the only steps that could give a message a second writer mark it.
- `InHands`: the one writer has in its temporary file just the bytes it will
  rename, and the body is on disk before the metadata. No other goroutine can have
  changed that, by `WriterInv` (`BusyAlone`, `StepSpares`); `FileStep` then says all
  that can happen to a file.
- `Whole`, `Finished`, `Buried` and `Saved`: what this leaves on disk for a message in
  general, for one whose delivery is past its writes, for one whose removal is
  done, and for one in memory, whose flag is on disk or in some writer's hand.

For the refinement, most steps of `Store` are stutters of `MailQueue` or give up a
promise (`Quiet`). `Insert` is its `Enqueue` because a mailbox that is full loses
exactly one message (`FullQueue`, with `CapacityCorrect`), and a start keeps what
was promised because a message it evicts is older than all it keeps
(`LoadSorted`), and a message it cannot read is one the disk had lost or failed to
save, which `Decay` or the failing write made `unsure` (`Started`).

`Pop3Proofs` proves all five safety properties of `pop3.cfg` for any number of
connections, logins, mailboxes and messages, from the assumptions named in
`Pop3`. The argument has four layers:

- `TypeInv`: a session has its mailbox locked exactly while it is opening it,
  working in it or deleting (`SessionOK`). `OneSessionPerMailbox` is then
  inductive: only PASS locks and only an ending unlocks (`LockFrame`).
- `AskInv`: what a session has marked is what its client wants, and in the
  update state the client has asked for it (`MarksOK`). `OnlyAskedFor` is a part.
- `ViewInv`: a message is at one place in one queue, a view lists messages of
  the session's own mailbox, and nothing that was popped is shown again. This is
  what makes one session's deletions harmless to a view of another mailbox.
- `ExclusiveView` needs the first and the third: a view that loses a message
  would be a second session on one mailbox. `QuitDeletes` needs all of them and
  itself: the position of a message that is still to be deleted lies ahead of
  `next`, and only the step that deletes it moves past it.

What `QuitEnds` and `LockIsReleased` rest on, apart from fairness, is proved too:
`QuitComesNearer` and `ReleaseComesNearer`. A measure in the natural numbers, the
rounds of the loop of QUIT that are left (`Rounds`) or the steps to the end of a
session that has lost its client (`Distance`), goes down with every step of the
session's own goroutine, stays as it is with every step of anyone else, and the
goroutine always has such a step: in the update state the message it deletes next
is in the mailbox (`FoundThere`, from `ViewInv`). At the end the lock is free.

`SmtpProofs` proves `TLSMeansTLS`, `OnlyAuthenticated` and `EnvelopeIsCurrent`.
They speak of a letter that is being stored; `Envelope` says what must hold of
the session before that, command by command: no recipients without a sender, no
sender without a login where one is required, everything from the present
side of the handshake, and as recipients just those that `since` holds. `Alone` reduces each step to the one session that takes
it.

It goes on to prove `TypeOK`, `AcceptedIsStored` and
`KeepsSubmission`, for any routing rules and any number of recipients. First, that
routing ends in a list of mailboxes that is not empty and has no mailbox twice
(`ResolveOnce`). `Match` and `AddAll` are functions on the positions of a sequence
that refer to themselves; the module shows that there are such functions
(`RecursionExists`) and that what their first value has and each step keeps, all
of them have (`Stays`). Both come from the library's theorem that a well-founded
set has minimal elements. Then `DeliveryInv`: a message is delivered by one
session at a time (`OneHand`), and each of its mailboxes has stored it or is still
on the session's list (`Delivering`). Steps are of two sorts, those that touch no
delivery (`Calm`) and those of one session and one message (`Handles`); for each
sort one lemma says what it leaves of the invariant, and one what it does to the
mapped variable `left` (`RestStays`, `RestStep`).

`SubmissionProofs` proves what it means to implement `Submission`, for any number
of tries, messages and mailboxes: `AcceptedMeansStored` and `NeverTwiceInOneTry`.
By `SessionsSubmit` it holds of `Smtp` too.
The invariant says, of one message at a time (`OneMail`), that what it is meant
for is stored or still to be served (`Delivered`), and that a mailbox still to be
served has only copies of earlier tries (`Counted`).

`FeedProofs` proves `TypeOK`, `ToldMeansShown` and `QuietMeansCurrent`. `Told`: nothing is heard,
queued or on the wire that is not in the store. `ListInv` and `SidebarInv` follow
the requests under way: they become late from the front, and the last of those
that are not late will show what was heard up to now; so when the last one has
been answered and shown, the page is up to date. `Announced` adds what happens to
events: of each mailbox the page has heard at its present version, or an event about
it is still under way, or it is `lost`.

`LifecycleProofs` proves all four invariants of `lifecycle.cfg` for any listeners
and connections. `Phase` says which servers are closed and which goroutines may
be where for each position of `run`; `Sockets`, that an open listener is either
registered, or its goroutine has not got to `Serve` yet, or its server is still
to be closed; `Hands`, that a connection between `Accept` and `wg.Add` is in the
hand of exactly one goroutine; `Errors`, that `runErr`, `stopped` and the
listeners that failed agree, which takes counting to two for the one panic; `Sleeper`,
that a goroutine in `wg.Wait` sleeps only while handlers are counted, and that when it
was woken a handler has ended and any that is counted now is a straggler, for the
other.

`ShutdownComesNearer` is what `ShutdownEnds` rests on apart from fairness. The main
goroutine goes through twelve stages, the end included, and back to none (`Stage`). While it waits in
one of them, those it waits for (`Awaited`, and the listeners' goroutines at the
end) need no client to go on: their connections have been cut (`Severed`), the
streams hear of the shutdown, their sockets are closed (`Sockets`); only for a
request that its client leaves unfinished the five seconds have to pass. Each of their
steps leaves them less to do (`HandlerLeft`, `ServeLeft`), no step of anyone leaves
them more, and nobody new comes in, since a socket that is still open belongs to a
server whose turn comes later. `Ready` is the strengthening: a handler does what its
server is for (`Kinds`), every handler of a mail server is registered before it runs
(`Registered`), and every listener has its goroutine once all are bound (`Bound`).
The stragglers that `ShutdownEnds` excludes are excluded from `Awaited`.

`FormatsProofs` proves what `Wire`, `Listing`, `Mime` and `RoutePatterns` promise, for
texts, lines, mailboxes, patterns, forms and trees of parts of any size, and from
that the properties of `formats.cfg`, for any bounds of the inputs. The
assumptions are those on the limits: a page holds at least one message, and
`maxDepth` is at least 2, since a composed message is two levels deep
(`MimeAssumption`; it is 12 in the code). The provers have no induction scheme for
these functions, so the module makes its own:

- `SetInduction` and `SeqInduction` take the property to be proved as a set, and show
  that a number or a sequence missing from it would have a least missing one
  (`LeastNumber`, from the library's `WFMin`).
- A function that refers to itself says nothing until there is one. `RunsExist` and
  `FoldExists` show that the folds behind the loops exist, `PathExists`, `LevelsExist`
  and `WalkExists` that the recursions down a tree do; lemmas such as `SplitIs` and
  `ReadLinesIs` then say how each grows with one more octet, line or part.
- Sizes, TOP and the end of an answer rest on how lines are joined and split:
  `SplitLine` and `SplitEnd` say what one more line does to `Split`, `AllLines` and
  `TopLines` which lines are sent.
- `ReadAll` follows `readData` line by line: the buffer holds the lines so far, or they
  are longer than the limit. `EndFound` adds that the client's dot is the end of a
  message without too long lines, and that the next command is left behind it;
  `LongFound`, that any other message is left at the first line that is too long.
- `PagesCorrect`: a page and what is behind it are what was left before it
  (`PageAndRest`), and the list has each message once (`SortedIs`).
- `ArrivalMovesPages` and `DeletionMovesPages` say what happens to the pages when the
  list changes between two requests. The next message is the last of its pool
  (`SortedMore`, `PoolGrows`) and one that is deleted leaves a gap (`SortedLess`,
  `PoolShrinks`; there is only one order, `OrderUnique`); the loop that picks the
  matches goes on alike in both (`MatchingGrows`, `MatchingShrinks`). A client that
  keeps its offset sees a message twice after an arrival, and misses one after a
  deletion. Nothing promises otherwise, and the page of the code does not do it.
- `CidsCorrect` gives the extent of the finding of `cids`: the links of inline images
  are right exactly for the messages in which no Content-ID is shadowed by one that
  it begins with (`Shadows`).
- `ShownCorrect` and `LinksCorrect` go up from the deepest level (`WalkShows`): what
  `walk` returns of a part shows just the parts below it that are to be seen, each
  once. Different branches have different part IDs (`BelowIs`), so merging them
  (`MergeAllShows`) shows nothing twice, and a link leads to its own part.
- `ComposedCorrect` follows `walk` through what `buildBody` builds (`ComposedWalk`): a
  text, an HTML body, both as alternatives, and any of them in front of files.
- `HeadersCorrect`: a text whose line ends are of one kind is lines with their ends
  and a rest (`FeedsOnly`, `PairsOnly`). The line feeds of lines that are not empty
  are further apart than a line end is long (`EndedApart`), so the first double line
  end, where `splitMessage` cuts (`SplitMessageAt`), is at the first empty line
  (`FirstDouble`), where TOP ends the header (`HeaderAndBody`).

Every safety property that a passing run checks has its theorem. The liveness
properties themselves (`LockIsReleased`, `QuitEnds`, `ShutdownEnds`) are left to TLC
too: to conclude from a measure that goes down under weak fairness that the end is
reached takes ENABLED and an induction over time. What is proved of them is all
that the code adds to that argument, the three theorems with `ComesNearer` in their
names.

## Where the code and its comments disagree

- `persist.go:76` says a crash cannot leave a half-written message. It can, when
  a list shows a message whose delivery is still writing it and a client marks it
  as read (`store_half_written`).
- A test says that deleting removes the files. A write that is under way at the
  deletion brings them back (`store_zombie`).
- `persist.go:106` says that sorting IDs restores the order of delivery. IDs are
  drawn before the lock is taken (`store_order`).
- `README.md:232` says `MS_IDLE_TIMEOUT` applies to SMTP and POP3 connections.
  The handshake of implicit TLS runs without it (`pop3_idle`).
- `smtpd/server.go:483` says that oversized messages are drained to keep the session
  in sync. One with a line of more than 1 MiB is left in the middle, and its rest is
  read as commands (`drained`).
- `web/server.go:310` says that rewriteCID makes inline images render. Not if one
  Content-ID begins with that of an earlier attachment (`cids`).

Met on the way, without a run of their own:

- `smtpd/server.go:460` says that a message is stored once per mailbox. When one
  mailbox fails, the sender is told 451 and asked to send to all of them again, and
  the first has it twice then; `Submission` promises one copy per try.
- Two goroutines that save one message can put their metadata on disk in the order
  opposite to their swaps (`store.go:405`); the flag on disk then stays wrong.
  `FlagIsSaved` excepts messages with two writers.
- `README.md:141` says that mail to anyone else than the routed addresses still
  goes to `outbox`. It does not if the same message has a routed recipient:
  `resolveMailboxes` falls back to the default only when no recipient is routed.
- `main.go:137` says that every listener is bound before serving. Each serves as
  soon as it is bound, so clients may be connected when a later one fails.
- Two listeners that fail at the same time may both find `stopped` open, and the
  second close panics (`main.go:187`); `StatusTellsTruth` allows for it.
- A connection that `Serve` had accepted before the shutdown may be handed over just
  when the last handler has ended and `Close` has not yet woken up. The WaitGroup is
  then reused under `Wait`, and the process panics (`smtpd/server.go:103` and `:128`,
  `pop3d/server.go:93` and `:118`); `StatusTellsTruth` allows for it as well.
- A message that is broken off in DATA leaves its sender and recipients to the
  session (`smtpd/server.go:438`): the next MAIL is refused as nested, and the next
  message goes to the old recipients too. `EnvelopeIsCurrent` says that this is the
  only way for a recipient to be left over.
- `Close` is said to wait for the handlers (`smtpd/server.go`, `pop3d/server.go`).
  A connection accepted but not yet tracked when `Close` takes the lock is not
  closed, and if `wg.Add` comes after the wait it is not waited for either;
  `StragglersOnly` says that these are all, and `ShutdownEnds` excludes them.
- `mailparse.go:74` says that parts that cannot be decoded are kept. A multipart
  that ends before its first part, and what comes after an error in a nested one,
  are dropped without a word.
- `splitMessage` looks for CRLF CRLF in the whole text before it looks for LF LF,
  so a text with bare line feeds and a CRLF CRLF far down has its header end there;
  and the header of a text that begins with an empty line is all up to the next
  one. `HeadersAgree` states where page and TOP agree.
- `.env.example:37` says that patterns may use one wildcard. One in another place
  than the documented ones is accepted and never matches.
- A composed message with a file of a type `multipart/*` shows that file undecoded.
- A size such as `MS_MAX_MESSAGE_SIZE=9000000000GB` overflows in `envBytes`.
- `selectMessage` in the page shows whatever answer comes last, also when the user
  has gone elsewhere meanwhile (`app.js:193`).

## Plan

What would be next, in this order:

1. A composition of `Smtp` with `Store`, so that a crash may follow a 250; today
   the two meet in `AckedIsKept` (what Deliver acknowledges is kept) and
   `AcceptedIsStored` (what was accepted has been acknowledged by Deliver).
2. `Feed` with the detail pane and the shutdown event.

## Not modelled

Certificates, the layout of the page and the container image have no behaviour to
check. Of the REST API, the checks of a request (authentication, CORS, read-only
mode, base path) depend on nothing but the request and change nothing. Of the
MIME parser and the composer, what is about single characters: transfer
encodings, charsets, encoded words, dates, addresses, file names. Of the
configuration, the reading of environment variables; what `validate` guarantees is
assumed of the constants. Of the SMTP server, the syntax of addresses and
parameters and the text of replies.
