------------------------------ MODULE Lifecycle ------------------------------
(***************************************************************************)
(* How mailschleuse starts and stops (cmd/mailschleuse run, and Serve and  *)
(* Close of internal/smtpd and internal/pop3d, which are the same code):   *)
(* the main goroutine binds one listener after the other, waits for a      *)
(* signal or for a listener that fails, and then shuts three servers down, *)
(* while accept loops and handlers go on.                                  *)
(*                                                                         *)
(* net/http is external: it stops accepting when Shutdown is called, and   *)
(* Shutdown returns when no request is under way.                          *)
(***************************************************************************)
EXTENDS Integers, Sequences, FiniteSets, SequencesExt

CONSTANTS
    Specs,        \* the listeners that are configured, in the order of binding
    ServerOf,     \* the server of each listener
    ImplicitTLS,  \* the listeners that begin with a TLS handshake
    Conns,        \* connections that clients may open
    ListenerOf    \* the listener each connection comes in on

Listeners == ToSet(Specs)
Servers == <<"smtp", "pop3">>    \* in the order run closes them
Web == {l \in Listeners : ServerOf[l] = "http"}

ASSUME LifecycleAssumption ==
    /\ Specs \in Seq(Listeners) /\ IsInjective(Specs)
    /\ ImplicitTLS \subseteq Listeners \ Web
    /\ ServerOf \in [Listeners -> {"http"} \cup ToSet(Servers)]
    /\ ListenerOf \in [Conns -> Listeners]

VARIABLES
    main,     \* where run is, see MainStates
    turn,     \* how many of Specs are bound; later how many Servers are closed
    exit,     \* how the process ended
    runErr,   \* run's runErr: has the error of a listener been kept?
    stopped,  \* is the channel stopped closed?
    hook,     \* webServer.Shutdown: "idle", "started" or "done"
    open,     \* the listeners whose socket is open
    serve,    \* the goroutine that serves each listener, see ServeStates
    held,     \* the connection it has accepted and not yet handed over
    closed,   \* the servers whose field closed is set
    listed,   \* Server.listeners
    conns,    \* Server.conns: the connections that Close will close
    handler,  \* the handler of each connection, see HandlerStates
    cut,      \* the connections closed by the server
    failed,   \* ghost: the listeners whose Serve returned an error
    late      \* ghost: the connections accepted, but not served yet, during Close

process == <<main, turn, exit, hook>>
errors == <<runErr, stopped, failed>>
loops == <<open, serve, held, closed, listed>>
sessions == <<conns, handler, cut, late>>
vars == <<process, errors, loops, sessions>>

Waits == {"wait", "asleep", "woken"}    \* before, in and after WaitGroup.Wait
MainStates ==
    {"bind", "serving", "shutdown", "draining", "close", "join", "done"} \cup Waits
ServeStates ==
    {"none", "start", "accept", "track", "add", "erred", "failed", "stop", "returned"}
Running == {"handshake", "reading", "working", "request", "stream"}
HandlerStates == {"none", "accepted", "done"} \cup Running
NoConn == "none"
ASSUME NoConnAssumption == NoConn \notin Conns

TypeOK ==
    /\ main \in MainStates /\ turn \in 0..(Len(Specs) + Len(Servers))
    /\ exit \in {"running", "ok", "error", "panic", "killed"}
    /\ runErr \in BOOLEAN /\ stopped \in BOOLEAN
    /\ hook \in {"idle", "started", "done"}
    /\ open \subseteq Listeners /\ failed \subseteq Listeners
    /\ listed \subseteq Listeners \ Web
    /\ serve \in [Listeners -> ServeStates]
    /\ held \in [Listeners -> Conns \cup {NoConn}]
    /\ \A l \in Listeners : held[l] # NoConn <=> serve[l] \in {"track", "add"}
    /\ closed \subseteq ToSet(Servers)
    /\ handler \in [Conns -> HandlerStates]
    /\ conns \subseteq {c \in Conns : handler[c] \in {"accepted"} \cup Running}
    /\ cut \subseteq Conns /\ late \subseteq Conns

Init ==
    /\ main = "bind" /\ turn = 0 /\ exit = "running"
    /\ runErr = FALSE /\ stopped = FALSE /\ failed = {}
    /\ hook = "idle"
    /\ open = {} /\ listed = {} /\ closed = {}
    /\ serve = [l \in Listeners |-> "none"]
    /\ held = [l \in Listeners |-> NoConn]
    /\ conns = {} /\ cut = {} /\ late = {}
    /\ handler = [c \in Conns |-> "none"]

Go(l, pc) == serve' = [serve EXCEPT ![l] = pc]
Becomes(c, what) == handler' = [handler EXCEPT ![c] = what]
ConnsOf(s) == {c \in Conns : ServerOf[ListenerOf[c]] = s}
Handlers(s) == {c \in ConnsOf(s) : handler[c] \in Running}    \* counted by its wg
-----------------------------------------------------------------------------
(* run: the main goroutine                                                 *)

\* Listen for the next address, and serve it at once.
Bind ==
    /\ main = "bind" /\ turn < Len(Specs)
    /\ LET l == Specs[turn + 1] IN open' = open \cup {l} /\ Go(l, "start")
    /\ turn' = turn + 1
    /\ UNCHANGED <<main, exit, hook, errors, held, closed, listed, sessions>>

\* The address is taken: close what is open, and return the error.
BindFails ==
    /\ main = "bind" /\ turn < Len(Specs)
    /\ open' = {}
    /\ main' = "done" /\ exit' = "error"
    /\ UNCHANGED <<turn, hook, errors, serve, held, closed, listed, sessions>>

\* All are bound, signal.Notify is called; a signal that came before kills.
Notify ==
    /\ main = "bind" /\ turn = Len(Specs)
    /\ main' = "serving"
    /\ UNCHANGED <<turn, exit, hook, errors, loops, sessions>>

Killed ==
    /\ main = "bind"
    /\ main' = "done" /\ exit' = "killed"
    /\ UNCHANGED <<turn, hook, errors, loops, sessions>>

\* The select: a signal may come at any time, stopped may be closed already.
Signal ==
    /\ main = "serving"
    /\ main' = "shutdown"
    /\ UNCHANGED <<turn, exit, hook, errors, loops, sessions>>

Stopped == stopped /\ Signal

\* (Mutation: webServer.Shutdown is not registered.)
ShutdownUnhooked ==
    /\ main = "shutdown"
    /\ main' = "draining" /\ turn' = 0
    /\ open' = open \ Web
    /\ UNCHANGED <<hook, exit, errors, serve, held, closed, listed, sessions>>

\* httpServer.Shutdown closes its listener and starts what is registered.
Shutdown ==
    /\ main = "shutdown"
    /\ main' = "draining" /\ turn' = 0
    /\ open' = open \ Web
    /\ hook' = "started"
    /\ UNCHANGED <<exit, errors, serve, held, closed, listed, sessions>>

WebShutdown ==
    /\ hook = "started"
    /\ hook' = "done"
    /\ UNCHANGED <<main, turn, exit, errors, loops, sessions>>

Requests == {c \in ConnsOf("http") : handler[c] \in Running}

\* Shutdown returns when the requests are done ...
Drained ==
    /\ main = "draining" /\ Requests = {}
    /\ main' = "close"
    /\ UNCHANGED <<turn, exit, hook, errors, loops, sessions>>

\* ... or after five seconds; then run closes their connections.
DrainTimeout ==
    /\ main = "draining" /\ Requests # {}
    /\ main' = "close"
    /\ cut' = cut \cup Requests
    /\ UNCHANGED <<turn, exit, hook, errors, loops, conns, handler, late>>

\* Server.Close up to the unlock, of the server whose turn it is.
Close ==
    LET s == Servers[turn + 1]
        mine == {l \in Listeners : ServerOf[l] = s}
    IN  /\ main = "close"
        /\ closed' = closed \cup {s}
        /\ open' = open \ (listed \cap mine)
        /\ cut' = cut \cup (conns \cap ConnsOf(s))
        /\ late' = late \cup {held[l] : l \in {k \in mine : held[k] # NoConn}}
        /\ main' = "wait"
        /\ UNCHANGED <<turn, exit, hook, errors, serve, held, listed, conns, handler>>

\* Close returns; the next server is closed.
Returns ==
    /\ turn' = turn + 1
    /\ main' = IF turn' = Len(Servers) THEN "join" ELSE "close"
    /\ UNCHANGED exit

\* (Mutation: Close does not wait for the handlers.)
WaitNot ==
    /\ main = "wait"
    /\ Returns
    /\ UNCHANGED <<hook, errors, loops, sessions>>

\* wg.Wait: if handlers are counted, the last of them has to wake it.
Wait ==
    /\ main = "wait"
    /\ IF Handlers(Servers[turn + 1]) = {} THEN Returns
       ELSE main' = "asleep" /\ UNCHANGED <<turn, exit>>
    /\ UNCHANGED <<hook, errors, loops, sessions>>

\* The last handler has woken it.  A handler that was added since is a misuse of
\* the WaitGroup: "reused before previous Wait has returned".
Wake ==
    /\ main = "woken"
    /\ IF Handlers(Servers[turn + 1]) = {} THEN Returns
       ELSE main' = "done" /\ exit' = "panic" /\ UNCHANGED turn
    /\ UNCHANGED <<hook, errors, loops, sessions>>

\* (Mutation: run does not wait for the listeners.)
JoinNot ==
    /\ main = "join"
    /\ main' = "done"
    /\ exit' = IF runErr THEN "error" ELSE "ok"
    /\ UNCHANGED <<turn, hook, errors, loops, sessions>>

\* wg.Wait, and the process ends with what runErr says.
Join ==
    /\ main = "join"
    /\ \A l \in Listeners : serve[l] = "returned"
    /\ main' = "done"
    /\ exit' = IF runErr THEN "error" ELSE "ok"
    /\ UNCHANGED <<turn, hook, errors, loops, sessions>>
-----------------------------------------------------------------------------
(* Serve and the goroutine around it                                       *)

\* (Mutation: Serve leaves the listener open if the server is closed.)
StartLeaking(l) ==
    /\ serve[l] = "start"
    /\ IF ServerOf[l] \in closed
       THEN Go(l, "returned") /\ UNCHANGED listed
       ELSE Go(l, "accept") /\ listed' = listed \cup ({l} \ Web)
    /\ UNCHANGED <<process, errors, open, held, closed, sessions>>

\* Serve registers its listener, or closes it if the server was closed before.
Start(l) ==
    /\ serve[l] = "start"
    /\ IF ServerOf[l] \in closed
       THEN /\ Go(l, "returned") /\ open' = open \ {l}
            /\ UNCHANGED listed
       ELSE /\ Go(l, "accept") /\ listed' = listed \cup ({l} \ Web)
            /\ UNCHANGED open
    /\ UNCHANGED <<process, errors, held, closed, sessions>>

\* A client connects.  net/http waits for its request; our servers hold the
\* connection while they register it.
Accept(l, c) ==
    /\ serve[l] = "accept" /\ l \in open
    /\ ListenerOf[c] = l /\ handler[c] = "none"
    /\ IF l \in Web
       THEN Becomes(c, "request") /\ UNCHANGED <<serve, held>>
       ELSE Becomes(c, "accepted") /\ Go(l, "track") /\ held' = [held EXCEPT ![l] = c]
    /\ UNCHANGED <<process, errors, open, closed, listed, conns, cut, late>>

Track(l) ==
    /\ serve[l] = "track"
    /\ conns' = conns \cup {held[l]}
    /\ Go(l, "add")
    /\ UNCHANGED <<process, errors, open, held, closed, listed, handler, cut, late>>

\* wg.Add, and the handler starts.  While the last of the others wakes Close up,
\* Add may panic itself: "called concurrently with Wait".
Misused(s) == main = "woken" /\ s = Servers[turn + 1] /\ Handlers(s) = {}
Add(l) ==
    /\ serve[l] = "add"
    /\ Becomes(held[l], IF l \in ImplicitTLS THEN "handshake" ELSE "reading")
    /\ held' = [held EXCEPT ![l] = NoConn]
    /\ Go(l, "accept")
    /\ \/ UNCHANGED <<main, exit>>
       \/ Misused(ServerOf[l]) /\ main' = "done" /\ exit' = "panic"
    /\ UNCHANGED <<turn, hook, errors, open, closed, listed, conns, cut, late>>

\* Accept fails: the listener was closed, or no file descriptor is left.
AcceptFails(l) ==
    /\ serve[l] = "accept"
    /\ Go(l, "erred")
    /\ UNCHANGED <<process, errors, open, held, closed, listed, sessions>>

\* isClosed tells the one from the other; net/http has the same rule.
Return(l) ==
    /\ serve[l] = "erred"
    /\ IF ServerOf[l] \in closed \/ (l \in Web /\ l \notin open)
       THEN Go(l, "returned") /\ UNCHANGED failed
       ELSE Go(l, "failed") /\ failed' = failed \cup {l}
    /\ UNCHANGED <<process, runErr, stopped, open, held, closed, listed, sessions>>

\* The error is kept, if it is the first; is stopped closed already?
Report(l) ==
    /\ serve[l] = "failed"
    /\ runErr' = TRUE
    /\ Go(l, IF stopped THEN "returned" ELSE "stop")
    /\ UNCHANGED <<process, stopped, failed, open, held, closed, listed, sessions>>

\* If not, it is closed; by now another goroutine may have done it, and to
\* close a channel twice panics.
Stop(l) ==
    /\ serve[l] = "stop"
    /\ Go(l, "returned")
    /\ stopped' = TRUE
    /\ IF stopped THEN main' = "done" /\ exit' = "panic" ELSE UNCHANGED <<main, exit>>
    /\ UNCHANGED <<turn, hook, runErr, failed, open, held, closed, listed, sessions>>

ServeStep(l) ==
    \/ Start(l) \/ Track(l) \/ Add(l) \/ Return(l) \/ Report(l) \/ Stop(l)
    \/ l \notin open /\ AcceptFails(l)
-----------------------------------------------------------------------------
(* Handlers                                                                *)

\* A session goes on: the client answers the handshake, or sends a command; or
\* its request is one for events.
Proceed(c) ==
    /\ c \notin cut
    /\ \/ handler[c] = "handshake" /\ Becomes(c, "reading")
       \/ handler[c] = "reading" /\ Becomes(c, "working")
       \/ handler[c] = "request" /\ Becomes(c, "stream")
    /\ UNCHANGED <<process, errors, loops, conns, cut, late>>

\* The command is carried out, whether or not the connection was closed.
Work(c) ==
    /\ handler[c] = "working" /\ Becomes(c, "reading")
    /\ UNCHANGED <<process, errors, loops, conns, cut, late>>

\* wg.Done: the last handler wakes who waits for it.
Done(c) ==
    main' = IF main = "asleep" /\ Handlers(Servers[turn + 1]) = {c} THEN "woken" ELSE main

\* (Mutation: the connection stays registered.)
EndTracked(c) ==
    /\ handler[c] \in Running \ {"working"}
    /\ Becomes(c, "done") /\ Done(c)
    /\ UNCHANGED <<turn, exit, hook, errors, loops, conns, cut, late>>

\* The handler returns: the client is gone or done, or was silent for the idle
\* timeout, or the connection was closed under it.
End(c) ==
    /\ handler[c] \in Running \ {"working"}
    /\ Becomes(c, "done") /\ Done(c)
    /\ conns' = conns \ {c}
    /\ UNCHANGED <<turn, exit, hook, errors, loops, cut, late>>

\* handleEvents hears of the shutdown.
StreamEnds(c) == handler[c] = "stream" /\ hook = "done" /\ End(c)

MainStep ==
    \/ Bind \/ Notify \/ Stopped \/ Shutdown \/ WebShutdown \/ Drained
    \/ Close \/ Wait \/ Wake \/ Join
HandlerStep(c) == Work(c) \/ StreamEnds(c) \/ (c \in cut /\ End(c))

Terminating == exit # "running" /\ UNCHANGED vars

Next ==
    \/ /\ exit = "running"
       /\ \/ MainStep \/ BindFails \/ Killed \/ Signal \/ DrainTimeout
          \/ \E l \in Listeners :
                ServeStep(l) \/ AcceptFails(l) \/ \E c \in Conns : Accept(l, c)
          \/ \E c \in Conns : HandlerStep(c) \/ Proceed(c) \/ End(c)
    \/ Terminating

\* Goroutines run on.  Clients need do nothing, but the five seconds are
\* counted on for the requests that one of them leaves unfinished: the streams
\* have to end by themselves.
Fairness ==
    /\ WF_vars(exit = "running" /\ MainStep)
    /\ WF_vars(exit = "running" /\ WebShutdown)
    /\ WF_vars(exit = "running" /\ DrainTimeout
               /\ \E c \in Conns : handler[c] = "request")
    /\ \A l \in Listeners : WF_vars(exit = "running" /\ ServeStep(l))
    /\ \A c \in Conns : WF_vars(exit = "running" /\ HandlerStep(c))

Spec == Init /\ [][Next]_vars /\ Fairness
-----------------------------------------------------------------------------
(* Correctness                                                             *)

\* Close has returned, of the i-th server.
Returned(i) == main = "join" \/ (main \in {"close"} \cup Waits /\ turn >= i)

\* "Close stops all listeners and open connections and waits for the
\* handlers": when it has returned, no handler runs, but of a connection that
\* Serve had accepted and not yet handed over when Close took the lock; it was
\* closed, unless it was not registered either.
StragglersOnly ==
    \A i \in DOMAIN Servers : Returned(i) =>
        \A c \in ConnsOf(Servers[i]) : handler[c] \in Running => c \in late

\* A straggler of a server that is being closed got its handler just when the
\* last of the others had ended, and so started to count anew.
Reused ==
    \E s \in closed :
        /\ Handlers(s) # {} /\ Handlers(s) \subseteq late
        /\ \E c \in ConnsOf(s) : handler[c] = "done"

\* The exit status tells the truth: zero only if every listener was bound and
\* none failed, in whatever order failures, signals and the shutdown happen;
\* and the process panics only if two listeners fail at once, or if a straggler
\* uses the WaitGroup again before Close has woken up.
StatusTellsTruth ==
    /\ exit = "ok" => failed = {} /\ \A l \in Listeners : serve[l] # "none"
    /\ exit = "panic" => Cardinality(failed) > 1 \/ Reused

\* When run has ended in order, every listener has been closed, also one whose
\* goroutine had not got to Serve when its server was closed.
NothingListens == exit = "ok" => open = {}

\* A shutdown, once begun, ends, whatever the clients do and although event
\* streams never end by themselves, unless a straggler that was not closed
\* goes on.
ShutdownEnds ==
    main = "shutdown" ~>
        exit # "running" \/ \E c \in late \ cut : handler[c] \in Running
=============================================================================
