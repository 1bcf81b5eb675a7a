-------------------------- MODULE LifecycleProofs --------------------------
(***************************************************************************)
(* Theorems about Lifecycle, for any listeners and connections: what the   *)
(* exit status and a finished shutdown say of the goroutines, whatever the *)
(* order in which these take their steps.                                  *)
(***************************************************************************)
EXTENDS Lifecycle, FiniteSetTheorems, TLAPS

\* The servers that have a Close, and the one of net/http, which has not.
LEMMA ServersAre ==
    /\ ToSet(Servers) = {"smtp", "pop3"} /\ "http" \notin ToSet(Servers)
    /\ DOMAIN Servers = {1, 2} /\ Len(Servers) = 2
    /\ Servers[1] = "smtp" /\ Servers[2] = "pop3"
<1>1. DOMAIN Servers = {1, 2} /\ Servers[1] = "smtp" /\ Servers[2] = "pop3"
      /\ Len(Servers) = 2
  BY DEF Servers
<1>2. ToSet(Servers) = {"smtp", "pop3"}
  BY <1>1 DEF ToSet
<1> QED
  BY <1>1, <1>2

LEMMA SpecsAre ==
    /\ Len(Specs) \in Nat /\ DOMAIN Specs = 1..Len(Specs)
    /\ \A i \in 1..Len(Specs) : Specs[i] \in Listeners
    /\ \A i, j \in 1..Len(Specs) : Specs[i] = Specs[j] => i = j
<1>1. Specs \in Seq(Listeners) /\ IsInjective(Specs)
  BY LifecycleAssumption
<1>2. Len(Specs) \in Nat /\ DOMAIN Specs = 1..Len(Specs)
  BY <1>1
<1>3. \A i \in 1..Len(Specs) : Specs[i] \in Listeners
  BY <1>1, <1>2
<1>4. \A i, j \in 1..Len(Specs) : Specs[i] = Specs[j] => i = j
  BY <1>1, <1>2 DEF IsInjective
<1> QED
  BY <1>2, <1>3, <1>4

LEMMA WebIs ==
    /\ Web \subseteq Listeners
    /\ \A l \in Listeners : l \in Web <=> ServerOf[l] \notin ToSet(Servers)
    /\ \A l \in Listeners : l \in Web <=> ServerOf[l] = "http"
    /\ ImplicitTLS \subseteq Listeners
BY ServersAre, LifecycleAssumption DEF Web
-----------------------------------------------------------------------------
(* The invariant                                                           *)

\* What the main goroutine has done so far.
Phase ==
    /\ exit = "running" <=> main # "done"
    /\ main = "bind" =>
        /\ turn <= Len(Specs)
        /\ \A i \in 1..Len(Specs) : i > turn => serve[Specs[i]] = "none"
    /\ main \in {"bind", "serving", "shutdown", "draining"} => closed = {}
    /\ main = "draining" => turn = 0
    /\ main \in {"close"} \cup Waits => turn \in {0, 1}
    /\ main = "close" => closed = IF turn = 0 THEN {} ELSE {"smtp"}
    /\ main \in Waits => closed = IF turn = 0 THEN {"smtp"} ELSE {"smtp", "pop3"}
    /\ main = "join" => closed = {"smtp", "pop3"}

\* A listener of a closed server is open only until its goroutine, which has
\* not begun, finds the server closed; that of net/http is closed first.
Sockets ==
    \A l \in Listeners :
        /\ l \in open => serve[l] # "none"
        /\ l \in open /\ l \notin Web => serve[l] = "start" \/ l \in listed
        /\ l \in open /\ ServerOf[l] \in closed => serve[l] = "start"
        /\ l \in open /\ l \in Web => main \in {"bind", "serving", "shutdown", "done"}

\* A connection that is accepted and not yet handed over is in the hand of its
\* listener's goroutine; if the server is closed, it was so when it closed.
Hands ==
    /\ \A l \in Listeners : held[l] # NoConn =>
        handler[held[l]] = "accepted" /\ ListenerOf[held[l]] = l
    /\ \A c \in Conns : handler[c] = "accepted" =>
        /\ held[ListenerOf[c]] = c
        /\ ServerOf[ListenerOf[c]] \in closed => c \in late

\* The errors of listeners on their way to the exit status.
Errors ==
    /\ IsFiniteSet(failed)
    /\ \A l \in Listeners : serve[l] \in {"failed", "stop"} => l \in failed
    /\ \A l \in failed : serve[l] \in {"failed", "stop", "returned"}
    /\ \A l \in failed : serve[l] # "failed" => runErr
    /\ stopped => \E k \in failed : serve[k] = "returned"

\* Close sleeps while handlers are counted.  When the last of them has woken it,
\* only those can be counted anew that were in a hand when it began.
Sleeper ==
    /\ main = "asleep" => Handlers(Servers[turn + 1]) # {}
    /\ main = "woken" =>
        /\ \E c \in ConnsOf(Servers[turn + 1]) : handler[c] = "done"
        /\ Handlers(Servers[turn + 1]) \subseteq late

Inv ==
    /\ TypeOK /\ Phase /\ Sockets /\ Hands /\ Errors /\ Sleeper
    /\ StragglersOnly /\ StatusTellsTruth /\ NothingListens

\* The steps of a process that runs, one by one.
Step ==
    \/ Bind \/ BindFails \/ Notify \/ Killed \/ Signal \/ Shutdown \/ WebShutdown
    \/ Drained \/ DrainTimeout \/ Close \/ Wait \/ Wake \/ Join
    \/ \E l \in Listeners :
        \/ Start(l) \/ Track(l) \/ Add(l) \/ AcceptFails(l) \/ Return(l)
        \/ Report(l) \/ Stop(l) \/ \E c \in Conns : Accept(l, c)
    \/ \E c \in Conns : Proceed(c) \/ Work(c) \/ End(c)

LEMMA Steps ==
    ASSUME [Next]_vars
    PROVE  (exit = "running" /\ Step) \/ UNCHANGED vars
BY DEF Next, MainStep, ServeStep, HandlerStep, StreamEnds, Stopped, Terminating, Step

LEMMA InvInit == Init => Inv
<1> SUFFICES ASSUME Init PROVE Inv
  OBVIOUS
<1> USE DEF Init
<1>1. TypeOK
  <2>1. turn \in 0..(Len(Specs) + Len(Servers))
    BY SpecsAre, ServersAre
  <2>2. \A l \in Listeners : held[l] = NoConn /\ serve[l] = "none"
    OBVIOUS
  <2> QED
    BY <2>1, <2>2 DEF TypeOK, MainStates, Waits, ServeStates, HandlerStates
<1>2. Phase
  BY SpecsAre DEF Phase, Waits
<1>3. Sockets /\ Hands
  BY LifecycleAssumption DEF Sockets, Hands
<1>4. Errors
  BY FS_EmptySet DEF Errors
<1>5. StragglersOnly /\ StatusTellsTruth /\ NothingListens /\ Sleeper
  BY ServersAre DEF StragglersOnly, Returned, Waits, StatusTellsTruth, NothingListens, Sleeper
<1> QED
  BY <1>1, <1>2, <1>3, <1>4, <1>5 DEF Inv
-----------------------------------------------------------------------------
(* Each part is kept by each step                                          *)

LEMMA TypeStep ==
    ASSUME Inv, exit = "running", Step
    PROVE  TypeOK'
<1> USE NoConnAssumption DEF Inv, TypeOK, MainStates, Waits, ServeStates, HandlerStates,
        Running, process, errors, loops, sessions
<1>1. CASE Bind
  <2>1. turn + 1 \in 1..Len(Specs) /\ Specs[turn + 1] \in Listeners
    BY <1>1, SpecsAre, ServersAre DEF Bind
  <2>2. serve[Specs[turn + 1]] = "none"
    BY <1>1, <2>1, SpecsAre DEF Bind, Phase
  <2>3. turn + 1 \in 0..(Len(Specs) + Len(Servers))
    BY <2>1, SpecsAre, ServersAre
  <2> QED
    BY <1>1, <2>1, <2>2, <2>3 DEF Bind, Go
<1>2. CASE BindFails
  BY <1>2 DEF BindFails
<1>3. CASE Notify
  BY <1>3 DEF Notify
<1>4. CASE Killed
  BY <1>4 DEF Killed
<1>5. CASE Signal
  BY <1>5 DEF Signal
<1>6. CASE Shutdown
  BY <1>6, SpecsAre, ServersAre DEF Shutdown
<1>7. CASE WebShutdown
  BY <1>7 DEF WebShutdown
<1>8. CASE Drained
  BY <1>8 DEF Drained
<1>9. CASE DrainTimeout
  BY <1>9 DEF DrainTimeout, Requests, ConnsOf
<1>10. CASE Close
  <2>1. Servers[turn + 1] \in ToSet(Servers)
    BY <1>10, ServersAre DEF Close, Phase
  <2> QED
    BY <1>10, <2>1 DEF Close, ConnsOf
<1>11. CASE Wait \/ Wake
  <2>1. turn + 1 \in 0..(Len(Specs) + Len(Servers))
    BY <1>11, SpecsAre, ServersAre DEF Wait, Wake, Phase
  <2> QED
    BY <1>11, <2>1 DEF Wait, Wake, Returns
<1>12. CASE Join
  BY <1>12 DEF Join
<1>13. ASSUME NEW l \in Listeners, Start(l) PROVE TypeOK'
  BY <1>13 DEF Start, Go
<1>14. ASSUME NEW l \in Listeners, Track(l) PROVE TypeOK'
  BY <1>14 DEF Track, Go, Hands
<1>15. ASSUME NEW l \in Listeners, Add(l) PROVE TypeOK'
  BY <1>15 DEF Add, Go, Becomes
<1>16. ASSUME NEW l \in Listeners, AcceptFails(l) PROVE TypeOK'
  BY <1>16 DEF AcceptFails, Go
<1>17. ASSUME NEW l \in Listeners, Return(l) PROVE TypeOK'
  BY <1>17 DEF Return, Go
<1>18. ASSUME NEW l \in Listeners, Report(l) PROVE TypeOK'
  BY <1>18 DEF Report, Go
<1>19. ASSUME NEW l \in Listeners, Stop(l) PROVE TypeOK'
  BY <1>19 DEF Stop, Go
<1>20. ASSUME NEW l \in Listeners, NEW c \in Conns, Accept(l, c) PROVE TypeOK'
  BY <1>20 DEF Accept, Go, Becomes
<1>21. ASSUME NEW c \in Conns, Proceed(c) PROVE TypeOK'
  BY <1>21 DEF Proceed, Becomes
<1>22. ASSUME NEW c \in Conns, Work(c) PROVE TypeOK'
  BY <1>22 DEF Work, Becomes
<1>23. ASSUME NEW c \in Conns, End(c) PROVE TypeOK'
  BY <1>23 DEF End, Done, Becomes
<1> QED
  BY <1>1, <1>2, <1>3, <1>4, <1>5, <1>6, <1>7, <1>8, <1>9, <1>10, <1>11,
  <1>12, <1>13, <1>14, <1>15, <1>16, <1>17, <1>18, <1>19, <1>20, <1>21,
  <1>22, <1>23 DEF Step

LEMMA PhaseStep ==
    ASSUME Inv, exit = "running", Step
    PROVE  Phase'
<1> USE DEF Waits, process, errors, loops, sessions
<1>0. TypeOK /\ Phase
  BY DEF Inv
<1>1. CASE Bind
  <2>1. turn \in Nat /\ turn + 1 \in 1..Len(Specs)
    BY <1>0, <1>1, SpecsAre, ServersAre DEF Bind, TypeOK
  <2>2. \A i \in 1..Len(Specs) : i > turn + 1 =>
            Specs[i] # Specs[turn + 1] /\ serve[Specs[i]] = "none"
    BY <1>0, <1>1, <2>1, SpecsAre DEF Bind, Phase
  <2>3. \A i \in 1..Len(Specs) : i > turn' => serve'[Specs[i]] = "none"
    BY <1>0, <1>1, <2>2, SpecsAre DEF Bind, Go, TypeOK
  <2> QED
    BY <1>0, <1>1, <2>1, <2>3 DEF Bind, Phase
<1>2. CASE BindFails \/ Killed \/ WebShutdown \/ Join
  BY <1>0, <1>2 DEF BindFails, Killed, WebShutdown, Join, Phase
<1>3. CASE Notify \/ Signal \/ Shutdown \/ Drained \/ DrainTimeout
  BY <1>0, <1>3 DEF Notify, Signal, Shutdown, Drained, DrainTimeout, Phase
<1>4. CASE Close
  BY <1>0, <1>4, ServersAre DEF Close, Phase
<1>5. CASE Wait \/ Wake
  BY <1>0, <1>5, ServersAre DEF Wait, Wake, Returns, Phase
<1>6. ASSUME NEW l \in Listeners, Start(l) \/ Track(l) \/ Add(l) \/ AcceptFails(l)
                                  \/ Return(l) \/ Report(l) \/ Stop(l)
      PROVE  Phase'
  <2>1. serve[l] # "none" /\ \E pc \in ServeStates : Go(l, pc)
    BY <1>6 DEF Start, Track, Add, AcceptFails, Return, Report, Stop, Go, ServeStates
  <2>2. \A k \in Listeners : serve[k] = "none" => serve'[k] = "none"
    BY <1>0, <2>1 DEF Go, TypeOK
  <2>3. /\ UNCHANGED <<turn, closed>>
        /\ UNCHANGED <<main, exit>> \/ (main' = "done" /\ exit' = "panic")
    BY <1>6 DEF Start, Track, Add, AcceptFails, Return, Report, Stop
  <2> QED
    BY <1>0, <2>2, <2>3, SpecsAre DEF Phase
<1>7. ASSUME NEW l \in Listeners, NEW c \in Conns, Accept(l, c) PROVE Phase'
  <2>1. \A k \in Listeners : serve[k] = "none" => serve'[k] = "none"
    BY <1>0, <1>7 DEF Accept, Go, TypeOK
  <2> QED
    BY <1>0, <1>7, <2>1, SpecsAre DEF Accept, Phase
<1>8. ASSUME NEW c \in Conns, Proceed(c) \/ Work(c) \/ End(c) PROVE Phase'
  BY <1>0, <1>8 DEF Proceed, Work, End, Done, Phase
<1> QED
  BY <1>1, <1>2, <1>3, <1>4, <1>5, <1>6, <1>7, <1>8 DEF Step

LEMMA SocketsStep ==
    ASSUME Inv, exit = "running", Step
    PROVE  Sockets'
<1> USE DEF process, errors, loops, sessions
<1>0. TypeOK /\ Phase /\ Sockets
  BY DEF Inv
<1>1. CASE Bind
  <2>1. Specs[turn + 1] \in Listeners /\ closed = {}
    BY <1>0, <1>1, SpecsAre, ServersAre DEF Bind, TypeOK, Phase
  <2> QED
    BY <1>0, <1>1, <2>1 DEF Bind, Go, TypeOK, Sockets
<1>2. CASE BindFails \/ Notify \/ Killed \/ Signal \/ Drained \/ DrainTimeout
           \/ Wait \/ Wake \/ Join \/ WebShutdown
  BY <1>0, <1>2 DEF BindFails, Notify, Killed, Signal, Drained, DrainTimeout, Wait,
                    Wake, Returns, Join, WebShutdown, Sockets
<1>3. CASE Shutdown
  BY <1>0, <1>3 DEF Shutdown, Sockets
<1>4. CASE Close
  <2>1. Servers[turn + 1] \in ToSet(Servers)
    BY <1>0, <1>4, ServersAre DEF Close, Phase
  <2>2. \A l \in Listeners : ServerOf[l] = Servers[turn + 1] => l \notin Web
    BY <2>1, WebIs
  <2> QED
    BY <1>0, <1>4, <2>2 DEF Close, Sockets
<1>5. ASSUME NEW l \in Listeners, Start(l) PROVE Sockets'
  BY <1>0, <1>5, WebIs DEF Start, Go, TypeOK, Sockets
<1>6. ASSUME NEW l \in Listeners, Track(l) \/ Add(l) \/ AcceptFails(l) \/ Return(l)
                                  \/ Report(l) \/ Stop(l)
      PROVE  Sockets'
  <2>1. serve[l] \notin {"none", "start"} /\ \E pc \in ServeStates \ {"none", "start"} : Go(l, pc)
    BY <1>6 DEF Track, Add, AcceptFails, Return, Report, Stop, Go, ServeStates
  <2>2. \A k \in Listeners : /\ serve[k] = "none" <=> serve'[k] = "none"
                             /\ serve[k] = "start" <=> serve'[k] = "start"
    BY <1>0, <2>1 DEF Go, TypeOK
  <2>3. UNCHANGED <<open, listed, closed>> /\ (main' = main \/ main' = "done")
    BY <1>6 DEF Track, Add, AcceptFails, Return, Report, Stop
  <2> QED
    BY <1>0, <2>2, <2>3 DEF Sockets
<1>7. ASSUME NEW l \in Listeners, NEW c \in Conns, Accept(l, c) PROVE Sockets'
  <2>1. \A k \in Listeners : /\ serve[k] = "none" <=> serve'[k] = "none"
                             /\ serve[k] = "start" <=> serve'[k] = "start"
    BY <1>0, <1>7 DEF Accept, Go, TypeOK
  <2> QED
    BY <1>0, <1>7, <2>1 DEF Accept, Sockets
<1>8. ASSUME NEW c \in Conns, Proceed(c) \/ Work(c) \/ End(c) PROVE Sockets'
  BY <1>0, <1>8 DEF Proceed, Work, End, Done, Sockets
<1> QED
  BY <1>1, <1>2, <1>3, <1>4, <1>5, <1>6, <1>7, <1>8 DEF Step

LEMMA HandsStep ==
    ASSUME Inv, exit = "running", Step
    PROVE  Hands'
<1> USE NoConnAssumption, LifecycleAssumption DEF process, errors, loops, sessions
<1>0. TypeOK /\ Phase /\ Sockets /\ Hands
  BY DEF Inv
<1>1. CASE Bind \/ BindFails \/ Notify \/ Killed \/ Signal \/ Shutdown \/ WebShutdown
           \/ Drained \/ DrainTimeout \/ Wait \/ Wake \/ Join
  <2>1. UNCHANGED <<held, handler, closed, late>>
    BY <1>1 DEF Bind, BindFails, Notify, Killed, Signal, Shutdown, WebShutdown,
                Drained, DrainTimeout, Wait, Wake, Join
  <2> QED
    BY <1>0, <2>1 DEF Hands
<1>2. CASE Close
  \* Who is in a hand now was put there before the server was closed.
  <2>1. ASSUME NEW c \in Conns, handler[c] = "accepted",
               ServerOf[ListenerOf[c]] \in closed'
        PROVE  c \in late'
    <3>1. held[ListenerOf[c]] = c /\ ListenerOf[c] \in Listeners
      BY <1>0, <2>1 DEF Hands
    <3>2. CASE ServerOf[ListenerOf[c]] \in closed
      BY <1>0, <1>2, <2>1, <3>2 DEF Close, Hands
    <3>3. CASE ServerOf[ListenerOf[c]] = Servers[turn + 1]
      BY <1>2, <3>1, <3>3 DEF Close
    <3> QED
      BY <1>2, <2>1, <3>2, <3>3 DEF Close
  <2>2. UNCHANGED <<held, handler>>
    BY <1>2 DEF Close
  <2> QED
    BY <1>0, <2>1, <2>2 DEF Hands
<1>3. ASSUME NEW l \in Listeners, Start(l) \/ Track(l) \/ AcceptFails(l) \/ Return(l)
                                  \/ Report(l) \/ Stop(l)
      PROVE  Hands'
  <2>1. UNCHANGED <<held, handler, closed, late>>
    BY <1>3 DEF Start, Track, AcceptFails, Return, Report, Stop
  <2> QED
    BY <1>0, <2>1 DEF Hands
<1>4. ASSUME NEW l \in Listeners, Add(l) PROVE Hands'
  <2>1. held[l] \in Conns /\ handler[held[l]] = "accepted" /\ ListenerOf[held[l]] = l
    BY <1>0, <1>4 DEF Add, TypeOK, Hands
  <2>2. handler'[held[l]] # "accepted" /\ \A c \in Conns \ {held[l]} : handler'[c] = handler[c]
    BY <1>0, <1>4, <2>1 DEF Add, Becomes, TypeOK
  <2>3. held'[l] = NoConn /\ \A k \in Listeners \ {l} : held'[k] = held[k]
    BY <1>0, <1>4 DEF Add, TypeOK
  <2>4. \A k \in Listeners : held'[k] # NoConn => k # l /\ held[k] # held[l]
    BY <1>0, <2>1, <2>3 DEF Hands
  <2>5. \A k \in Listeners : held'[k] # NoConn =>
            handler'[held'[k]] = "accepted" /\ ListenerOf[held'[k]] = k
    BY <1>0, <2>2, <2>3, <2>4 DEF Hands, TypeOK
  <2>6. \A c \in Conns : handler'[c] = "accepted" =>
            held'[ListenerOf[c]] = c /\ (ServerOf[ListenerOf[c]] \in closed => c \in late)
    BY <1>0, <2>1, <2>2, <2>3 DEF Hands
  <2> QED
    BY <1>4, <2>5, <2>6 DEF Add, Hands
<1>5. ASSUME NEW l \in Listeners, NEW c \in Conns, Accept(l, c) PROVE Hands'
  <2>1. CASE l \in Web
    <3>1. UNCHANGED <<held, closed, late>> /\ handler' = [handler EXCEPT ![c] = "request"]
      BY <1>5, <2>1 DEF Accept, Becomes
    <3>2. handler[c] = "none" /\ ListenerOf[c] = l
      BY <1>5 DEF Accept
    <3> QED
      BY <1>0, <3>1, <3>2 DEF Hands, TypeOK
  <2>2. CASE l \notin Web
    <3>1. /\ UNCHANGED <<closed, late>>
          /\ handler' = [handler EXCEPT ![c] = "accepted"]
          /\ held' = [held EXCEPT ![l] = c]
      BY <1>5, <2>2 DEF Accept, Becomes
    <3>2. /\ serve[l] = "accept" /\ l \in open
          /\ handler[c] = "none" /\ ListenerOf[c] = l /\ held[l] = NoConn
      BY <1>0, <1>5 DEF Accept, TypeOK
    <3>3. ServerOf[l] \notin closed
      BY <1>0, <3>2 DEF Sockets
    <3>4. \A k \in Listeners : held'[k] # NoConn =>
              handler'[held'[k]] = "accepted" /\ ListenerOf[held'[k]] = k
      BY <1>0, <3>1, <3>2 DEF Hands, TypeOK
    <3>5. \A d \in Conns : handler'[d] = "accepted" =>
              held'[ListenerOf[d]] = d /\ (ServerOf[ListenerOf[d]] \in closed => d \in late)
      BY <1>0, <3>1, <3>2, <3>3 DEF Hands, TypeOK
    <3> QED
      BY <3>1, <3>4, <3>5 DEF Hands
  <2> QED
    BY <2>1, <2>2
<1>6. ASSUME NEW c \in Conns, Proceed(c) \/ Work(c) \/ End(c) PROVE Hands'
  <2>1. handler[c] \in Running /\ UNCHANGED <<held, closed, late>>
    BY <1>6 DEF Proceed, Work, End, Running
  <2>2. handler[c] # "accepted" /\ \E what \in Running \cup {"done"} : Becomes(c, what)
    BY <1>6, <2>1 DEF Proceed, Work, End, Running
  <2>3. handler'[c] # "accepted" /\ \A d \in Conns \ {c} : handler'[d] = handler[d]
    BY <1>0, <2>2 DEF Becomes, TypeOK, Running
  <2> QED
    BY <1>0, <2>1, <2>2, <2>3 DEF Hands, TypeOK
<1> QED
  BY <1>1, <1>2, <1>3, <1>4, <1>5, <1>6 DEF Step

\* Which goroutines fail, and how far the error got.
LEMMA ErrorsStep ==
    ASSUME Inv, exit = "running", Step
    PROVE  Errors'
<1> USE DEF process, errors, loops, sessions
<1>0. TypeOK /\ Phase /\ Errors
  BY DEF Inv
<1>1. CASE Bind
  <2>1. turn \in Nat /\ turn + 1 \in 1..Len(Specs)
    BY <1>0, <1>1, SpecsAre, ServersAre DEF Bind, TypeOK
  <2>2. serve[Specs[turn + 1]] = "none"
    BY <1>0, <1>1, <2>1, SpecsAre DEF Bind, Phase
  <2> QED
    BY <1>0, <1>1, <2>2 DEF Bind, Go, TypeOK, Errors
<1>2. CASE BindFails \/ Notify \/ Killed \/ Signal \/ Shutdown \/ WebShutdown
           \/ Drained \/ DrainTimeout \/ Close \/ Wait \/ Wake \/ Join
  <2>1. UNCHANGED <<errors, serve>>
    BY <1>2 DEF BindFails, Notify, Killed, Signal, Shutdown, WebShutdown, Drained,
                DrainTimeout, Close, Wait, Wake, Join
  <2> QED
    BY <1>0, <2>1 DEF Errors
<1>3. ASSUME NEW l \in Listeners, Start(l) \/ Track(l) \/ Add(l) \/ AcceptFails(l)
      PROVE  Errors'
  <2>1. /\ serve[l] \notin {"failed", "stop", "returned"} /\ UNCHANGED errors
        /\ \E pc \in ServeStates \ {"failed", "stop"} : Go(l, pc)
    BY <1>3 DEF Start, Track, Add, AcceptFails, Go, ServeStates
  <2> QED
    BY <1>0, <2>1 DEF Go, TypeOK, Errors
<1>4. ASSUME NEW l \in Listeners, Return(l) PROVE Errors'
  <2>1. IsFiniteSet(failed')
    BY <1>0, <1>4, FS_AddElement DEF Return, Errors
  <2>2. serve[l] = "erred" /\ l \notin failed /\ UNCHANGED <<runErr, stopped>>
    BY <1>0, <1>4 DEF Return, Errors
  <2> QED
    BY <1>0, <1>4, <2>1, <2>2 DEF Return, Go, TypeOK, Errors
<1>5. ASSUME NEW l \in Listeners, Report(l) PROVE Errors'
  BY <1>0, <1>5 DEF Report, Go, TypeOK, Errors
<1>6. ASSUME NEW l \in Listeners, Stop(l) PROVE Errors'
  BY <1>0, <1>6 DEF Stop, Go, TypeOK, Errors
<1>7. ASSUME NEW l \in Listeners, NEW c \in Conns, Accept(l, c) PROVE Errors'
  BY <1>0, <1>7 DEF Accept, Go, TypeOK, Errors
<1>8. ASSUME NEW c \in Conns, Proceed(c) \/ Work(c) \/ End(c) PROVE Errors'
  BY <1>0, <1>8 DEF Proceed, Work, End, Errors
<1> QED
  BY <1>1, <1>2, <1>3, <1>4, <1>5, <1>6, <1>7, <1>8 DEF Step

\* A handler of a closed server starts only for a connection that was in a
\* hand when it was closed; and Close waits for the others.
LEMMA StragglersStep ==
    ASSUME Inv, exit = "running", Step
    PROVE  StragglersOnly'
<1> USE LifecycleAssumption, ServersAre DEF Waits, process, errors, loops, sessions
<1>0. TypeOK /\ Phase /\ Hands /\ StragglersOnly
  BY DEF Inv
<1>1. CASE Bind \/ BindFails \/ Notify \/ Killed \/ Signal \/ WebShutdown \/ Join
  BY <1>0, <1>1 DEF Bind, BindFails, Notify, Killed, Signal, WebShutdown, Join,
                    StragglersOnly, Returned, ConnsOf
<1>2. CASE Shutdown \/ Drained \/ DrainTimeout
  BY <1>0, <1>2 DEF Shutdown, Drained, DrainTimeout, Phase, StragglersOnly, Returned
<1>3. CASE Close
  BY <1>0, <1>3 DEF Close, StragglersOnly, Returned, ConnsOf
<1>4. CASE Wait \/ Wake
  <2> SUFFICES ASSUME NEW i \in DOMAIN Servers, Returned(i)',
                      NEW c \in ConnsOf(Servers[i]), handler[c] \in Running
               PROVE  c \in late
    BY <1>4 DEF Wait, Wake, StragglersOnly, ConnsOf
  <2>1. turn \in {0, 1} /\ i \in {1, 2} /\ i <= turn + 1
    BY <1>0, <1>4 DEF Wait, Wake, Returns, Phase, Returned
  <2>2. i # turn + 1
    BY <1>4, <2>1 DEF Wait, Wake, Returns, Returned, Handlers
  <2>3. Returned(i)
    BY <1>4, <2>1, <2>2 DEF Wait, Wake, Returned
  <2> QED
    BY <1>0, <2>3 DEF StragglersOnly
<1>5. ASSUME NEW l \in Listeners, Start(l) \/ Track(l) \/ AcceptFails(l) \/ Return(l)
                                  \/ Report(l) \/ Stop(l)
      PROVE  StragglersOnly'
  <2>1. UNCHANGED <<turn, handler, late>> /\ (main' = main \/ main' = "done")
    BY <1>5 DEF Start, Track, AcceptFails, Return, Report, Stop
  <2> QED
    BY <1>0, <2>1 DEF StragglersOnly, Returned, ConnsOf
<1>6. ASSUME NEW l \in Listeners, Add(l) PROVE StragglersOnly'
  <2>1. held[l] \in Conns /\ handler[held[l]] = "accepted" /\ ListenerOf[held[l]] = l
    BY <1>0, <1>6 DEF Add, TypeOK, Hands
  <2>2. \A c \in Conns \ {held[l]} : handler'[c] = handler[c]
    BY <1>0, <1>6, <2>1 DEF Add, Becomes, TypeOK
  <2>3. \A i \in DOMAIN Servers : Returned(i) /\ held[l] \in ConnsOf(Servers[i]) => held[l] \in late
    <3>1. \A i \in DOMAIN Servers : Returned(i) => Servers[i] \in closed
      BY <1>0 DEF Phase, Returned
    <3> QED
      BY <1>0, <2>1, <3>1 DEF Hands, ConnsOf
  <2>4. UNCHANGED <<turn, late>> /\ (main' = main \/ main' = "done")
    BY <1>6 DEF Add
  <2> QED
    BY <1>0, <2>2, <2>3, <2>4 DEF StragglersOnly, Returned, ConnsOf
<1>7. ASSUME NEW l \in Listeners, NEW c \in Conns, Accept(l, c) PROVE StragglersOnly'
  <2>1. /\ UNCHANGED <<main, turn, late>>
        /\ \A d \in Conns \ {c} : handler'[d] = handler[d]
    BY <1>0, <1>7 DEF Accept, Becomes, TypeOK
  <2>2. \A i \in DOMAIN Servers : c \in ConnsOf(Servers[i]) => handler'[c] = "accepted"
    BY <1>0, <1>7, WebIs DEF Accept, Becomes, TypeOK, ConnsOf, ToSet
  <2> QED
    BY <1>0, <2>1, <2>2 DEF StragglersOnly, Returned, ConnsOf, Running
<1>8. ASSUME NEW c \in Conns, Proceed(c) \/ Work(c) \/ End(c) PROVE StragglersOnly'
  <2>1. /\ UNCHANGED <<turn, late>> /\ handler[c] \in Running
        /\ main' = main \/ (main = "asleep" /\ main' = "woken")
    BY <1>8 DEF Proceed, Work, End, Done, Running
  <2>2. \A d \in Conns : handler'[d] \in Running => handler[d] \in Running
    BY <1>0, <1>8, <2>1 DEF Proceed, Work, End, Becomes, TypeOK
  <2> QED
    BY <1>0, <2>1, <2>2 DEF StragglersOnly, Returned, ConnsOf
<1> QED
  BY <1>1, <1>2, <1>3, <1>4, <1>5, <1>6, <1>7, <1>8 DEF Step

\* Two listeners that close the channel stopped have both failed.
LEMMA TwoFailed ==
    ASSUME Errors, NEW l \in failed, NEW k \in failed, k # l
    PROVE  Cardinality(failed) > 1
<1>1. IsFiniteSet({k}) /\ Cardinality({k}) = 1
  BY FS_Singleton
<1>2. Cardinality({k} \cup {l}) = 2
  BY <1>1, FS_AddElement
<1>3. {k} \cup {l} \in SUBSET failed
  OBVIOUS
<1>4. Cardinality({k} \cup {l}) <= Cardinality(failed) /\ Cardinality(failed) \in Nat
  BY <1>3, FS_Subset, FS_CardinalityType DEF Errors
<1> QED
  BY <1>2, <1>4

\* The WaitGroup: who is counted while Close sleeps, and after that.
LEMMA SleeperStep ==
    ASSUME Inv, exit = "running", Step
    PROVE  Sleeper'
<1> USE LifecycleAssumption, ServersAre DEF process, errors, loops, sessions
<1> DEFINE s == Servers[turn + 1]
<1>0. TypeOK /\ Phase /\ Hands /\ Sockets /\ Sleeper
  BY DEF Inv
<1>1. main \in Waits => s \in closed /\ s \in ToSet(Servers)
  BY <1>0 DEF Phase, Waits
<1>2. CASE main' \notin {"asleep", "woken"}
  BY <1>2 DEF Sleeper
<1>3. CASE Bind \/ BindFails \/ Notify \/ Killed \/ Signal \/ Shutdown \/ Drained
           \/ DrainTimeout \/ Close \/ Wake \/ Join
  <2>1. main' \notin {"asleep", "woken"}
    BY <1>3 DEF Bind, BindFails, Notify, Killed, Signal, Shutdown, Drained,
                DrainTimeout, Close, Wake, Returns, Join
  <2> QED
    BY <1>2, <2>1
<1>4. CASE Wait
  BY <1>4 DEF Wait, Returns, Sleeper, Handlers, ConnsOf
<1>5. CASE WebShutdown
  BY <1>0, <1>5 DEF WebShutdown, Sleeper, Handlers, ConnsOf
<1>6. ASSUME NEW l \in Listeners, Start(l) \/ Track(l) \/ AcceptFails(l) \/ Return(l)
                                  \/ Report(l) \/ Stop(l)
      PROVE  Sleeper'
  <2>1. UNCHANGED <<turn, handler, late>> /\ (main' = main \/ main' = "done")
    BY <1>6 DEF Start, Track, AcceptFails, Return, Report, Stop
  <2> QED
    BY <1>0, <2>1 DEF Sleeper, Handlers, ConnsOf
<1>7. ASSUME NEW l \in Listeners, Add(l) PROVE Sleeper'
  <2>1. held[l] \in Conns /\ handler[held[l]] = "accepted" /\ ListenerOf[held[l]] = l
    BY <1>0, <1>7 DEF Add, TypeOK, Hands
  <2>2. \A c \in Conns \ {held[l]} : handler'[c] = handler[c]
    BY <1>0, <1>7, <2>1 DEF Add, Becomes, TypeOK
  <2>3. main = "woken" /\ held[l] \in ConnsOf(s) => held[l] \in late
    BY <1>0, <1>1, <2>1 DEF Hands, ConnsOf, Waits
  <2>4. UNCHANGED <<turn, late>> /\ (main' = main \/ main' = "done")
    BY <1>7 DEF Add
  <2>5. handler[held[l]] # "done" /\ handler[held[l]] \notin Running
    BY <2>1 DEF Running
  <2> QED
    BY <1>0, <2>2, <2>3, <2>4, <2>5 DEF Sleeper, Handlers, ConnsOf
<1>8. ASSUME NEW l \in Listeners, NEW c \in Conns, Accept(l, c) PROVE Sleeper'
  <2>1. /\ UNCHANGED <<main, turn, late>> /\ handler[c] = "none"
        /\ \A d \in Conns \ {c} : handler'[d] = handler[d]
    BY <1>0, <1>8 DEF Accept, Becomes, TypeOK
  <2>2. main \in Waits /\ c \in ConnsOf(s) => handler'[c] = "accepted"
    BY <1>0, <1>1, <1>8, WebIs DEF Accept, Becomes, TypeOK, ConnsOf
  <2> QED
    BY <1>0, <2>1, <2>2 DEF Sleeper, Handlers, ConnsOf, Running, Waits
<1>9. ASSUME NEW c \in Conns, Proceed(c) \/ Work(c) PROVE Sleeper'
  <2>1. /\ UNCHANGED <<main, turn, late>> /\ handler[c] \in Running /\ handler'[c] \in Running
        /\ \A d \in Conns \ {c} : handler'[d] = handler[d]
    BY <1>0, <1>9 DEF Proceed, Work, Becomes, TypeOK, Running
  <2>2. handler[c] # "done"
    BY <2>1 DEF Running
  <2>3. \A t \in ToSet(Servers) : Handlers(t)' = Handlers(t)
    BY <2>1 DEF Handlers, ConnsOf
  <2> QED
    BY <1>0, <1>1, <2>1, <2>2, <2>3 DEF Sleeper, ConnsOf, Waits
<1>10. ASSUME NEW c \in Conns, End(c) PROVE Sleeper'
  <2>1. /\ UNCHANGED <<turn, late>> /\ handler[c] \in Running /\ handler'[c] = "done"
        /\ \A d \in Conns \ {c} : handler'[d] = handler[d]
        /\ main' = IF main = "asleep" /\ Handlers(s) = {c} THEN "woken" ELSE main
    BY <1>0, <1>10 DEF End, Done, Becomes, TypeOK
  <2>2. Handlers(s)' = Handlers(s) \ {c}
    BY <2>1 DEF Handlers, ConnsOf, Running
  <2>3. CASE main = "asleep" /\ Handlers(s) = {c}
    BY <2>1, <2>2, <2>3 DEF Sleeper, Handlers, ConnsOf
  <2>4. CASE ~(main = "asleep" /\ Handlers(s) = {c})
    <3>1. \A d \in Conns : handler[d] = "done" => handler'[d] = "done"
      BY <2>1
    <3> QED
      BY <1>0, <2>1, <2>2, <2>4, <3>1 DEF Sleeper, ConnsOf
  <2> QED
    BY <2>3, <2>4
<1> QED
  BY <1>3, <1>4, <1>5, <1>6, <1>7, <1>8, <1>9, <1>10 DEF Step

LEMMA EndStep ==
    ASSUME Inv, exit = "running", Step
    PROVE  StatusTellsTruth' /\ NothingListens'
<1> USE DEF process, errors, loops, sessions
<1>0. TypeOK /\ Phase /\ Sockets /\ Hands /\ Errors /\ Sleeper
  BY DEF Inv
<1>1. CASE Join
  <2>1. \A l \in Listeners : serve[l] = "returned"
    BY <1>1 DEF Join
  <2>2. ~runErr => failed = {}
    BY <1>0, <2>1 DEF Errors, TypeOK
  <2>3. \A l \in Listeners : l \notin open
    BY <1>0, <1>1, <2>1, ServersAre, WebIs DEF Join, Phase, Sockets
  <2>4. open = {}
    BY <1>0, <2>3 DEF TypeOK
  <2> QED
    BY <1>1, <2>1, <2>2, <2>4 DEF Join, StatusTellsTruth, NothingListens
<1>2. ASSUME NEW l \in Listeners, Stop(l) PROVE StatusTellsTruth' /\ NothingListens'
  <2>1. exit' = exit \/ (stopped /\ exit' = "panic")
    BY <1>2 DEF Stop
  <2>2. stopped => \E k \in failed : k # l
    BY <1>0, <1>2 DEF Stop, Errors
  <2>3. stopped => Cardinality(failed) > 1
    BY <1>0, <1>2, <2>2, TwoFailed DEF Stop, Errors
  <2> QED
    BY <1>2, <2>1, <2>3 DEF Stop, StatusTellsTruth, NothingListens
<1>3. CASE exit' = "running" \/ exit' = "error" \/ exit' = "killed"
  BY <1>3 DEF StatusTellsTruth, NothingListens
<1>4. CASE Bind \/ BindFails \/ Notify \/ Killed \/ Signal \/ Shutdown \/ WebShutdown
           \/ Drained \/ DrainTimeout \/ Close \/ Wait
  BY <1>3, <1>4 DEF Bind, BindFails, Notify, Killed, Signal, Shutdown, WebShutdown,
                    Drained, DrainTimeout, Close, Wait, Returns
<1>5. ASSUME NEW l \in Listeners, Start(l) \/ Track(l) \/ AcceptFails(l)
                                  \/ Return(l) \/ Report(l) \/ \E c \in Conns : Accept(l, c)
      PROVE  exit' = "running"
  BY <1>5 DEF Start, Track, AcceptFails, Return, Report, Accept
<1>6. ASSUME NEW c \in Conns, Proceed(c) \/ Work(c) \/ End(c) PROVE exit' = "running"
  BY <1>6 DEF Proceed, Work, End
\* The two panics of the WaitGroup.
<1>7. CASE Wake
  <2> DEFINE s == Servers[turn + 1]
  <2>1. CASE Handlers(s) = {}
    BY <1>3, <1>7, <2>1 DEF Wake, Returns
  <2>2. CASE Handlers(s) # {}
    <3>1. exit' = "panic" /\ UNCHANGED <<closed, handler, late>>
      BY <1>7, <2>2 DEF Wake
    <3>2. s \in closed /\ main = "woken"
      BY <1>0, <1>7, ServersAre DEF Wake, Phase, Waits
    <3>3. Reused
      BY <1>0, <2>2, <3>2 DEF Sleeper, Reused
    <3>4. Reused'
      BY <3>1, <3>3 DEF Reused, Handlers, ConnsOf
    <3> QED
      BY <3>1, <3>4 DEF StatusTellsTruth, NothingListens
  <2> QED
    BY <2>1, <2>2
<1>8. ASSUME NEW l \in Listeners, Add(l) PROVE StatusTellsTruth' /\ NothingListens'
  <2>1. CASE UNCHANGED <<main, exit>>
    BY <1>3, <2>1
  <2>2. CASE Misused(ServerOf[l]) /\ exit' = "panic"
    <3> DEFINE s == ServerOf[l]
    <3>1. /\ main = "woken" /\ s = Servers[turn + 1] /\ Handlers(s) = {} /\ s \in closed
      BY <1>0, <2>2, ServersAre DEF Misused, Phase, Waits
    <3>2. held[l] \in Conns /\ handler[held[l]] = "accepted" /\ ListenerOf[held[l]] = l
      BY <1>0, <1>8 DEF Add, TypeOK, Hands
    <3>3. held[l] \in ConnsOf(s) /\ held[l] \in late
      BY <1>0, <3>1, <3>2 DEF Hands, ConnsOf
    <3>4. /\ handler'[held[l]] \in Running /\ UNCHANGED <<closed, late>>
          /\ \A c \in Conns \ {held[l]} : handler'[c] = handler[c]
      BY <1>0, <1>8, <3>2 DEF Add, Becomes, TypeOK, Running
    <3>5. Handlers(s)' = {held[l]}
      BY <3>1, <3>3, <3>4 DEF Handlers, ConnsOf
    <3>6. PICK d \in ConnsOf(s) : handler[d] = "done"
      BY <1>0, <3>1 DEF Sleeper
    <3>7. d # held[l] /\ d \in Conns
      BY <3>2, <3>6 DEF ConnsOf
    <3>8. handler'[d] = "done" /\ d \in ConnsOf(s)'
      BY <3>4, <3>6, <3>7 DEF ConnsOf
    <3>9. Reused'
      BY <3>1, <3>3, <3>4, <3>5, <3>8 DEF Reused
    <3> QED
      BY <2>2, <3>9 DEF StatusTellsTruth, NothingListens
  <2> QED
    BY <1>8, <2>1, <2>2 DEF Add
<1> QED
  BY <1>1, <1>2, <1>3, <1>4, <1>5, <1>6, <1>7, <1>8 DEF Step

LEMMA InvNext == Inv /\ [Next]_vars => Inv'
<1> SUFFICES ASSUME Inv, [Next]_vars PROVE Inv'
  OBVIOUS
<1>1. CASE UNCHANGED vars
  <2> USE <1>1 DEF vars, process, errors, loops, sessions
  <2>1. TypeOK' /\ Phase' /\ Sockets'
    BY DEF Inv, TypeOK, Phase, Sockets
  <2>2. Hands' /\ Errors'
    BY DEF Inv, Hands, Errors
  <2>3. StragglersOnly' /\ StatusTellsTruth' /\ NothingListens'
    BY DEF Inv, StragglersOnly, Returned, ConnsOf, StatusTellsTruth, NothingListens,
           Reused, Handlers
  <2>4. Sleeper'
    BY DEF Inv, Sleeper, Handlers, ConnsOf
  <2> QED
    BY <2>1, <2>2, <2>3, <2>4 DEF Inv
<1>2. CASE exit = "running" /\ Step
  BY <1>2, TypeStep, PhaseStep, SocketsStep, HandsStep, ErrorsStep, StragglersStep,
     SleeperStep, EndStep DEF Inv
<1> QED
  BY <1>1, <1>2, Steps
-----------------------------------------------------------------------------
(* Theorems                                                                *)

LEMMA InvCorrect == Spec => []Inv
BY InvInit, InvNext, PTL DEF Spec

\* Every variable keeps its type, with any listeners and connections.
THEOREM TypeCorrect == Spec => []TypeOK
<1>1. Inv => TypeOK
  BY DEF Inv
<1> QED
  BY <1>1, InvCorrect, PTL

\* When Close has returned, only handlers of connections run that were accepted
\* and not handed over when it began.
THEOREM CloseWaits == Spec => []StragglersOnly
<1>1. Inv => StragglersOnly
  BY DEF Inv
<1> QED
  BY <1>1, InvCorrect, PTL

\* The exit status is zero only if all listeners were bound and none failed; a
\* panic takes two failures, or a straggler that is counted before Close is awake.
THEOREM StatusCorrect == Spec => []StatusTellsTruth
<1>1. Inv => StatusTellsTruth
  BY DEF Inv
<1> QED
  BY <1>1, InvCorrect, PTL

\* After an orderly end no listener is left open.
THEOREM AllClosed == Spec => []NothingListens
<1>1. Inv => NothingListens
  BY DEF Inv
<1> QED
  BY <1>1, InvCorrect, PTL
-----------------------------------------------------------------------------
(* Progress: what ShutdownEnds rests on                                    *)

\* How far a shutdown has got.
Closing == main \in {"shutdown", "draining", "close", "join"} \cup Waits
Stage ==
    CASE main = "shutdown" -> 0
      [] main = "draining" -> 1
      [] main = "close"    -> 2 + 4 * turn
      [] main = "wait"     -> 3 + 4 * turn
      [] main = "asleep"   -> 4 + 4 * turn
      [] main = "woken"    -> 5 + 4 * turn
      [] main = "join"     -> 10
      [] main = "done"     -> 11

\* The connections that the main goroutine waits for, but for the stragglers
\* that were not closed, and what their handlers have before them.
Awaited ==
    CASE main = "draining" -> ConnsOf("http")
      [] main = "asleep"   -> ConnsOf(Servers[turn + 1]) \ (late \ cut)
      [] OTHER             -> {}
HandlerLeft(c) ==
    CASE handler[c] = "accepted"                            -> 3
      [] handler[c] \in {"working", "request"}              -> 2
      [] handler[c] \in {"handshake", "reading", "stream"}  -> 1
      [] OTHER                                              -> 0

\* What the goroutine of a listener has before it.
ServeLeft(l) ==
    CASE serve[l] = "start"  -> 7
      [] serve[l] = "track"  -> 6
      [] serve[l] = "add"    -> 5
      [] serve[l] = "accept" -> 4
      [] serve[l] = "erred"  -> 3
      [] serve[l] = "failed" -> 2
      [] serve[l] = "stop"   -> 1
      [] OTHER               -> 0

\* What the main goroutine waits for can take a step by itself: a handler,
\* since its connection is closed; a stream, since the shutdown is announced
\* or will be; a listener's goroutine, since its socket is closed.
ShutdownNeverStuck ==
    /\ main = "draining" =>
        /\ hook \in {"started", "done"}
        /\ \A c \in Requests : handler[c] \in {"request", "stream"}
    /\ main = "asleep" =>
        /\ Handlers(Servers[turn + 1]) # {}
        /\ \A c \in Awaited : handler[c] \in Running => c \in cut
    /\ main = "join" => \A l \in Listeners :
        serve[l] # "none" /\ (serve[l] = "accept" => l \notin open)
ShutdownStep ==
    Closing =>
        \/ Stage' > Stage
        \/ /\ Stage' = Stage /\ Awaited' = Awaited
           /\ MainStep => WebShutdown
           /\ \A c \in Awaited : /\ HandlerLeft(c)' <= HandlerLeft(c)
                                 /\ HandlerStep(c) => HandlerLeft(c)' < HandlerLeft(c)
           /\ main = "join" => \A l \in Listeners :
                /\ ServeLeft(l)' <= ServeLeft(l)
                /\ ServeStep(l) => ServeLeft(l)' < ServeLeft(l)
ShutdownGoesOn == [][ShutdownStep]_vars

\* A handler does what its server is for.
Kinds ==
    \A c \in Conns :
        IF ServerOf[ListenerOf[c]] = "http"
        THEN handler[c] \in {"none", "request", "stream", "done"}
        ELSE handler[c] \in {"none", "accepted", "handshake", "reading", "working", "done"}

\* The connections of running handlers are registered, those about to run too.
Registered ==
    /\ \A c \in Conns : handler[c] \in Running /\ ServerOf[ListenerOf[c]] # "http" => c \in conns
    /\ \A l \in Listeners : serve[l] = "add" => held[l] \in conns

\* So Close has closed them all, but for those handed over since.
Severed ==
    main \in {"wait", "asleep"} => \A c \in ConnsOf(Servers[turn + 1]) :
        handler[c] \in Running => c \in cut \cup late

\* Every listener that is bound has its goroutine.
Bound ==
    /\ main = "bind" => \A i \in 1..Len(Specs) : i <= turn => serve[Specs[i]] # "none"
    /\ main \in {"serving", "shutdown", "draining", "close", "join"} \cup Waits =>
        \A l \in Listeners : serve[l] # "none"
    /\ main = "draining" => hook \in {"started", "done"}

Ready == Kinds /\ Registered /\ Severed /\ Bound

LEMMA ReadyInit == Init => Ready
BY SpecsAre DEF Init, Ready, Kinds, Registered, Severed, Bound, Running, Waits

LEMMA KindsStep ==
    ASSUME Inv, Kinds, exit = "running", Step
    PROVE  Kinds'
<1> USE LifecycleAssumption DEF process, errors, loops, sessions
<1>0. TypeOK /\ Hands
  BY DEF Inv
<1>1. CASE UNCHANGED handler
  BY <1>1 DEF Kinds
<1>2. ASSUME NEW l \in Listeners, Add(l) PROVE Kinds'
  <2>1. held[l] \in Conns /\ handler[held[l]] = "accepted" /\ ServerOf[ListenerOf[held[l]]] # "http"
    BY <1>0, <1>2 DEF Add, TypeOK, Hands, Kinds
  <2> QED
    BY <1>0, <1>2, <2>1 DEF Add, Becomes, TypeOK, Kinds
<1>3. ASSUME NEW l \in Listeners, NEW c \in Conns, Accept(l, c) PROVE Kinds'
  BY <1>0, <1>3, WebIs DEF Accept, Becomes, TypeOK, Kinds
<1>4. ASSUME NEW c \in Conns, Proceed(c) PROVE Kinds'
  BY <1>0, <1>4 DEF Proceed, Becomes, TypeOK, Kinds
<1>5. ASSUME NEW c \in Conns, Work(c) PROVE Kinds'
  BY <1>0, <1>5 DEF Work, Becomes, TypeOK, Kinds
<1>6. ASSUME NEW c \in Conns, End(c) PROVE Kinds'
  BY <1>0, <1>6 DEF End, Becomes, TypeOK, Kinds
<1>7. CASE Bind \/ BindFails \/ Notify \/ Killed \/ Signal \/ Shutdown \/ WebShutdown
           \/ Drained \/ DrainTimeout \/ Close \/ Wait \/ Wake \/ Join
  BY <1>1, <1>7 DEF Bind, BindFails, Notify, Killed, Signal, Shutdown, WebShutdown,
                    Drained, DrainTimeout, Close, Wait, Wake, Join
<1>8. ASSUME NEW l \in Listeners, Start(l) \/ Track(l) \/ AcceptFails(l) \/ Return(l)
                                  \/ Report(l) \/ Stop(l)
      PROVE  Kinds'
  BY <1>1, <1>8 DEF Start, Track, AcceptFails, Return, Report, Stop
<1> QED
  BY <1>2, <1>3, <1>4, <1>5, <1>6, <1>7, <1>8 DEF Step

LEMMA RegisteredStep ==
    ASSUME Inv, Kinds, Registered, exit = "running", Step
    PROVE  Registered'
<1> USE LifecycleAssumption, NoConnAssumption DEF process, errors, loops, sessions
<1>0. TypeOK /\ Hands
  BY DEF Inv
<1>1. CASE Bind \/ BindFails \/ Notify \/ Killed \/ Signal \/ Shutdown \/ WebShutdown
           \/ Drained \/ DrainTimeout \/ Close \/ Wait \/ Wake \/ Join
  <2>1. UNCHANGED <<conns, handler, held>> /\ (UNCHANGED serve \/ \E l \in Listeners : Go(l, "start"))
    <3>1. CASE Bind
      <4>1. Specs[turn + 1] \in Listeners
        BY <1>0, <3>1, SpecsAre, ServersAre DEF Bind, TypeOK
      <4> QED
        BY <3>1, <4>1 DEF Bind
    <3> QED
      BY <1>1, <3>1 DEF BindFails, Notify, Killed, Signal, Shutdown, WebShutdown,
                        Drained, DrainTimeout, Close, Wait, Wake, Join
  <2> QED
    BY <1>0, <2>1 DEF Go, TypeOK, Registered
<1>2. ASSUME NEW l \in Listeners, Start(l) \/ AcceptFails(l) \/ Return(l) \/ Report(l) \/ Stop(l)
      PROVE  Registered'
  <2>1. UNCHANGED <<conns, handler, held>> /\ \E pc \in ServeStates \ {"add"} : Go(l, pc)
    BY <1>2 DEF Start, AcceptFails, Return, Report, Stop, Go, ServeStates
  <2> QED
    BY <1>0, <2>1 DEF Go, TypeOK, Registered
<1>3. ASSUME NEW l \in Listeners, Track(l) PROVE Registered'
  BY <1>0, <1>3 DEF Track, Go, TypeOK, Registered
<1>4. ASSUME NEW l \in Listeners, Add(l) PROVE Registered'
  BY <1>0, <1>4 DEF Add, Go, Becomes, TypeOK, Registered
<1>5. ASSUME NEW l \in Listeners, NEW c \in Conns, Accept(l, c) PROVE Registered'
  BY <1>0, <1>5 DEF Accept, Go, Becomes, TypeOK, Registered, Web, Running
<1>6. ASSUME NEW c \in Conns, Proceed(c) \/ Work(c) PROVE Registered'
  BY <1>0, <1>6 DEF Proceed, Work, Becomes, TypeOK, Registered, Running
<1>7. ASSUME NEW c \in Conns, End(c) PROVE Registered'
  <2>1. \A l \in Listeners : serve[l] = "add" => held[l] # c
    BY <1>0, <1>7 DEF End, TypeOK, Hands, Running
  <2> QED
    BY <1>0, <1>7, <2>1 DEF End, Becomes, TypeOK, Registered, Running
<1> QED
  BY <1>1, <1>2, <1>3, <1>4, <1>5, <1>6, <1>7 DEF Step

LEMMA SeveredStep ==
    ASSUME Inv, Kinds, Registered, Severed, exit = "running", Step
    PROVE  Severed'
<1> USE LifecycleAssumption DEF Waits, process, errors, loops, sessions
<1>0. TypeOK /\ Phase /\ Hands
  BY DEF Inv
<1>w. main \in {"wait", "asleep"} => Servers[turn + 1] \in closed /\ Servers[turn + 1] # "http"
  BY <1>0, ServersAre DEF Phase
<1>1. CASE main' \notin {"wait", "asleep"}
  BY <1>1 DEF Severed
<1>2. CASE Close
  <2>1. Servers[turn + 1] # "http"
    BY <1>0, <1>2, ServersAre DEF Close, Phase
  <2> QED
    BY <1>2, <2>1 DEF Close, Severed, Registered, ConnsOf
<1>3. CASE Bind \/ BindFails \/ Notify \/ Killed \/ Signal \/ Shutdown
           \/ Drained \/ DrainTimeout \/ Wake \/ Join
  <2>1. main' \notin {"wait", "asleep"}
    BY <1>3 DEF Bind, BindFails, Notify, Killed, Signal, Shutdown, Drained, DrainTimeout,
                Wake, Returns, Join
  <2> QED
    BY <1>1, <2>1
<1>4. CASE WebShutdown \/ Wait
  BY <1>4 DEF WebShutdown, Wait, Returns, Severed, ConnsOf
<1>5. ASSUME NEW l \in Listeners, Start(l) \/ Track(l) \/ AcceptFails(l) \/ Return(l)
                                  \/ Report(l) \/ Stop(l)
      PROVE  Severed'
  <2>1. UNCHANGED <<turn, handler, cut, late>> /\ (main' = main \/ main' = "done")
    BY <1>5 DEF Start, Track, AcceptFails, Return, Report, Stop
  <2> QED
    BY <2>1 DEF Severed, ConnsOf
<1>6. ASSUME NEW l \in Listeners, Add(l), main \in {"wait", "asleep"} PROVE Severed'
  <2>1. held[l] \in Conns /\ handler[held[l]] = "accepted" /\ ListenerOf[held[l]] = l
    BY <1>0, <1>6 DEF Add, TypeOK, Hands
  <2>2. held[l] \in ConnsOf(Servers[turn + 1]) => held[l] \in late
    BY <1>0, <1>6, <1>w, <2>1 DEF Hands, ConnsOf
  <2>3. \A c \in Conns \ {held[l]} : handler'[c] = handler[c]
    BY <1>0, <1>6, <2>1 DEF Add, Becomes, TypeOK
  <2>4. UNCHANGED <<turn, cut, late>> /\ (main' = main \/ main' = "done")
    BY <1>6 DEF Add
  <2> QED
    BY <2>2, <2>3, <2>4 DEF Severed, ConnsOf
<1>7. ASSUME NEW l \in Listeners, NEW c \in Conns, Accept(l, c),
             main \in {"wait", "asleep"}
      PROVE  Severed'
  <2>1. c \notin ConnsOf(Servers[turn + 1]) \/ handler'[c] \notin Running
    BY <1>0, <1>7, <1>w, WebIs DEF Accept, Becomes, ConnsOf, TypeOK, Running
  <2>2. \A d \in Conns \ {c} : handler'[d] = handler[d]
    BY <1>0, <1>7 DEF Accept, Becomes, TypeOK
  <2>3. UNCHANGED <<main, turn, cut, late>>
    BY <1>7 DEF Accept
  <2> QED
    BY <2>1, <2>2, <2>3 DEF Severed, ConnsOf
<1>8. ASSUME NEW c \in Conns, Proceed(c) \/ Work(c) \/ End(c) PROVE Severed'
  <2>1. handler[c] \in Running /\ \A d \in Conns \ {c} : handler'[d] = handler[d]
    BY <1>0, <1>8 DEF Proceed, Work, End, Becomes, TypeOK, Running
  <2>2. /\ UNCHANGED <<turn, cut, late>>
        /\ main' = main \/ main' = "woken"
    BY <1>8 DEF Proceed, Work, End, Done
  <2> QED
    BY <2>1, <2>2 DEF Severed, ConnsOf
<1>9. ASSUME NEW l \in Listeners, Add(l) \/ \E c \in Conns : Accept(l, c)
      PROVE  main' = main \/ main' = "done"
  BY <1>9 DEF Add, Accept
<1> QED
  BY <1>1, <1>2, <1>3, <1>4, <1>5, <1>6, <1>7, <1>8, <1>9 DEF Step

LEMMA BoundStep ==
    ASSUME Inv, Bound, exit = "running", Step
    PROVE  Bound'
<1> USE DEF Waits, process, errors, loops, sessions
<1>0. TypeOK /\ Phase
  BY DEF Inv
<1>1. CASE Bind
  <2>1. turn \in Nat /\ turn + 1 \in 1..Len(Specs)
    BY <1>0, <1>1, SpecsAre, ServersAre DEF Bind, TypeOK
  <2>2. \A l \in Listeners : serve[l] # "none" => serve'[l] # "none"
    BY <1>0, <1>1 DEF Bind, Go, TypeOK
  <2>3. serve'[Specs[turn + 1]] # "none"
    BY <1>0, <1>1, <2>1, SpecsAre DEF Bind, Go, TypeOK
  <2>4. \A i \in 1..Len(Specs) : i <= turn + 1 => serve'[Specs[i]] # "none"
    BY <1>1, <2>1, <2>2, <2>3, SpecsAre DEF Bind, Bound
  <2> QED
    BY <1>1, <2>4 DEF Bind, Bound
<1>2. CASE Notify
  <2>1. \A l \in Listeners : \E i \in 1..Len(Specs) : l = Specs[i]
    BY SpecsAre DEF Listeners, ToSet
  <2> QED
    BY <1>2, <2>1, SpecsAre DEF Notify, Bound
<1>3. CASE BindFails \/ Killed \/ Signal \/ Shutdown \/ WebShutdown
           \/ Drained \/ DrainTimeout \/ Close \/ Wait \/ Wake \/ Join
  BY <1>3 DEF BindFails, Killed, Signal, Shutdown, WebShutdown, Drained, DrainTimeout,
              Close, Wait, Wake, Returns, Join, Bound
<1>4. ASSUME NEW l \in Listeners, Start(l) \/ Track(l) \/ Add(l) \/ AcceptFails(l)
                                  \/ Return(l) \/ Report(l) \/ Stop(l) \/ \E c \in Conns : Accept(l, c)
      PROVE  Bound'
  <2>1. UNCHANGED serve \/ \E pc \in ServeStates \ {"none"} : Go(l, pc)
    BY <1>4 DEF Start, Track, Add, AcceptFails, Return, Report, Stop, Accept, Go, ServeStates
  <2>2. \A k \in Listeners : serve[k] # "none" => serve'[k] # "none"
    BY <1>0, <2>1 DEF Go, TypeOK
  <2>3. UNCHANGED <<turn, hook>> /\ (main' = main \/ main' = "done")
    BY <1>4 DEF Start, Track, Add, AcceptFails, Return, Report, Stop, Accept
  <2> QED
    BY <2>2, <2>3, SpecsAre DEF Bound
<1>5. ASSUME NEW c \in Conns, Proceed(c) \/ Work(c) \/ End(c) PROVE Bound'
  BY <1>5 DEF Proceed, Work, End, Done, Bound
<1> QED
  BY <1>1, <1>2, <1>3, <1>4, <1>5 DEF Step

LEMMA ReadyNext == Inv /\ Ready /\ [Next]_vars => Ready'
<1> SUFFICES ASSUME Inv, Ready, [Next]_vars PROVE Ready'
  OBVIOUS
<1>1. CASE UNCHANGED vars
  BY <1>1 DEF vars, process, errors, loops, sessions, Ready, Kinds, Registered, Severed,
              Bound, ConnsOf
<1>2. CASE exit = "running" /\ Step
  BY <1>2, KindsStep, RegisteredStep, SeveredStep, BoundStep DEF Ready
<1> QED
  BY <1>1, <1>2, Steps

\* What is ready is never stuck.
LEMMA NeverStuck == Inv /\ Ready => ShutdownNeverStuck
<1> SUFFICES ASSUME Inv, Ready PROVE ShutdownNeverStuck
  OBVIOUS
<1>0. TypeOK /\ Phase /\ Sockets /\ Sleeper
  BY DEF Inv
<1>1. ASSUME main = "draining"
      PROVE  hook \in {"started", "done"} /\ \A c \in Requests : handler[c] \in {"request", "stream"}
  BY <1>1 DEF Ready, Bound, Kinds, Requests, ConnsOf, Running
<1>2. ASSUME main = "asleep"
      PROVE  /\ Handlers(Servers[turn + 1]) # {}
             /\ \A c \in Awaited : handler[c] \in Running => c \in cut
  BY <1>0, <1>2 DEF Ready, Severed, Awaited, Sleeper
<1>3. ASSUME main = "join", NEW l \in Listeners
      PROVE  serve[l] # "none" /\ (serve[l] = "accept" => l \notin open)
  <2>1. serve[l] # "none"
    BY <1>3 DEF Ready, Bound
  <2>2. CASE l \in Web
    BY <1>0, <1>3, <2>1, <2>2 DEF Sockets
  <2>3. CASE l \notin Web
    BY <1>0, <1>3, <2>1, <2>3, ServersAre, WebIs DEF Phase, Sockets
  <2> QED
    BY <2>1, <2>2, <2>3
<1> QED
  BY <1>1, <1>2, <1>3 DEF ShutdownNeverStuck

\* A handler and a listener's goroutine that go on have less before them.
LEMMA HandlerGoesOn ==
    ASSUME TypeOK, NEW c \in Conns, Work(c) \/ End(c)
    PROVE  /\ HandlerLeft(c)' < HandlerLeft(c)
           /\ \A d \in Conns \ {c} : handler'[d] = handler[d]
BY DEF TypeOK, Work, End, Becomes, HandlerLeft, Running

LEMMA ServeGoesOn ==
    ASSUME TypeOK, NEW l \in Listeners,
           Start(l) \/ Track(l) \/ Add(l) \/ AcceptFails(l) \/ Return(l) \/ Report(l) \/ Stop(l)
    PROVE  /\ ServeLeft(l)' < ServeLeft(l)
           /\ \A k \in Listeners \ {l} : serve'[k] = serve[k]
<1> DEFINE pc == serve'[l]
<1>1. /\ Go(l, pc)
      /\ \/ serve[l] = "start"  /\ pc \in {"accept", "returned"}
         \/ serve[l] = "track"  /\ pc = "add"
         \/ serve[l] = "add"    /\ pc = "accept"
         \/ serve[l] = "accept" /\ pc = "erred"
         \/ serve[l] = "erred"  /\ pc \in {"failed", "returned"}
         \/ serve[l] = "failed" /\ pc \in {"stop", "returned"}
         \/ serve[l] = "stop"   /\ pc = "returned"
  BY DEF TypeOK, Start, Track, Add, AcceptFails, Return, Report, Stop, Go
<1> QED
  BY <1>1 DEF TypeOK, Go, ServeLeft

\* What the step of a shutdown may do to those it waits for.
Fewer ==
    /\ \A c \in Awaited : HandlerLeft(c)' <= HandlerLeft(c)
    /\ main = "join" => \A l \in Listeners : ServeLeft(l)' <= ServeLeft(l)

LEMMA LeftAre ==
    /\ \A c \in Conns : HandlerLeft(c) \in Nat
    /\ \A l \in Listeners : ServeLeft(l) \in Nat
    /\ Awaited \subseteq Conns
BY DEF HandlerLeft, ServeLeft, Awaited, ConnsOf

\* No step sets them back, and a closed socket brings nobody new.
LEMMA FewerStep ==
    ASSUME Inv, Ready, Closing, exit = "running", Step
    PROVE  Fewer
<1> USE LifecycleAssumption
<1>0. TypeOK /\ Phase /\ Sockets /\ Hands /\ ShutdownNeverStuck
  BY NeverStuck DEF Inv
<1>1. ASSUME UNCHANGED <<handler, serve>> PROVE Fewer
  BY <1>1, LeftAre DEF Fewer, HandlerLeft, ServeLeft
<1>2. ASSUME NEW l \in Listeners, Start(l) \/ Track(l) \/ AcceptFails(l) \/ Return(l)
                                  \/ Report(l) \/ Stop(l)
      PROVE  Fewer
  <2>1. UNCHANGED handler
    BY <1>2 DEF Start, Track, AcceptFails, Return, Report, Stop, sessions
  <2>2. \A c \in Conns : HandlerLeft(c)' = HandlerLeft(c)
    BY <2>1 DEF HandlerLeft
  <2>3. ServeLeft(l)' < ServeLeft(l) /\ \A k \in Listeners \ {l} : serve'[k] = serve[k]
    BY <1>0, <1>2, ServeGoesOn
  <2>4. \A k \in Listeners \ {l} : ServeLeft(k)' = ServeLeft(k)
    BY <2>3 DEF ServeLeft
  <2>5. ServeLeft(l)' \in Nat
    BY DEF ServeLeft
  <2> QED
    BY <2>2, <2>3, <2>4, <2>5, LeftAre DEF Fewer
<1>3. ASSUME NEW l \in Listeners, Add(l) PROVE Fewer
  <2>1. held[l] \in Conns /\ handler[held[l]] = "accepted"
    BY <1>0, <1>3 DEF Add, TypeOK, Hands
  <2>2. \A c \in Conns :
          (handler'[c] = handler[c]) \/ (handler[c] = "accepted" /\ handler'[c] \in {"handshake", "reading"})
    <3>1. \E what \in {"handshake", "reading"} : handler' = [handler EXCEPT ![held[l]] = what]
      BY <1>3 DEF Add, Becomes
    <3>2. handler \in [Conns -> HandlerStates]
      BY <1>0 DEF TypeOK
    <3> QED
      BY <2>1, <3>1, <3>2
  <2>3. \A c \in Conns : HandlerLeft(c)' <= HandlerLeft(c)
    BY <2>2 DEF HandlerLeft
  <2>4. ServeLeft(l)' < ServeLeft(l) /\ \A k \in Listeners \ {l} : serve'[k] = serve[k]
    BY <1>0, <1>3, ServeGoesOn
  <2>5. \A k \in Listeners \ {l} : ServeLeft(k)' = ServeLeft(k)
    BY <2>4 DEF ServeLeft
  <2>6. ServeLeft(l)' \in Nat
    BY DEF ServeLeft
  <2> QED
    BY <2>3, <2>4, <2>5, <2>6, LeftAre DEF Fewer
<1>4. ASSUME NEW l \in Listeners, NEW c \in Conns, Accept(l, c) PROVE Fewer
  \* A socket of a server that is being waited for is closed.
  <2>1. serve[l] = "accept" /\ l \in open /\ ListenerOf[c] = l
    BY <1>4 DEF Accept
  <2>2. main # "join"
    BY <1>0, <2>1 DEF ShutdownNeverStuck
  <2>3. c \notin Awaited
    <3>1. CASE main = "draining"
      BY <1>0, <2>1, <3>1, WebIs DEF Sockets, Awaited, ConnsOf
    <3>2. CASE main = "asleep"
      <4>1. Servers[turn + 1] \in closed
        BY <1>0, <3>2, ServersAre DEF Phase, Waits
      <4>2. ServerOf[l] # Servers[turn + 1]
        BY <1>0, <2>1, <4>1 DEF Sockets
      <4> QED
        BY <2>1, <3>2, <4>2 DEF Awaited, ConnsOf
    <3> QED
      BY <3>1, <3>2 DEF Awaited
  <2>4. \A d \in Conns \ {c} : handler'[d] = handler[d]
    BY <1>0, <1>4 DEF Accept, Becomes, TypeOK
  <2>5. \A d \in Conns \ {c} : HandlerLeft(d)' = HandlerLeft(d)
    BY <2>4 DEF HandlerLeft
  <2> QED
    BY <2>2, <2>3, <2>5, LeftAre DEF Fewer
<1>5. ASSUME NEW c \in Conns, Work(c) \/ End(c) PROVE Fewer
  <2>1. HandlerLeft(c)' < HandlerLeft(c) /\ \A d \in Conns \ {c} : handler'[d] = handler[d]
    BY <1>0, <1>5, HandlerGoesOn
  <2>2. \A d \in Conns \ {c} : HandlerLeft(d)' = HandlerLeft(d)
    BY <2>1 DEF HandlerLeft
  <2>3. UNCHANGED serve /\ HandlerLeft(c)' \in Nat
    BY <1>5 DEF Work, End, loops, HandlerLeft
  <2>4. \A l \in Listeners : ServeLeft(l)' = ServeLeft(l)
    BY <2>3 DEF ServeLeft
  <2>5. HandlerLeft(c) \in Nat /\ \A d \in Conns : HandlerLeft(d) \in Nat
    BY LeftAre
  <2>6. ASSUME NEW d \in Conns PROVE HandlerLeft(d)' <= HandlerLeft(d)
    <3>1. CASE d = c
      BY <2>1, <2>3, <2>5, <3>1
    <3>2. CASE d # c
      <4>1. HandlerLeft(d)' = HandlerLeft(d) /\ HandlerLeft(d) \in Nat
        BY <2>2, <2>5, <3>2
      <4> QED
        BY <4>1
    <3> QED
      BY <3>1, <3>2
  <2>7. \A l \in Listeners : ServeLeft(l)' <= ServeLeft(l)
    BY <2>4, LeftAre
  <2> QED
    BY <2>6, <2>7, LeftAre DEF Fewer
<1>6. ASSUME NEW c \in Conns, Proceed(c) PROVE Fewer
  \* Only a request goes on, and becomes a stream.
  <2>1. c \in Awaited => handler[c] = "request" /\ handler'[c] = "stream"
    <3>1. handler[c] \in Running /\ c \notin cut
      BY <1>6 DEF Proceed, Running
    <3>2. main = "asleep" => c \notin Awaited
      BY <1>0, <3>1 DEF ShutdownNeverStuck
    <3>3. main = "draining" /\ c \in Awaited => handler[c] \in {"request", "stream"}
      BY <1>0, <3>1 DEF ShutdownNeverStuck, Awaited, Requests
    <3> QED
      BY <1>0, <1>6, <3>2, <3>3 DEF Proceed, Becomes, TypeOK, Awaited
  <2>2. \A d \in Conns \ {c} : handler'[d] = handler[d]
    BY <1>0, <1>6 DEF Proceed, Becomes, TypeOK
  <2>3. \A d \in Awaited : HandlerLeft(d)' <= HandlerLeft(d)
    BY <2>1, <2>2, LeftAre DEF HandlerLeft
  <2>4. UNCHANGED serve
    BY <1>6 DEF Proceed, loops
  <2>5. \A l \in Listeners : ServeLeft(l)' = ServeLeft(l)
    BY <2>4 DEF ServeLeft
  <2> QED
    BY <2>3, <2>5, LeftAre DEF Fewer
<1>7. CASE Shutdown \/ WebShutdown \/ Drained \/ DrainTimeout \/ Close \/ Wait \/ Wake \/ Join
  BY <1>1, <1>7 DEF Shutdown, WebShutdown, Drained, DrainTimeout, Close, Wait, Wake, Join, loops, sessions
<1>8. ~(Bind \/ BindFails \/ Notify \/ Killed \/ Signal)
  BY DEF Closing, Waits, Bind, BindFails, Notify, Killed, Signal
<1> QED
  BY <1>2, <1>3, <1>4, <1>5, <1>6, <1>7, <1>8 DEF Step

\* A step of the main goroutine brings it to the next stage, as does a panic.
LEMMA MainGoesOn ==
    ASSUME TypeOK, Phase, Closing,
           \/ Shutdown \/ Drained \/ DrainTimeout \/ Close \/ Wait \/ Wake \/ Join
           \/ main' = "done"
           \/ main = "asleep" /\ main' = "woken" /\ UNCHANGED turn
    PROVE  Stage' > Stage
<1>1. CASE main' = "done"
  <2>1. Stage' = 11
    BY <1>1 DEF Stage
  <2>2. Stage \in 0..10
    BY ServersAre DEF Closing, Waits, Stage, TypeOK, Phase
  <2> QED
    BY <2>1, <2>2
<1>2. CASE Shutdown
  BY <1>2 DEF Shutdown, Stage
<1>3. CASE Drained \/ DrainTimeout
  BY <1>3 DEF Drained, DrainTimeout, Stage, TypeOK
<1>4. CASE Close
  BY <1>4 DEF Close, Stage, TypeOK
<1>5. CASE Wait \/ Wake
  <2>1. turn \in {0, 1}
    BY <1>5, ServersAre DEF Wait, Wake, Phase, Waits
  <2> QED
    BY <1>1, <1>5, <2>1, ServersAre DEF Wait, Wake, Returns, Stage
<1>6. CASE Join
  BY <1>1, <1>6 DEF Join
<1>7. CASE main = "asleep" /\ main' = "woken" /\ UNCHANGED turn
  <2>1. turn \in Nat
    BY <1>7 DEF TypeOK
  <2> QED
    BY <1>7, <2>1 DEF Stage
<1> QED
  BY <1>1, <1>2, <1>3, <1>4, <1>5, <1>6, <1>7

\* The other steps leave the stage and those awaited alone.
LEMMA StageStays ==
    ASSUME UNCHANGED <<main, turn, cut, late>>
    PROVE  Stage' = Stage /\ Awaited' = Awaited
BY DEF Stage, Awaited, ConnsOf

LEMMA MainIsElsewhere ==
    ASSUME Closing, MainStep, ~WebShutdown
    PROVE  Shutdown \/ Drained \/ Close \/ Wait \/ Wake \/ Join
BY DEF Closing, Waits, MainStep, Bind, Notify, Stopped, Signal

LEMMA OthersWait ==
    ASSUME Closing, exit = "running", Step
    PROVE  \/ Shutdown \/ Drained \/ DrainTimeout \/ Close \/ Wait \/ Wake \/ Join
           \/ main' = "done"
           \/ main = "asleep" /\ main' = "woken" /\ UNCHANGED turn
           \/ UNCHANGED <<main, turn, cut, late>>
BY DEF Closing, Waits, Step, Bind, BindFails, Notify, Killed, Signal, WebShutdown, Start, Track,
       Add, AcceptFails, Return, Report, Stop, Accept, Proceed, Work, End, Done, process, sessions

LEMMA ShutdownStepNext == Inv /\ Ready /\ [Next]_vars => ShutdownStep
<1> SUFFICES ASSUME Inv, Ready, [Next]_vars, Closing, ~(Stage' > Stage)
             PROVE  /\ Stage' = Stage /\ Awaited' = Awaited
                    /\ MainStep => WebShutdown
                    /\ \A c \in Awaited : /\ HandlerLeft(c)' <= HandlerLeft(c)
                                          /\ HandlerStep(c) => HandlerLeft(c)' < HandlerLeft(c)
                    /\ main = "join" => \A l \in Listeners :
                         /\ ServeLeft(l)' <= ServeLeft(l)
                         /\ ServeStep(l) => ServeLeft(l)' < ServeLeft(l)
  BY Zenon DEF ShutdownStep
<1>0. TypeOK /\ Phase
  BY DEF Inv
<1>1. UNCHANGED vars \/ (exit = "running" /\ Step)
  BY Steps
<1>2. UNCHANGED <<main, turn, cut, late>>
  BY <1>0, <1>1, MainGoesOn, OthersWait DEF vars, process, sessions
<1>3. Stage' = Stage /\ Awaited' = Awaited
  BY <1>2, StageStays
<1>4. MainStep => WebShutdown
  BY <1>0, MainGoesOn, MainIsElsewhere
<1>5. Fewer
  <2>1. CASE UNCHANGED vars
    BY <2>1, LeftAre DEF Fewer, HandlerLeft, ServeLeft, vars, loops, sessions
  <2> QED
    BY <1>1, <2>1, FewerStep
<1>6. ASSUME NEW c \in Awaited, HandlerStep(c) PROVE HandlerLeft(c)' < HandlerLeft(c)
  <2>1. c \in Conns /\ (Work(c) \/ End(c))
    BY <1>6, LeftAre DEF HandlerStep, StreamEnds
  <2> QED
    BY <1>0, <2>1, HandlerGoesOn
<1>7. ASSUME NEW l \in Listeners, ServeStep(l) PROVE ServeLeft(l)' < ServeLeft(l)
  BY <1>0, <1>7, ServeGoesOn DEF ServeStep
<1> QED
  BY <1>3, <1>4, <1>5, <1>6, <1>7, Zenon DEF Fewer

\* What ShutdownEnds rests on, for all configurations: from the shutdown on,
\* those whom the main goroutine waits for can go on by themselves (handlers of
\* connections that were closed, streams that hear of the shutdown, listeners'
\* goroutines whose socket is closed), each of their steps leaves them less to
\* do, no step of anyone gives them more, nobody joins them, and otherwise only
\* the main goroutine changes what is waited for, by going on to a later stage,
\* of which there are twelve.
THEOREM ShutdownComesNearer == Spec => []ShutdownNeverStuck /\ ShutdownGoesOn
<1>1. Init => Inv /\ Ready
  BY InvInit, ReadyInit
<1>2. Inv /\ Ready /\ [Next]_vars => (Inv /\ Ready)'
  BY InvNext, ReadyNext
<1>3. Inv /\ Ready => ShutdownNeverStuck
  BY NeverStuck
<1>4. Inv /\ Ready /\ [Next]_vars => [ShutdownStep]_vars
  BY ShutdownStepNext
<1> QED
  BY <1>1, <1>2, <1>3, <1>4, PTL DEF Spec, ShutdownGoesOn
=============================================================================
